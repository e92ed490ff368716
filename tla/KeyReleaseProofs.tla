-------------------------- MODULE KeyReleaseProofs --------------------------
(***************************************************************************)
(* Theorems about KeyRelease for any number of calls, any backlog, any     *)
(* pins, every cap of the replay cache and any number of restarts.  What   *)
(* KrsServerProofs shows of the service holds of the composition as well.  *)
(***************************************************************************)
EXTENDS KeyRelease, KrsServerProofs

(* What release sends is a request the service parses.                     *)
LEMMA RequestOfType ==
  ASSUME NEW c \in Handlers
  PROVE  RequestOf(c) \in Request /\ RequestOf(c).path_ok /\ RequestOf(c).parses
  <1>1. /\ XKeyOf[c] \in XKeys /\ KemKeyOf[c] \in KemKeys
        /\ DrawnNonce[c] \in Nonces /\ ReportOf[c] \in Reports
    BY KeyReleaseAssumption
  <1>2. RequestOf(c) \in Request
    BY <1>1 DEF RequestOf, Request
  <1> QED BY <1>2 DEF RequestOf

(* Every step of the composition is a step of the service or leaves it     *)
(* alone.                                                                  *)
LEMMA ServerStep ==
  ASSUME [KRNext]_allVars
  PROVE  [Next]_vars
  <1>1. CASE RestartKrs
    BY <1>1 DEF RestartKrs, Next
  <1>2. ASSUME NEW c \in Handlers, ServeRequest(c) PROVE Next
    BY <1>2, RequestOfType DEF ServeRequest, Receive, Next
  <1>3. ASSUME NEW c \in Handlers, Serve(c) PROVE Next
    BY <1>3 DEF Serve, Next
  <1>4. CASE Accept
    BY <1>4 DEF Accept
  <1>5. ASSUME NEW c \in Handlers, HandshakeDone(c) \/ HandshakeError(c)
        PROVE  UNCHANGED vars
    BY <1>5 DEF HandshakeDone, HandshakeError
  <1>6. ASSUME NEW c \in Handlers, ClientStep(c) PROVE UNCHANGED vars
    BY <1>6 DEF ClientStep, Connect, SendRequest, ReadReply, ConnectionLost
  <1>7. ASSUME NEW c \in Handlers, HandlerEof(c) \/ Fault(c)
        PROVE  UNCHANGED vars
    BY <1>7 DEF HandlerEof, Fault, Timeout, Vanish, Reset, Misdeliver
  <1>8. CASE UNCHANGED allVars
    BY <1>8 DEF allVars
  <1> QED BY <1>1, <1>2, <1>3, <1>4, <1>5, <1>6, <1>7, <1>8
          DEF KRNext, HandlerStep

(* The service behind its listener takes steps of KrsServer only, whose    *)
(* theorems therefore apply.                                               *)
LEMMA ServerUndisturbed == KRSpec => Safety
  <1>1. KRInit => Init
    BY DEF KRInit
  <1>2. [KRNext]_allVars => [Next]_vars
    BY ServerStep
  <1> QED BY <1>1, <1>2, PTL DEF KRSpec, Safety

(* So that what KrsServerProofs shows of the service holds behind its      *)
(* listener, whatever the network does: nonces, entitlement, reports and   *)
(* the cache's cap.                                                        *)
THEOREM ServiceTheoremsHold ==
  KRSpec => [](/\ TypeOK /\ NonceOncePerGeneration /\ GrantedOnlyIfEntitled
               /\ ReportSpentOncePerGeneration /\ CacheBounded)
  BY ServerUndisturbed, TypeCorrect, NonceUse, Entitlement, ReportUse,
     CacheBound, PTL

-----------------------------------------------------------------------------
(* The calls, their connections and the backlog keep their types.          *)
THEOREM KRTypeCorrect == KRSpec => []KRTypeOK
  <1> DEFINE NetTypeOK ==
               /\ quiet \in BOOLEAN
               /\ pins \in [Handlers -> Pins]
               /\ cpc \in [Handlers -> ClientStates]
               /\ conn \in [Handlers -> ConnStates]
               /\ queue \in Seq(Handlers)
               /\ reply \in [Handlers -> Replies]
  <1>0. \A k \in {"none", "eof", "denied"} : Reply(k) \in Replies
    BY DEF Reply, Replies
  <1>1. KRInit => NetTypeOK
    BY <1>0, KeyReleaseAssumption DEF KRInit, ClientStates, ConnStates
  <1>2. TypeOK' /\ NetTypeOK /\ [KRNext]_allVars => NetTypeOK'
    <2> SUFFICES ASSUME TypeOK', NetTypeOK, [KRNext]_allVars PROVE NetTypeOK'
      OBVIOUS
    <2> USE DEF Client, Server, ClientStates, ConnStates
    <2>1. CASE Accept
      <3>1. queue' \in Seq(Handlers)
        BY <2>1, HeadTailProperties DEF Accept
      <3> QED BY <2>1, <3>1 DEF Accept
    <2>2. CASE RestartKrs
      <3>1. reply' \in [Handlers -> Replies]
        BY <1>0, <2>2 DEF RestartKrs
      <3>2. queue' \in Seq(Handlers)
        BY <2>2 DEF RestartKrs
      <3> QED BY <2>2, <3>1, <3>2 DEF RestartKrs
    <2>3. ASSUME NEW c \in Handlers, HandshakeDone(c) \/ HandshakeError(c)
          PROVE  NetTypeOK'
      BY <2>3 DEF HandshakeDone, HandshakeError
    <2>4. ASSUME NEW c \in Handlers, Connect(c) PROVE NetTypeOK'
      <3>1. queue' \in Seq(Handlers)
        BY <2>4, AppendProperties DEF Connect
      <3> QED BY <2>4, <3>1 DEF Connect
    <2>5. ASSUME NEW c \in Handlers, SendRequest(c) PROVE NetTypeOK'
      BY <2>5 DEF SendRequest
    <2>6. ASSUME NEW c \in Handlers, ReadReply(c) \/ ConnectionLost(c)
          PROVE  NetTypeOK'
      BY <2>6 DEF ReadReply, ConnectionLost
    <2>7. ASSUME NEW c \in Handlers, ServeRequest(c) \/ HandlerEof(c)
          PROVE  NetTypeOK'
      BY <2>7 DEF ServeRequest, HandlerEof
    <2>8. ASSUME NEW c \in Handlers, Serve(c) PROVE NetTypeOK'
      <3>1. Len(grants') \in Nat
        BY LenProperties DEF TypeOK
      <3>2. [kind |-> "grant", grant |-> Len(grants')] \in Replies
        BY <3>1 DEF Replies
      <3>3. reply' \in [Handlers -> Replies]
        BY <1>0, <2>8, <3>2 DEF Serve
      <3> QED BY <2>8, <3>3 DEF Serve
    <2>9. ASSUME NEW c \in Handlers, Fault(c) PROVE NetTypeOK'
      <3>1. CASE Timeout(c) \/ Vanish(c) \/ Reset(c)
        BY <1>0, <3>1 DEF Timeout, Vanish, Reset
      <3>2. CASE Misdeliver(c)
        <4>1. PICK i \in 1..Len(grants) :
                 reply' = [reply EXCEPT ![c] = [kind |-> "grant", grant |-> i]]
          BY <3>2 DEF Misdeliver
        <4>2. [kind |-> "grant", grant |-> i] \in Replies
          BY <4>1 DEF Replies
        <4>3. reply' \in [Handlers -> Replies]
          BY <4>1, <4>2
        <4> QED BY <3>2, <4>3 DEF Misdeliver
      <3> QED BY <2>9, <3>1, <3>2 DEF Fault
    <2>10. CASE UNCHANGED allVars
      BY <2>10 DEF allVars, netVars
    <2> QED BY <2>1, <2>2, <2>3, <2>4, <2>5, <2>6, <2>7, <2>8, <2>9, <2>10
            DEF KRNext, ClientStep, HandlerStep
  <1>3. NetTypeOK /\ TypeOK => KRTypeOK
    BY DEF KRTypeOK
  <1> HIDE DEF NetTypeOK
  <1> QED BY <1>1, <1>2, <1>3, ServiceTheoremsHold, PTL DEF KRSpec

-----------------------------------------------------------------------------
(* A step of do_POST concerns its own handler only, and makes a grant, if  *)
(* any, with the request it holds and as its last step.                    *)
LEMMA PostEffect ==
  ASSUME TypeOK, NEW c \in Handlers, Step(c)
  PROVE  /\ pc[c] # "idle"
         /\ \A d \in Handlers \ {c} : pc'[d] = pc[d] /\ req'[d] = req[d]
         /\ \/ pc'[c] # "idle" /\ req'[c] = req[c] /\ grants' = grants
            \/ /\ pc'[c] = "idle"
               /\ grants' = grants \/ grants' = Append(grants, GrantFor(c))
  <1> USE DEF TypeOK
  <1>1. ASSUME Done(c)
        PROVE  /\ pc'[c] = "idle"
               /\ \A d \in Handlers \ {c} : pc'[d] = pc[d] /\ req'[d] = req[d]
    BY <1>1 DEF Done
  <1>2. CASE CheckReplay(c)
    <2>1. CASE Deny(c)
      BY <1>1, <1>2, <2>1 DEF CheckReplay, Deny
    <2>2. CASE ~Deny(c)
      BY <1>2, <2>2 DEF CheckReplay
    <2> QED BY <2>1, <2>2
  <1>3. CASE VerifyReport(c)
    <2>1. pc[c] = "verify" /\ (Deny(c) \/ \E m : Verified(c, m))
      BY <1>3 DEF VerifyReport
    <2>2. CASE Deny(c)
      BY <1>1, <2>1, <2>2 DEF Deny
    <2>3. ASSUME NEW m, Verified(c, m)
          PROVE  /\ pc'[c] = "wrap" /\ UNCHANGED <<req, grants>>
                 /\ \A d \in Handlers \ {c} : pc'[d] = pc[d]
      BY <2>3 DEF Verified
    <2> QED BY <2>1, <2>2, <2>3
  <1>4. CASE Release(c)
    BY <1>1, <1>4 DEF Release, Deny
  <1> QED BY <1>2, <1>3, <1>4 DEF Step

(* The places of a history that one grant was added to.                    *)
LEMMA GrantAdded ==
  ASSUME TypeOK, NEW c \in Handlers, grants' = Append(grants, GrantFor(c))
  PROVE  /\ Len(grants) \in Nat /\ Len(grants') = Len(grants) + 1
         /\ grants'[Len(grants')] = GrantFor(c)
         /\ \A i \in 1..Len(grants) : grants'[i] = grants[i]
  <1>1. grants \in Seq(Grant) /\ GrantFor(c) \in Grant
    BY DEF TypeOK, GrantFor, Grant, Request
  <1> QED BY <1>1, AppendProperties, LenProperties

(* A waiting connection waits once: Connect adds one that is not open yet, *)
(* Accept takes the first.                                                 *)
LEMMA QueueInductive ==
  ASSUME KRTypeOK, QueueInv, ConnInv, [KRNext]_allVars
  PROVE  QueueInv'
  <1>1. ASSUME NEW c \in Handlers, queue' = queue, conn[c] # "queued",
               NEW s, Server(c, s)
        PROVE  QueueInv'
    <2>1. \A i \in 1..Len(queue) : queue[i] \in Handlers
      BY ElementOfSeq DEF KRTypeOK
    <2> QED BY <1>1, <2>1 DEF QueueInv, Server, KRTypeOK
  <1>2. ASSUME UNCHANGED <<queue, conn>> PROVE QueueInv'
    BY <1>2 DEF QueueInv
  <1>3. CASE Accept
    <2> DEFINE q == Tail(queue)
    <2>1. /\ queue \in Seq(Handlers) /\ queue # << >> /\ queue' = q
          /\ conn' = [conn EXCEPT ![Head(queue)] = "handshake"]
          /\ conn \in [Handlers -> ConnStates]
      BY <1>3 DEF Accept, Server, KRTypeOK
    <2>2. /\ Len(queue) \in Nat /\ Len(queue) > 0 /\ Head(queue) = queue[1]
          /\ Len(q) = Len(queue) - 1
          /\ \A i \in 1..Len(q) : q[i] = queue[i + 1]
      BY <2>1, HeadTailProperties, LenProperties, EmptySeq
    <2>3. \A i \in 1..Len(q) :
             q[i] \in Handlers /\ i + 1 \in 1..Len(queue) /\ q[i] # Head(queue)
      BY <2>1, <2>2, ElementOfSeq DEF QueueInv
    <2>4. \A i \in 1..Len(q) : conn'[q[i]] = "queued"
      BY <2>1, <2>2, <2>3 DEF QueueInv
    <2>5. \A i, j \in 1..Len(q) : q[i] = q[j] => i = j
      BY <2>2, <2>3 DEF QueueInv
    <2> QED BY <2>1, <2>4, <2>5 DEF QueueInv
  <1>4. CASE RestartKrs
    BY <1>4 DEF RestartKrs, QueueInv
  <1>5. ASSUME NEW c \in Handlers, HandshakeDone(c) \/ HandshakeError(c)
        PROVE  QueueInv'
    BY <1>1, <1>5 DEF HandshakeDone, HandshakeError
  <1>6. ASSUME NEW c \in Handlers, Connect(c) PROVE QueueInv'
    <2>1. /\ queue \in Seq(Handlers) /\ queue' = Append(queue, c)
          /\ conn' = [conn EXCEPT ![c] = "queued"] /\ conn[c] = "none"
          /\ conn \in [Handlers -> ConnStates]
      BY <1>6 DEF Connect, Server, KRTypeOK, ConnInv
    <2>2. /\ Len(queue) \in Nat /\ Len(queue') = Len(queue) + 1
          /\ \A i \in 1..Len(queue) : queue'[i] = queue[i]
          /\ queue'[Len(queue) + 1] = c
      BY <2>1, AppendProperties, LenProperties
    <2>3. \A i \in 1..Len(queue) : queue[i] \in Handlers /\ queue[i] # c
      BY <2>1, ElementOfSeq DEF QueueInv
    <2>4. \A i \in 1..Len(queue') : conn'[queue'[i]] = "queued"
      BY <2>1, <2>2, <2>3 DEF QueueInv
    <2>5. \A i, j \in 1..Len(queue') : queue'[i] = queue'[j] => i = j
      BY <2>2, <2>3 DEF QueueInv
    <2> QED BY <2>4, <2>5 DEF QueueInv
  <1>7. ASSUME NEW c \in Handlers, SendRequest(c) PROVE QueueInv'
    <2>1. cpc[c] = "secured" /\ reply[c].kind # "eof" /\ queue' = queue
      BY <1>7 DEF SendRequest, PeerClosed
    <2>2. conn[c] = "open"
      BY <2>1 DEF ConnInv
    <2> QED BY <1>1, <1>2, <1>7, <2>1, <2>2 DEF SendRequest
  <1>8. ASSUME NEW c \in Handlers, ReadReply(c) \/ ConnectionLost(c) \/ Fault(c)
        PROVE  QueueInv'
    BY <1>2, <1>8 DEF ReadReply, ConnectionLost, Fault, Timeout, Vanish, Reset,
                      Misdeliver
  <1>9. ASSUME NEW c \in Handlers, ServeRequest(c) \/ HandlerEof(c)
        PROVE  QueueInv'
    BY <1>1, <1>9 DEF ServeRequest, HandlerEof
  <1>10. ASSUME NEW c \in Handlers, Serve(c) PROVE QueueInv'
    <2>1. queue' = queue /\ conn[c] = "serving"
      BY <1>10 DEF Serve
    <2>2. Server(c, "closed") \/ UNCHANGED conn
      BY <1>10 DEF Serve
    <2> QED BY <1>1, <1>2, <2>1, <2>2
  <1>11. CASE UNCHANGED allVars
    BY <1>2, <1>11 DEF allVars, netVars
  <1> QED BY <1>3, <1>4, <1>5, <1>6, <1>7, <1>8, <1>9, <1>10, <1>11
          DEF KRNext, ClientStep, HandlerStep

(* A connection that is closed stays closed: no call opens a second one.   *)
LEMMA ClosedStays ==
  ASSUME KRTypeOK, QueueInv, ConnInv, [KRNext]_allVars,
         NEW d \in Handlers, conn[d] = "closed"
  PROVE  conn'[d] = "closed"
  <1> USE DEF KRTypeOK, Server
  <1>1. CASE Accept
    <2>1. queue \in Seq(Handlers) /\ queue # << >>
      BY <1>1 DEF Accept
    <2>2. Head(queue) = queue[1] /\ 1 \in 1..Len(queue)
      BY <2>1, HeadTailProperties, LenProperties, EmptySeq
    <2>3. Head(queue) # d
      BY <2>2 DEF QueueInv
    <2> QED BY <1>1, <2>3 DEF Accept
  <1>2. CASE RestartKrs
    BY <1>2 DEF RestartKrs
  <1>3. ASSUME NEW c \in Handlers, HandshakeDone(c) \/ HandshakeError(c)
        PROVE  conn'[d] = "closed"
    BY <1>3 DEF HandshakeDone, HandshakeError
  <1>4. ASSUME NEW c \in Handlers, Connect(c) PROVE conn'[d] = "closed"
    BY <1>4 DEF Connect, ConnInv
  <1>5. ASSUME NEW c \in Handlers, SendRequest(c) PROVE conn'[d] = "closed"
    BY <1>5 DEF SendRequest, PeerClosed, ConnInv
  <1>6. ASSUME NEW c \in Handlers, ReadReply(c) \/ ConnectionLost(c) \/ Fault(c)
        PROVE  conn' = conn
    BY <1>6 DEF ReadReply, ConnectionLost, Fault, Timeout, Vanish, Reset,
                Misdeliver
  <1>7. ASSUME NEW c \in Handlers, HandlerStep(c) PROVE conn'[d] = "closed"
    BY <1>7 DEF HandlerStep, ServeRequest, HandlerEof, Serve
  <1>8. CASE UNCHANGED allVars
    BY <1>8 DEF allVars, netVars
  <1> QED BY <1>1, <1>2, <1>3, <1>4, <1>5, <1>6, <1>7, <1>8
          DEF KRNext, ClientStep

(* The state of a call's connection, step by step.                         *)
LEMMA ConnInductive ==
  ASSUME KRTypeOK, QueueInv, ConnInv, [KRNext]_allVars
  PROVE  ConnInv'
  <1> USE DEF KRTypeOK, Client, Server
  <1>0. pc \in [Handlers -> {"idle", "replay", "verify", "wrap"}]
        /\ req \in [Handlers -> Request]
    BY DEF TypeOK
  <1>1. CASE Accept
    <2>1. queue \in Seq(Handlers) /\ queue # << >>
      BY <1>1 DEF Accept
    <2>2. Head(queue) = queue[1] /\ 1 \in 1..Len(queue)
      BY <2>1, HeadTailProperties, LenProperties, EmptySeq
    <2>3. conn[Head(queue)] = "queued"
      BY <2>2 DEF QueueInv
    <2> QED BY <1>1, <2>3 DEF Accept, ConnInv, RequestOf, vars
  <1>2. CASE RestartKrs
    BY <1>2 DEF RestartKrs, Restart, ConnInv, Reply
  <1>3. ASSUME NEW c \in Handlers, HandshakeDone(c) PROVE ConnInv'
    BY <1>3 DEF HandshakeDone, PeerClosed, ConnInv, RequestOf, vars, Replies
  <1>4. ASSUME NEW c \in Handlers, HandshakeError(c) PROVE ConnInv'
    BY <1>4 DEF HandshakeError, PeerClosed, ConnInv, RequestOf, vars
  <1>5. ASSUME NEW c \in Handlers, Connect(c) PROVE ConnInv'
    BY <1>5 DEF Connect, ConnInv, RequestOf, vars
  <1>6. ASSUME NEW c \in Handlers, SendRequest(c) PROVE ConnInv'
    BY <1>6 DEF SendRequest, PeerClosed, ConnInv, RequestOf, vars
  <1>7. ASSUME NEW c \in Handlers, ReadReply(c) \/ ConnectionLost(c)
        PROVE  ConnInv'
    BY <1>7 DEF ReadReply, ConnectionLost, ConnInv, RequestOf, vars
  <1>8. ASSUME NEW c \in Handlers, Timeout(c) \/ Vanish(c) PROVE ConnInv'
    BY <1>8 DEF Timeout, Vanish, ConnInv, RequestOf, vars
  <1>9. ASSUME NEW c \in Handlers, Reset(c) PROVE ConnInv'
    BY <1>9 DEF Reset, ConnInv, RequestOf, vars, Reply
  <1>14. ASSUME NEW c \in Handlers, Misdeliver(c) PROVE ConnInv'
    BY <1>14 DEF Misdeliver, ConnInv, RequestOf, vars
  <1>10. ASSUME NEW c \in Handlers, ServeRequest(c) PROVE ConnInv'
    <2>1. RequestOf(c).path_ok /\ RequestOf(c).parses
      BY RequestOfType
    <2>2. /\ pc' = [pc EXCEPT ![c] = "replay"]
          /\ req' = [req EXCEPT ![c] = RequestOf(c)]
      BY <1>10, <2>1, Zenon DEF ServeRequest, ReceiveRequest
    <2> QED BY <1>0, <1>10, <2>2 DEF ServeRequest, ConnInv, RequestOf
  <1>11. ASSUME NEW c \in Handlers, HandlerEof(c) PROVE ConnInv'
    BY <1>11 DEF HandlerEof, PeerClosed, ConnInv, RequestOf, vars
  <1>12. ASSUME NEW c \in Handlers, Serve(c) PROVE ConnInv'
    <2>1. Step(c) /\ conn[c] = "serving" /\ cpc' = cpc
      BY <1>12 DEF Serve
    <2>2. /\ pc[c] # "idle"
          /\ \A d \in Handlers \ {c} : pc'[d] = pc[d] /\ req'[d] = req[d]
          /\ pc'[c] # "idle" => req'[c] = req[c]
      BY <2>1, PostEffect
    <2>3. \A d \in Handlers \ {c} : conn'[d] = conn[d] /\ reply'[d] = reply[d]
      BY <1>12 DEF Serve
    <2>4. CASE pc'[c] = "idle"
      <3>1. conn'[c] = "closed" /\ (reply[c].kind = "eof" => reply'[c].kind = "eof")
        BY <1>12, <2>4 DEF Serve
      <3> QED BY <2>1, <2>2, <2>3, <2>4, <3>1 DEF ConnInv, RequestOf
    <2>5. CASE pc'[c] # "idle"
      BY <1>12, <2>1, <2>2, <2>5 DEF Serve, ConnInv, RequestOf
    <2> QED BY <2>4, <2>5
  <1>13. CASE UNCHANGED allVars
    BY <1>13 DEF allVars, vars, netVars, ConnInv, RequestOf
  <1> QED BY <1>1, <1>2, <1>3, <1>4, <1>5, <1>6, <1>7, <1>8, <1>9, <1>10,
             <1>11, <1>12, <1>13, <1>14
          DEF KRNext, ClientStep, HandlerStep, Fault

(* While no grant is made, the calls' grants are as they were.             *)
LEMMA GrantsKept ==
  ASSUME KRTypeOK, QueueInv, ConnInv, GrantInv, OneGrantPerCall,
         [KRNext]_allVars, grants' = grants,
         \A c \in Handlers : reply'[c].kind = "grant" =>
            reply'[c] = reply[c] \/ reply'[c].grant \in 1..Len(grants)
  PROVE  GrantInv' /\ OneGrantPerCall'
  <1>1. \A c \in Handlers : GrantsFor(c)' = GrantsFor(c)
    BY DEF GrantsFor
  <1>2. ASSUME NEW i \in 1..Len(grants)
        PROVE  \E c \in Handlers : conn'[c] = "closed" /\ GrantMadeFor(c, grants[i])
    <2>1. PICK c \in Handlers : conn[c] = "closed" /\ GrantMadeFor(c, grants[i])
      BY <1>2 DEF GrantInv
    <2>2. conn'[c] = "closed"
      BY <2>1, ClosedStays
    <2> QED BY <2>1, <2>2
  <1>3. OneGrantPerCall'
    BY <1>1 DEF OneGrantPerCall
  <1>4. GrantInv'
    BY <1>1, <1>2 DEF GrantInv, GrantMadeFor
  <1> QED BY <1>3, <1>4

(* A step of do_POST that makes a grant makes it for its own call, which   *)
(* had none.                                                               *)
LEMMA GrantMade ==
  ASSUME KRTypeOK, QueueInv, ConnInv, GrantInv, OneGrantPerCall,
         [KRNext]_allVars, NEW c \in Handlers, Serve(c),
         grants' = Append(grants, GrantFor(c))
  PROVE  GrantInv' /\ OneGrantPerCall'
  <1> DEFINE n == Len(grants)
  <1>1. /\ n \in Nat /\ Len(grants') = n + 1 /\ grants'[n + 1] = GrantFor(c)
        /\ \A i \in 1..n : grants'[i] = grants[i]
    BY GrantAdded DEF KRTypeOK
  <1>2. conn[c] = "serving" /\ pc[c] # "idle" /\ pc'[c] = "idle"
    <2>1. grants' # grants
      BY <1>1
    <2> QED BY <2>1, PostEffect DEF Serve, KRTypeOK
  <1>3. conn'[c] = "closed"
    BY <1>2 DEF Serve, Server, KRTypeOK
  <1>4. GrantMadeFor(c, GrantFor(c))
    <2>1. req[c] = RequestOf(c)
      BY <1>2 DEF ConnInv
    <2> QED BY <2>1 DEF GrantMadeFor, GrantFor, RequestOf
  <1>5. \A d \in Handlers : DrawnNonce[d] = DrawnNonce[c] => d = c
    BY KeyReleaseAssumption
  <1>6. GrantsFor(c) = {}
    <2> SUFFICES ASSUME NEW i \in 1..n, grants[i].nonce = DrawnNonce[c]
                 PROVE  FALSE
      BY DEF GrantsFor
    <2>1. PICK d \in Handlers : conn[d] = "closed" /\ GrantMadeFor(d, grants[i])
      BY DEF GrantInv
    <2> QED BY <1>2, <1>5, <2>1 DEF GrantMadeFor
  <1>7. GrantsFor(c)' = {n + 1}
    <2>1. \A i \in 1..Len(grants') :
             grants'[i].nonce = DrawnNonce[c] <=> i = n + 1
      BY <1>1, <1>4, <1>6 DEF GrantsFor, GrantMadeFor
    <2> QED BY <1>1, <2>1 DEF GrantsFor
  <1>8. \A d \in Handlers \ {c} : GrantsFor(d)' = GrantsFor(d)
    BY <1>1, <1>4, <1>5 DEF GrantsFor, GrantMadeFor
  <1>9. OneGrantPerCall'
    BY <1>7, <1>8 DEF OneGrantPerCall
  <1>10. ASSUME NEW i \in 1..Len(grants')
         PROVE  \E d \in Handlers : conn'[d] = "closed" /\ GrantMadeFor(d, grants'[i])
    <2>1. CASE i = n + 1
      BY <1>1, <1>3, <1>4, <2>1
    <2>2. CASE i # n + 1
      <3>1. i \in 1..n
        BY <1>1, <2>2
      <3>2. PICK d \in Handlers : conn[d] = "closed" /\ GrantMadeFor(d, grants[i])
        BY <3>1 DEF GrantInv
      <3>3. conn'[d] = "closed"
        BY <3>2, ClosedStays
      <3> QED BY <1>1, <3>1, <3>2, <3>3
    <2> QED BY <2>1, <2>2
  <1>11. ASSUME NEW d \in Handlers, reply'[d].kind = "grant"
         PROVE  reply'[d].grant \in 1..Len(grants')
    <2>1. reply'[d] = reply[d] \/ reply'[d].grant = n + 1
      BY <1>1, <1>2 DEF Serve, KRTypeOK
    <2> QED BY <1>1, <1>11, <2>1 DEF GrantInv
  <1>12. GrantInv'
    BY <1>10, <1>11 DEF GrantInv, GrantMadeFor
  <1> QED BY <1>9, <1>12

(* CallInv, the invariant behind what the calls and their grants have to   *)
(* do with each other, is inductive.                                       *)
LEMMA CallInvInductive ==
  ASSUME KRTypeOK, CallInv, [KRNext]_allVars
  PROVE  CallInv'
  <1> USE DEF CallInv
  <1>1. QueueInv' /\ ConnInv'
    BY QueueInductive, ConnInductive
  <1>2. ASSUME NEW c \in Handlers, Serve(c) PROVE GrantInv' /\ OneGrantPerCall'
    <2>1. CASE grants' = grants
      <3>1. \A d \in Handlers :
               reply'[d].kind = "grant" => reply'[d] = reply[d]
        BY <1>2, <2>1 DEF Serve, Reply, KRTypeOK
      <3> QED BY <2>1, <3>1, GrantsKept
    <2>2. CASE grants' # grants
      <3>1. grants' = Append(grants, GrantFor(c))
        BY <1>2, <2>2, PostEffect DEF Serve, KRTypeOK
      <3> QED BY <1>2, <3>1, GrantMade
    <2> QED BY <2>1, <2>2
  <1>3. ASSUME ~\E c \in Handlers : Serve(c)
        PROVE  /\ grants' = grants
               /\ \A d \in Handlers : reply'[d].kind = "grant" =>
                     reply'[d] = reply[d] \/ reply'[d].grant \in 1..Len(grants)
    <2>1. CASE Accept
      BY <2>1 DEF Accept, vars
    <2>2. CASE RestartKrs
      BY <2>2 DEF RestartKrs, Restart, Reply
    <2>3. ASSUME NEW c \in Handlers, HandshakeDone(c) \/ HandshakeError(c)
          PROVE  UNCHANGED <<grants, reply>>
      BY <2>3 DEF HandshakeDone, HandshakeError, vars
    <2>4. ASSUME NEW c \in Handlers, ClientStep(c)
          PROVE  UNCHANGED <<grants, reply>>
      BY <2>4 DEF ClientStep, Connect, SendRequest, ReadReply, ConnectionLost,
                  vars
    <2>5. ASSUME NEW c \in Handlers, ServeRequest(c)
          PROVE  UNCHANGED <<grants, reply>>
      <3>1. RequestOf(c).path_ok /\ RequestOf(c).parses
        BY RequestOfType
      <3>2. UNCHANGED grants
        BY <2>5, <3>1, Zenon DEF ServeRequest, ReceiveRequest
      <3> QED BY <2>5, <3>2 DEF ServeRequest
    <2>6. ASSUME NEW c \in Handlers, HandlerEof(c) \/ Timeout(c) \/ Vanish(c)
          PROVE  UNCHANGED <<grants, reply>>
      BY <2>6 DEF HandlerEof, Timeout, Vanish, vars
    <2>7. ASSUME NEW c \in Handlers, Reset(c)
          PROVE  /\ grants' = grants
                 /\ \A d \in Handlers :
                       reply'[d].kind = "grant" => reply'[d] = reply[d]
      BY <2>7 DEF Reset, Reply, vars, KRTypeOK
    <2>8. CASE UNCHANGED allVars
      BY <2>8 DEF allVars, vars, netVars
    <2>9. ASSUME NEW c \in Handlers, Misdeliver(c)
          PROVE  /\ grants' = grants
                 /\ \A d \in Handlers :
                       reply'[d] = reply[d] \/ reply'[d].grant \in 1..Len(grants)
      BY <2>9 DEF Misdeliver, vars, KRTypeOK
    <2> QED BY <1>3, <2>1, <2>2, <2>3, <2>4, <2>5, <2>6, <2>7, <2>8, <2>9
            DEF KRNext, HandlerStep, Fault
  <1>4. GrantInv' /\ OneGrantPerCall'
    BY <1>2, <1>3, GrantsKept
  <1> QED BY <1>1, <1>4

(* The invariant holds throughout.                                         *)
LEMMA CallInvKept == KRSpec => []CallInv
  <1>1. KRInit => CallInv
    <2> SUFFICES ASSUME KRInit PROVE CallInv
      OBVIOUS
    <2>1. Len(queue) = 0 /\ Len(grants) = 0
      BY DEF KRInit, Init
    <2>2. QueueInv
      BY <2>1 DEF QueueInv
    <2>3. ConnInv
      BY DEF KRInit, Init, ConnInv, Reply
    <2>4. GrantInv /\ OneGrantPerCall
      BY <2>1 DEF KRInit, GrantInv, OneGrantPerCall, GrantsFor, Reply
    <2> QED BY <2>2, <2>3, <2>4 DEF CallInv
  <1>2. KRTypeOK /\ CallInv /\ [KRNext]_allVars => CallInv'
    BY CallInvInductive
  <1> QED BY <1>1, <1>2, KRTypeCorrect, PTL DEF KRSpec

-----------------------------------------------------------------------------
(* A call of release makes the KRS release at most one key, also across    *)
(* clears of the cache and restarts: its nonce travels on one connection.  *)
THEOREM OneGrant == KRSpec => []OneGrantPerCall
  <1>1. CallInv => OneGrantPerCall
    BY DEF CallInv
  <1> QED BY <1>1, CallInvKept, PTL

(* The KRS's history only grows.                                           *)
LEMMA GrantsStay ==
  ASSUME KRTypeOK, [KRNext]_allVars, NEW i \in 1..Len(grants)
  PROVE  grants'[i] = grants[i]
  <1>1. CASE grants' = grants
    BY <1>1
  <1>2. ASSUME NEW h \in Handlers, grants' = Append(grants, GrantFor(h))
        PROVE  grants'[i] = grants[i]
    BY <1>2, GrantAdded DEF KRTypeOK
  <1>3. grants' = grants
        \/ \E h \in Handlers : grants' = Append(grants, GrantFor(h))
    BY ServerStep, StepEffect
       DEF KRTypeOK, Denied, Started, Checked, Attested, Released, Restart, vars
  <1> QED BY <1>1, <1>2, <1>3

(* A reply that was taken stays: a handler, a restart, a reset or a mix-up *)
(* no longer changes it.                                                   *)
LEMMA TakenStays ==
  ASSUME KRTypeOK, [KRNext]_allVars, NEW c \in Handlers,
         cpc[c] = "done", reply[c].kind = "grant"
  PROVE  reply'[c] = reply[c]
  <1>1. CASE Accept
    BY <1>1 DEF Accept
  <1>2. CASE RestartKrs
    BY <1>2 DEF RestartKrs
  <1>3. ASSUME NEW d \in Handlers,
               HandshakeDone(d) \/ HandshakeError(d) \/ ClientStep(d)
        PROVE  reply' = reply
    BY <1>3 DEF HandshakeDone, HandshakeError, ClientStep, Connect, SendRequest,
                ReadReply, ConnectionLost
  <1>4. ASSUME NEW d \in Handlers, HandlerStep(d) PROVE reply'[c] = reply[c]
    BY <1>4 DEF HandlerStep, ServeRequest, HandlerEof, Serve, KRTypeOK
  <1>5. ASSUME NEW d \in Handlers, Fault(d) PROVE reply'[c] = reply[c]
    BY <1>5 DEF Fault, Timeout, Vanish, Reset, Misdeliver, KRTypeOK
  <1>6. CASE UNCHANGED allVars
    BY <1>6 DEF allVars, netVars
  <1> QED BY <1>1, <1>2, <1>3, <1>4, <1>5, <1>6 DEF KRNext

(* A call that returned a CEK had every pin right and took the reply made  *)
(* for its own request, whichever replies it may have been handed (release,*)
(* "Fail-closed on any check").                                            *)
THEOREM CekOwn == KRSpec => []CekFromOwnGrant
  <1> DEFINE Inv == PinInv /\ CekFromOwnGrant
             Right == [fpr |-> TRUE, ed |-> TRUE, mldsa |-> TRUE]
             Own(c) == /\ reply[c].kind = "grant"
                       /\ GrantMadeFor(c, grants[reply[c].grant])
  <1>1. KRInit => Inv
    BY DEF KRInit, PinInv, CekFromOwnGrant
  <1>2. /\ KRTypeOK /\ KRTypeOK' /\ CallInv /\ Inv /\ [KRNext]_allVars
        => Inv'
    <2> SUFFICES ASSUME KRTypeOK, KRTypeOK', CallInv, Inv, [KRNext]_allVars
                 PROVE  Inv'
      OBVIOUS
    <2>1. ASSUME NEW c \in Handlers, cpc[c] = "done" PROVE Own(c)'
      <3>1. Own(c)
        BY <2>1 DEF CekFromOwnGrant
      <3>2. reply[c].grant \in 1..Len(grants)
        BY <3>1 DEF CallInv, GrantInv
      <3>3. reply'[c] = reply[c]
        BY <2>1, <3>1, TakenStays
      <3>4. grants'[reply[c].grant] = grants[reply[c].grant]
        BY <3>2, GrantsStay
      <3> QED BY <3>1, <3>3, <3>4 DEF GrantMadeFor
    <2>2. pins' = pins
      BY DEF KRNext, Accept, RestartKrs, HandshakeDone, HandshakeError,
             ClientStep, Connect, SendRequest, ReadReply, ConnectionLost,
             HandlerStep, ServeRequest, HandlerEof, Serve, Fault, Timeout,
             Vanish, Reset, Misdeliver, allVars, netVars
    <2>3. ASSUME \A c \in Handlers : cpc'[c] \in {"sent", "done"} => cpc'[c] = cpc[c]
          PROVE  Inv'
      <3>1. PinInv'
        BY <2>2, <2>3 DEF PinInv
      <3>2. CekFromOwnGrant'
        BY <2>1, <2>2, <2>3 DEF CekFromOwnGrant
      <3> QED BY <3>1, <3>2
    <2>4. ASSUME NEW c \in Handlers, SendRequest(c) PROVE Inv'
      <3>1. \A d \in Handlers : cpc'[d] = "done" => cpc[d] = "done"
        BY <2>4 DEF SendRequest, Client, KRTypeOK
      <3>2. \A d \in Handlers :
               cpc'[d] = "sent" => cpc[d] = "sent" \/ pins[d].fpr
        BY <2>4 DEF SendRequest, Client, KRTypeOK
      <3>3. PinInv'
        BY <2>2, <3>1, <3>2 DEF PinInv
      <3>4. CekFromOwnGrant'
        BY <2>1, <2>2, <3>1 DEF CekFromOwnGrant
      <3> QED BY <3>3, <3>4
    <2>5. ASSUME NEW c \in Handlers, ReadReply(c) PROVE Inv'
      <3>1. /\ cpc[c] = "sent"
            /\ cpc'[c] = "done" => ReplyAccepted(c)
            /\ \A d \in Handlers \ {c} : cpc'[d] = cpc[d]
            /\ cpc'[c] # "sent"
        BY <2>5 DEF ReadReply, Client, KRTypeOK
      <3>2. PinInv'
        BY <2>2, <3>1 DEF PinInv
      <3>3. ASSUME ReplyAccepted(c) PROVE pins[c] = Right /\ Own(c)
        <4> DEFINE g == grants[reply[c].grant]
        <4>1. reply[c].kind = "grant" /\ g.nonce = DrawnNonce[c]
          BY <3>3 DEF ReplyAccepted, ReplyOpens
        <4>2. PICK d \in Handlers : GrantMadeFor(d, g)
          BY <4>1 DEF CallInv, GrantInv
        <4>3. d = c
          BY <4>1, <4>2, KeyReleaseAssumption DEF GrantMadeFor
        <4>4. pins[c] \in Pins
          BY DEF KRTypeOK
        <4>5. pins[c].fpr /\ pins[c].ed /\ pins[c].mldsa
          BY <3>1, <3>3 DEF ReplyAccepted, PinInv
        <4>6. pins[c] = Right
          BY <4>4, <4>5 DEF Pins
        <4> QED BY <4>1, <4>2, <4>3, <4>6
      <3>4. UNCHANGED <<reply, grants>>
        BY <2>5 DEF ReadReply, vars
      <3>5. ASSUME NEW d \in Handlers, cpc'[d] = "done"
            PROVE  pins'[d] = Right /\ Own(d)'
        <4>1. CASE d = c
          BY <2>2, <3>1, <3>3, <3>4, <3>5, <4>1 DEF GrantMadeFor
        <4>2. CASE d # c
          BY <2>1, <2>2, <3>1, <3>5, <4>2 DEF CekFromOwnGrant
        <4> QED BY <4>1, <4>2
      <3>6. CekFromOwnGrant'
        BY <3>5 DEF CekFromOwnGrant
      <3> QED BY <3>2, <3>6
    <2>6. ASSUME NEW c \in Handlers, Connect(c) \/ ConnectionLost(c)
                                       \/ HandshakeDone(c) \/ Timeout(c) \/ Vanish(c)
          PROVE  Inv'
      <3>1. \A d \in Handlers : cpc'[d] \in {"sent", "done"} => cpc'[d] = cpc[d]
        BY <2>6 DEF Connect, ConnectionLost, HandshakeDone, Timeout, Vanish,
                    Client, KRTypeOK
      <3> QED BY <2>3, <3>1
    <2>7. CASE UNCHANGED cpc
      BY <2>3, <2>7
    <2>8. CASE Accept \/ RestartKrs \/ UNCHANGED allVars
      BY <2>7, <2>8 DEF Accept, RestartKrs, allVars, netVars
    <2>9. ASSUME NEW c \in Handlers,
                 HandshakeError(c) \/ HandlerStep(c) \/ Reset(c) \/ Misdeliver(c)
          PROVE  Inv'
      BY <2>7, <2>9 DEF HandshakeError, HandlerStep, ServeRequest, HandlerEof,
                        Serve, Reset, Misdeliver
    <2> QED BY <2>4, <2>5, <2>6, <2>8, <2>9 DEF KRNext, ClientStep, Fault
  <1> QED BY <1>1, <1>2, KRTypeCorrect, CallInvKept, PTL DEF KRSpec

(* End to end, in production: a guest holds the CEK only if its own report *)
(* is genuine, of an allowed measurement, and bound to its own keys and to *)
(* the nonce release drew.  A report bound to another nonce, which is what *)
(* bootstrap hands to release, never brings the CEK.                       *)
THEOREM CekEntitled == KRSpec => []CekOnlyIfEntitled
  <1>1. KRTypeOK /\ CallInv /\ GrantedOnlyIfEntitled /\ CekFromOwnGrant
        => CekOnlyIfEntitled
    <2> SUFFICES ASSUME CallInv, GrantedOnlyIfEntitled, CekFromOwnGrant,
                        Production, NEW c \in Handlers, cpc[c] = "done"
                 PROVE  Entitles(ReportOf[c], XKeyOf[c], KemKeyOf[c],
                                 DrawnNonce[c])
      BY DEF CekOnlyIfEntitled
    <2> DEFINE g == grants[reply[c].grant]
    <2>1. reply[c].kind = "grant" /\ GrantMadeFor(c, g)
      BY DEF CekFromOwnGrant
    <2>2. reply[c].grant \in 1..Len(grants)
      BY <2>1 DEF CallInv, GrantInv
    <2>3. Entitles(g.report, g.x, g.kem, g.nonce)
      BY <2>2 DEF GrantedOnlyIfEntitled
    <2> QED BY <2>1, <2>3 DEF GrantMadeFor
  <1> QED BY <1>1, KRTypeCorrect, CallInvKept, CekOwn, ServiceTheoremsHold, PTL
=============================================================================
