------------------------ MODULE IntentVerifierProofs ------------------------
(***************************************************************************)
(* Theorems about IntentVerifier for every set of workers, every content   *)
(* of the transport and every sequence of sessions.                        *)
(***************************************************************************)
EXTENDS IntentVerifier, LedgerLemmas, SequenceTheorems, TLAPS

(* The transport holds some intent, so a cleared local is one.             *)
LEMMA NoIntentType == NoIntent \in Wire
  BY VerifierAssumption DEF NoIntent

(* The state of the verifier keeps its types.                              *)
THEOREM TypeCorrect == Spec => []TypeOK
  <1>1. Init => TypeOK
    BY NoIntentType DEF Init, TypeOK
  <1>2. TypeOK /\ [Next]_vars => TypeOK'
    <2> SUFFICES ASSUME TypeOK, [Next]_vars PROVE TypeOK'
      OBVIOUS
    <2> USE NoIntentType DEF TypeOK
    <2>1. CASE Tick
      BY <2>1, VerifierAssumption DEF Tick
    <2>2. ASSUME NEW w \in Workers, Return(w)
          PROVE  /\ pc' \in [Workers -> {"idle", "replay", "signature"}]
                 /\ intent' \in [Workers -> Wire]
                 /\ now' \in [Workers -> Nat]
                 /\ wsession' \in [Workers -> Nat]
      BY <2>2 DEF Return
    <2>3. ASSUME NEW w \in Workers, Begin(w) PROVE TypeOK'
      <3>1. calls' \in Nat /\ UNCHANGED <<clock, seen, session, placed, refused>>
        BY <2>3 DEF Begin
      <3>2. CASE Return(w)
        BY <2>2, <3>1, <3>2
      <3>3. CASE ~Return(w)
        <4>1. PICK m \in Wire :
                /\ pc' = [pc EXCEPT ![w] = "replay"]
                /\ intent' = [intent EXCEPT ![w] = m]
                /\ now' = [now EXCEPT ![w] = clock]
                /\ UNCHANGED wsession
          BY <2>3, <3>3 DEF Begin
        <4> QED BY <3>1, <4>1
      <3> QED BY <3>2, <3>3
    <2>4. ASSUME NEW w \in Workers, CheckReplay(w) PROVE TypeOK'
      <3>1. intent[w].intent_id \in Ids /\ intent[w] \in Wire
        BY VerifierAssumption DEF OrderIntent
      <3>2. UNCHANGED <<clock, session, placed, calls>>
        BY <2>4 DEF CheckReplay
      <3>3. CASE intent[w].intent_id \notin seen
        BY <2>4, <3>1, <3>2, <3>3 DEF CheckReplay
      <3>4. CASE intent[w].intent_id \in seen
        <4>1. /\ Return(w) /\ UNCHANGED seen
              /\ refused' \subseteq refused \cup {<<intent[w], session>>}
          BY <2>4, <3>4 DEF CheckReplay
        <4>2. refused' \subseteq Wire \X Nat
          BY <3>1, <4>1
        <4> QED BY <2>2, <3>2, <4>1, <4>2
      <3> QED BY <3>3, <3>4
    <2>5. ASSUME NEW w \in Workers, CheckSignature(w) PROVE TypeOK'
      <3>1. PlacementOf(w) \in Placement
        BY DEF PlacementOf, Placement
      <3>2. placed' \in Seq(Placement)
        BY <2>5, <3>1, AppendProperties DEF CheckSignature
      <3> QED BY <2>2, <2>5, <3>2 DEF CheckSignature
    <2>6. CASE ClearSeen
      BY <2>6 DEF ClearSeen
    <2>7. CASE Restart
      BY <2>7 DEF Restart
    <2>8. CASE UNCHANGED vars
      BY <2>8 DEF vars
    <2> QED
      BY <2>1, <2>3, <2>4, <2>5, <2>6, <2>7, <2>8 DEF Next, Step
  <1> QED
    BY <1>1, <1>2, PTL DEF Spec

-----------------------------------------------------------------------------
(* One more order in the history.                                          *)
LEMMA PlacedOneMore ==
  ASSUME TypeOK, NEW w \in Workers, placed' = Append(placed, PlacementOf(w))
  PROVE  /\ Len(placed') = Len(placed) + 1 /\ Len(placed) \in Nat
         /\ placed'[Len(placed) + 1] = PlacementOf(w)
         /\ \A i \in 1..Len(placed) : placed'[i] = placed[i]
  <1>1. PlacementOf(w) \in Placement /\ placed \in Seq(Placement)
    BY DEF PlacementOf, Placement, TypeOK
  <1> QED
    BY <1>1, AppendProperties, LenProperties

(* The sessions of the history are numbers.                                *)
LEMMA PlacedEntries ==
  ASSUME TypeOK
  PROVE  \A i \in 1..Len(placed) :
           /\ placed[i].intent \in Wire
           /\ placed[i].at \in Nat
           /\ placed[i].session \in Nat
  <1>1. \A i \in 1..Len(placed) : placed[i] \in Placement
    BY ElementOfSeq DEF TypeOK
  <1> QED
    BY <1>1 DEF Placement

(* The inductive invariant: a worker past the replay check owns its id for *)
(* the session it checked in, against other workers and past placements.   *)
THEOREM SessionsKept == Spec => []OncePerSession
  <1>1. Init => OncePerSession
    BY DEF Init, OncePerSession, IdOwned, IdSpent, AtMostOncePerSession
  <1>2. TypeOK /\ OncePerSession /\ [Next]_vars => OncePerSession'
    <2> SUFFICES ASSUME TypeOK, OncePerSession, [Next]_vars
                 PROVE  OncePerSession'
      OBVIOUS
    <2> DEFINE Kept == \A v \in Workers : pc'[v] = "signature" =>
                         /\ pc[v] = "signature"
                         /\ intent'[v] = intent[v]
                         /\ wsession'[v] = wsession[v]
    <2>0. ASSUME Kept, UNCHANGED <<seen, session, placed>>
          PROVE  OncePerSession'
      BY <2>0 DEF OncePerSession, IdOwned, IdSpent, AtMostOncePerSession
    <2>1. ASSUME NEW w \in Workers, Begin(w) PROVE OncePerSession'
      <3>1. Kept
        BY <2>1 DEF Begin, Return, TypeOK
      <3> QED BY <2>0, <2>1, <3>1 DEF Begin
    <2>2. ASSUME NEW w \in Workers, CheckReplay(w) PROVE OncePerSession'
      <3> DEFINE id == intent[w].intent_id
      <3>1. CASE id \in seen
        <4>1. Return(w) /\ UNCHANGED <<seen, session, placed>>
          BY <2>2, <3>1 DEF CheckReplay
        <4>2. Kept
          BY <4>1 DEF Return, TypeOK
        <4> QED BY <2>0, <4>1, <4>2
      <3>2. CASE id \notin seen
        <4>1. /\ seen' = seen \cup {id}
              /\ UNCHANGED <<intent, session, placed>>
          BY <2>2, <3>2 DEF CheckReplay
        <4>2. /\ \A v \in Workers \ {w} :
                   pc'[v] = pc[v] /\ wsession'[v] = wsession[v]
              /\ wsession'[w] = session /\ session \in Nat
          BY <2>2, <3>2 DEF CheckReplay, TypeOK
        <4>3. IdOwned'
          BY <3>2, <4>1, <4>2 DEF OncePerSession, IdOwned
        <4>4. IdSpent'
          BY <3>2, <4>1, <4>2 DEF OncePerSession, IdSpent
        <4> QED
          BY <4>1, <4>3, <4>4 DEF OncePerSession, AtMostOncePerSession
      <3> QED BY <3>1, <3>2
    <2>3. ASSUME NEW w \in Workers, CheckSignature(w) PROVE OncePerSession'
      <3>1. pc[w] = "signature" /\ Return(w) /\ UNCHANGED <<seen, session>>
        BY <2>3 DEF CheckSignature
      <3>2. Kept /\ pc'[w] # "signature"
        BY <3>1 DEF Return, TypeOK
      <3>3. CASE placed' = placed
        BY <2>0, <3>1, <3>2, <3>3
      <3>4. CASE placed' = Append(placed, PlacementOf(w))
        <4> DEFINE n == Len(placed)
                   g == PlacementOf(w)
        <4>1. /\ Len(placed') = n + 1 /\ n \in Nat
              /\ placed'[n + 1] = g
              /\ \A i \in 1..n : placed'[i] = placed[i]
          BY <3>4, PlacedOneMore
        <4>2. g.intent = intent[w] /\ g.session = wsession[w]
          BY DEF PlacementOf
        <4>3. IdOwned'
          BY <3>1, <3>2 DEF OncePerSession, IdOwned
        <4>4. \A i \in 1..(n + 1) :
                /\ placed'[i].session <= session
                /\ placed'[i].session = session =>
                     placed'[i].intent.intent_id \in seen
          BY <3>1, <4>1, <4>2 DEF OncePerSession, IdOwned, IdSpent
        <4>5. \A i \in 1..(n + 1) : \A v \in Workers \ {w} :
                (/\ pc[v] = "signature"
                 /\ placed'[i].intent.intent_id = intent[v].intent_id)
                    => placed'[i].session # wsession[v]
          BY <3>1, <4>1, <4>2 DEF OncePerSession, IdOwned, IdSpent
        <4>6. IdSpent'
          BY <3>1, <3>2, <4>1, <4>4, <4>5 DEF IdSpent
        <4>7. AtMostOncePerSession'
          <5>1. \A i \in 1..n :
                  placed[i].intent.intent_id = g.intent.intent_id
                      => placed[i].session # g.session
            BY <3>1, <4>2 DEF OncePerSession, IdSpent
          <5> QED
            BY <4>1, <5>1 DEF OncePerSession, AtMostOncePerSession
        <4> QED BY <4>3, <4>6, <4>7 DEF OncePerSession
      <3> QED BY <2>3, <3>3, <3>4 DEF CheckSignature
    <2>4. CASE ClearSeen \/ Restart
      <3>1. /\ Kept
            /\ session \in Nat /\ session' = session + 1 /\ placed' = placed
        BY <2>4 DEF ClearSeen, Restart, TypeOK
      <3>2. \A v \in Workers : pc[v] = "signature" =>
              wsession[v] \in Nat /\ wsession[v] <= session
        BY DEF TypeOK, OncePerSession, IdOwned
      <3>3. \A i \in 1..Len(placed) :
              placed[i].session \in Nat /\ placed[i].session <= session
        BY PlacedEntries DEF OncePerSession, IdSpent
      <3>4. IdOwned'
        BY <3>1, <3>2 DEF OncePerSession, IdOwned
      <3>5. IdSpent'
        BY <3>1, <3>3 DEF OncePerSession, IdSpent
      <3> QED
        BY <3>1, <3>4, <3>5 DEF OncePerSession, AtMostOncePerSession
    <2>5. CASE Tick \/ UNCHANGED vars
      BY <2>0, <2>5 DEF Tick, vars
    <2> QED
      BY <2>1, <2>2, <2>3, <2>4, <2>5 DEF Next, Step
  <1> QED
    BY <1>1, <1>2, TypeCorrect, PTL DEF Spec

(* An intent_id is placed at most once per session (verify, clear_seen).   *)
THEOREM PlacedOnce == Spec => []AtMostOncePerSession
  <1>1. OncePerSession => AtMostOncePerSession
    BY DEF OncePerSession
  <1> QED
    BY <1>1, SessionsKept, PTL

-----------------------------------------------------------------------------
(* verify_intent accepts only the unaltered intent of an issued order.     *)
LEMMA SignatureAuthentic ==
  ASSUME NEW m \in Wire, VerifyIntent(m)
  PROVE  \E o \in Issued : m = SignIntent(o) /\ m.timestamp = o.timestamp
  <1>1. m \in OrderIntent
    BY VerifierAssumption
  <1>2. m.signature = <<m.intent_id, m.body, m.timestamp, m.public_key_hash>>
    BY DEF VerifyIntent, Serialize
  <1>3. m.signature \in Signed
    BY <1>1, <1>2 DEF OrderIntent, Signed
  <1>4. PICK o \in Issued : m.signature = SignIntent(o).signature
    BY <1>3, VerifierAssumption
  <1>5. SignIntent(o).signature
          = <<o.intent_id, o.body, o.timestamp, OurKeyHash>>
    BY DEF SignIntent, Serialize
  <1>6. /\ m.intent_id = o.intent_id /\ m.body = o.body
        /\ m.timestamp = o.timestamp /\ m.public_key_hash = OurKeyHash
    BY <1>2, <1>4, <1>5
  <1>7. m = [intent_id |-> m.intent_id, body |-> m.body,
             timestamp |-> m.timestamp, public_key_hash |-> m.public_key_hash,
             signature |-> m.signature]
    BY <1>1 DEF OrderIntent
  <1>8. m = SignIntent(o)
    BY <1>2, <1>6, <1>7 DEF SignIntent, Serialize
  <1> QED
    BY <1>6, <1>8

(* Every order placed was issued, is unaltered and was timely (verify).    *)
THEOREM PlacedAuthentic == Spec => []OnlyIssuedAndTimely
  <1> DEFINE IInv == CallsTimely /\ OnlyIssuedAndTimely
  <1>1. Init => IInv
    BY DEF Init, CallsTimely, OnlyIssuedAndTimely
  <1>2. TypeOK /\ IInv /\ [Next]_vars => IInv'
    <2> SUFFICES ASSUME TypeOK, IInv, [Next]_vars PROVE IInv'
      OBVIOUS
    <2>0. ASSUME \A v \in Workers : pc'[v] # "idle" =>
                   pc[v] # "idle" /\ intent'[v] = intent[v] /\ now'[v] = now[v]
          PROVE  CallsTimely'
      BY <2>0 DEF CallsTimely
    <2>1. ASSUME NEW w \in Workers, Begin(w) PROVE IInv'
      <3>1. OnlyIssuedAndTimely'
        BY <2>1 DEF Begin, OnlyIssuedAndTimely
      <3>2. CASE Return(w)
        BY <2>0, <3>1, <3>2 DEF Return, TypeOK
      <3>3. CASE ~Return(w)
        <4>1. PICK m \in Wire :
                /\ Timely(m, clock)
                /\ m.public_key_hash = OurKeyHash
                /\ pc' = [pc EXCEPT ![w] = "replay"]
                /\ intent' = [intent EXCEPT ![w] = m]
                /\ now' = [now EXCEPT ![w] = clock]
          BY <2>1, <3>3 DEF Begin
        <4>2. intent'[w] = m /\ now'[w] = clock
          BY <4>1 DEF TypeOK
        <4>3. \A v \in Workers \ {w} :
                pc'[v] = pc[v] /\ intent'[v] = intent[v] /\ now'[v] = now[v]
          BY <4>1 DEF TypeOK
        <4> QED BY <3>1, <4>1, <4>2, <4>3 DEF CallsTimely
      <3> QED BY <3>2, <3>3
    <2>2. ASSUME NEW w \in Workers, CheckReplay(w) PROVE IInv'
      <3>1. CallsTimely'
        BY <2>0, <2>2 DEF CheckReplay, Return, TypeOK
      <3> QED BY <2>2, <3>1 DEF CheckReplay, OnlyIssuedAndTimely
    <2>3. ASSUME NEW w \in Workers, CheckSignature(w) PROVE IInv'
      <3>1. CallsTimely'
        BY <2>0, <2>3 DEF CheckSignature, Return, TypeOK
      <3>2. CASE ~VerifyIntent(intent[w])
        BY <2>3, <3>1, <3>2 DEF CheckSignature, OnlyIssuedAndTimely
      <3>3. CASE VerifyIntent(intent[w])
        <4> DEFINE n == Len(placed)
        <4>1. placed' = Append(placed, PlacementOf(w)) /\ pc[w] = "signature"
          BY <2>3, <3>3 DEF CheckSignature
        <4>2. /\ Len(placed') = n + 1 /\ n \in Nat
              /\ placed'[n + 1] = PlacementOf(w)
              /\ \A i \in 1..n : placed'[i] = placed[i]
          BY <4>1, PlacedOneMore
        <4>3. Timely(intent[w], now[w])
          BY <4>1 DEF CallsTimely
        <4>4. PICK o \in Issued :
                intent[w] = SignIntent(o) /\ intent[w].timestamp = o.timestamp
          BY <3>3, SignatureAuthentic DEF TypeOK
        <4>5. /\ PlacementOf(w).intent = SignIntent(o)
              /\ PlacementOf(w).at - o.timestamp <= MaxAge
              /\ PlacementOf(w).at - o.timestamp >= -Skew
          BY <4>3, <4>4 DEF PlacementOf, Timely
        <4>6. \A i \in 1..Len(placed') : i \in 1..n \/ i = n + 1
          BY <4>2
        <4>7. OnlyIssuedAndTimely'
          BY <4>2, <4>5, <4>6 DEF OnlyIssuedAndTimely
        <4> QED BY <3>1, <4>7
      <3> QED BY <3>2, <3>3
    <2>4. CASE ClearSeen \/ Restart
      <3>1. CallsTimely'
        BY <2>0, <2>4 DEF ClearSeen, Restart
      <3> QED BY <2>4, <3>1 DEF ClearSeen, Restart, OnlyIssuedAndTimely
    <2>5. CASE Tick \/ UNCHANGED vars
      BY <2>0, <2>5 DEF Tick, vars, OnlyIssuedAndTimely
    <2> QED
      BY <2>1, <2>2, <2>3, <2>4, <2>5 DEF Next, Step
  <1> QED
    BY <1>1, <1>2, TypeCorrect, PTL DEF Spec

(* Across clear_seen and restarts, two placements of one order are at most *)
(* MaxAge + Skew apart: the expiry check bounds what the seen set forgets. *)
THEOREM ReplayWindow == Spec => []ReplayWindowBounded
  <1>1. TypeOK /\ OnlyIssuedAndTimely => ReplayWindowBounded
    <2> SUFFICES ASSUME TypeOK, OnlyIssuedAndTimely,
                        NEW i \in 1..Len(placed), NEW j \in 1..Len(placed),
                        placed[i].intent.intent_id = placed[j].intent.intent_id
                 PROVE  placed[i].at - placed[j].at <= MaxAge + Skew
      BY DEF ReplayWindowBounded
    <2>1. PICK o \in Issued : /\ placed[i].intent = SignIntent(o)
                              /\ placed[i].at - o.timestamp <= MaxAge
      BY DEF OnlyIssuedAndTimely
    <2>2. PICK p \in Issued : /\ placed[j].intent = SignIntent(p)
                              /\ placed[j].at - p.timestamp >= -Skew
      BY DEF OnlyIssuedAndTimely
    <2>3. o = p
      BY <2>1, <2>2, VerifierAssumption DEF SignIntent
    <2>4. o.timestamp \in Nat
      BY VerifierAssumption DEF Order
    <2>5. placed[i].at \in Nat /\ placed[j].at \in Nat
      BY PlacedEntries
    <2> QED
      BY <2>1, <2>2, <2>3, <2>4, <2>5, VerifierAssumption
  <1> QED
    BY <1>1, TypeCorrect, PlacedAuthentic, PTL

-----------------------------------------------------------------------------
(* An intent signed for an issued order carries that order.                *)
LEMMA OrderOfSigned ==
  ASSUME NEW o \in Issued
  PROVE  OrderOf(SignIntent(o)) = o
  <1>1. o \in Order
    BY VerifierAssumption
  <1>2. o = [intent_id |-> o.intent_id, body |-> o.body,
             timestamp |-> o.timestamp]
    BY <1>1 DEF Order
  <1> QED
    BY <1>2 DEF OrderOf, SignIntent

(* The verifier implements the ledger of issued orders, one spending per   *)
(* order and session: what executor code may rely on of verify.            *)
THEOREM Refinement == Spec => ImplementsLedger
  <1> DEFINE Entry(i) == <<OrderOf(placed[i].intent), placed[i].session>>
             L == [i \in 1..Len(placed) |-> Entry(i)]
             IInv == /\ TypeOK /\ TypeOK' /\ OncePerSession'
                     /\ OnlyIssuedAndTimely'
  <1>1. Init => Ledger!Init
    <2> SUFFICES ASSUME Init PROVE Ledger!Init
      OBVIOUS
    <2>1. placed = << >> /\ Len(placed) = 0 /\ session = 0
      BY DEF Init
    <2>2. L = [i \in 1..0 |-> L[i]]
      BY <2>1
    <2>3. L = << >>
      BY <2>2, EmptyImage
    <2> QED BY <2>1, <2>3 DEF Ledger!Init
  <1>2. IInv /\ [Next]_vars => [Ledger!Next]_(Ledger!vars)
    <2> SUFFICES ASSUME IInv, [Next]_vars PROVE [Ledger!Next]_(Ledger!vars)
      OBVIOUS
    <2>1. CASE UNCHANGED <<placed, session>>
      BY <2>1 DEF Ledger!vars
    <2>2. CASE ClearSeen \/ Restart
      <3>1. session' = session + 1 /\ placed' = placed
        BY <2>2 DEF ClearSeen, Restart
      <3> QED BY <3>1 DEF Ledger!Next, Ledger!NewEpoch
    <2>3. ASSUME NEW w \in Workers, CheckSignature(w), placed' # placed
          PROVE  Ledger!Next
      <3> DEFINE n == Len(placed)
      <3>1. placed' = Append(placed, PlacementOf(w)) /\ session' = session
        BY <2>3 DEF CheckSignature
      <3>2. /\ Len(placed') = n + 1 /\ n \in Nat
            /\ \A i \in 1..n : placed'[i] = placed[i]
        BY <3>1, PlacedOneMore
      <3>3. PICK o \in Issued : placed'[n + 1].intent = SignIntent(o)
        BY <3>2 DEF OnlyIssuedAndTimely
      <3> DEFINE e == placed'[n + 1].session
      <3>4. L'[n + 1] = <<o, e>>
        BY <3>2, <3>3, OrderOfSigned
      <3>5. L' = Append(L, <<o, e>>)
        <4> DEFINE S == {L'[i] : i \in 1..(n + 1)}
        <4>1. L' \in [1..(n + 1) -> S] /\ \A i \in 1..n : L'[i] = L[i]
          BY <3>2
        <4>2. L \in [1..n -> S]
          <5>1. \A i \in 1..n : L[i] \in S
            BY <3>2, <4>1
          <5> QED BY <5>1
        <4> HIDE DEF L, S
        <4> QED BY <3>2, <3>4, <4>1, <4>2, GrownImage
      <3>6. \A i \in 1..n : L[i] # <<o, e>>
        <4>1. SUFFICES ASSUME NEW i \in 1..n, L[i] = <<o, e>> PROVE FALSE
          OBVIOUS
        <4>2. OrderOf(placed[i].intent) = o /\ placed[i].session = e
          BY <4>1
        <4>3. placed[i].intent.intent_id = o.intent_id
          BY <4>2 DEF OrderOf
        <4>4. placed'[n + 1].intent.intent_id = o.intent_id
          BY <3>3 DEF SignIntent
        <4> QED
          BY <3>2, <4>2, <4>3, <4>4 DEF OncePerSession, AtMostOncePerSession
      <3>7. e \in 0..session
        <4>1. placed'[n + 1].session \in Nat /\ session' \in Nat
          BY <3>2, <3>1 DEF TypeOK, PlacementOf, Placement
        <4>2. placed'[n + 1].session <= session'
          BY <3>2 DEF OncePerSession, IdSpent
        <4> QED BY <3>1, <4>1, <4>2
      <3>8. Len(L) = n
        <4> DEFINE S == {L[i] : i \in 1..n}
        <4>1. L \in [1..n -> S]
          OBVIOUS
        <4> HIDE DEF L, S
        <4> QED BY <3>2, <4>1, FunctionIsSequence
      <3> QED
        BY <3>1, <3>5, <3>6, <3>7, <3>8
           DEF Ledger!Next, Ledger!Spend, Ledger!SpentIn
    <2> QED
      BY <2>1, <2>2, <2>3
         DEF Next, Step, Tick, Begin, CheckReplay, CheckSignature, vars
  <1> QED
    BY <1>1, <1>2, TypeCorrect, SessionsKept, PlacedAuthentic, PTL
       DEF Spec, ImplementsLedger, Ledger!Spec
=============================================================================
