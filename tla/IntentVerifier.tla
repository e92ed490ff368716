--------------------------- MODULE IntentVerifier ---------------------------
(***************************************************************************)
(* The executor side of src/src/signed_order_intent.py: IntentVerifier,    *)
(* called by worker threads on whatever the transport delivers.            *)
(*                                                                         *)
(* verify runs in three steps: expiry and key hash on a clock read at      *)
(* entry, the replay check under the lock, then the signature.  A caller   *)
(* that gets (True, "ok") places the order.  clear_seen starts a new       *)
(* session at any time; a restart of the executor loses the seen set and   *)
(* every call in progress.  The transport may lose, duplicate, reorder and *)
(* damage intents: any member of Wire may arrive at any time, any number   *)
(* of times.                                                               *)
(***************************************************************************)
EXTENDS Integers, Sequences

CONSTANTS
    Workers,      \* threads that call verify
    Ids,          \* intent_id values
    Bodies,       \* symbol, side, size, stop and target together
    KeyHashes,    \* public_key_hash values
    OurKeyHash,   \* IntentVerifier._pubkey_hash
    NoSignature,  \* a signature that is not one of our key
    Issued,       \* the orders the strategy signed
    Wire,         \* the intents that may be delivered
    MaxAge,       \* max_age_seconds
    Skew,         \* the 60 s a timestamp may lie in the future
    MaxTime,      \* bound: the last time the clock shows
    MaxCalls,     \* bound: calls of verify
    MaxSessions   \* bound: clear_seen calls and restarts

Order == [intent_id : Ids, body : Bodies, timestamp : Nat]

(* _serialize_for_signing: what a signature covers.                        *)
Signed == Ids \X Bodies \X Nat \X KeyHashes

OrderIntent == [intent_id : Ids, body : Bodies, timestamp : Nat,
                public_key_hash : KeyHashes,
                signature : Signed \cup {NoSignature}]

(* Mutated: the signature does not cover the timestamp.                    *)
SerializeNoTimestamp(m) == <<m.intent_id, m.body, 0, m.public_key_hash>>

(* _serialize_for_signing of an intent.                                    *)
Serialize(m) == <<m.intent_id, m.body, m.timestamp, m.public_key_hash>>

(* sign_intent: the intent the strategy sends for an order.                *)
SignIntent(o) ==
    [intent_id |-> o.intent_id, body |-> o.body, timestamp |-> o.timestamp,
     public_key_hash |-> OurKeyHash,
     signature |-> Serialize([intent_id |-> o.intent_id, body |-> o.body,
                              timestamp |-> o.timestamp,
                              public_key_hash |-> OurKeyHash])]

(* Ids are 128-bit random, so issued orders have their own; a signature of *)
(* our key exists only over an issued order (Ed25519).                     *)
ASSUME VerifierAssumption ==
    /\ OurKeyHash \in KeyHashes
    /\ Issued \subseteq Order
    /\ \A o, p \in Issued : o.intent_id = p.intent_id => o = p
    /\ Wire \subseteq OrderIntent /\ Wire # {}
    /\ NoSignature \notin Signed
    /\ \A m \in Wire : m.signature # NoSignature =>
           \E o \in Issued : m.signature = SignIntent(o).signature
    /\ MaxAge \in Nat /\ Skew \in Nat
    /\ MaxTime \in Nat /\ MaxCalls \in Nat /\ MaxSessions \in Nat

VARIABLES
    clock,    \* time.time()
    seen,     \* _seen
    pc,       \* where each worker is in verify
    intent,   \* its argument
    now,      \* its local now
    session,  \* history: clear_seen calls and restarts so far
    wsession, \* history: the session of the worker's replay check
    placed,   \* history: orders placed, in order
    refused,  \* history: genuine intents refused as replayed, with session
    calls     \* bound counter

vars == <<clock, seen, pc, intent, now, session, wsession, placed, refused,
          calls>>

Placement == [intent : Wire, at : Nat, session : Nat]

NoIntent == CHOOSE m \in Wire : TRUE

Init ==
    /\ clock = 0
    /\ seen = {}
    /\ pc = [w \in Workers |-> "idle"]
    /\ intent = [w \in Workers |-> NoIntent]
    /\ now = [w \in Workers |-> 0]
    /\ session = 0
    /\ wsession = [w \in Workers |-> 0]
    /\ placed = << >>
    /\ refused = {}
    /\ calls = 0

(* time.time() between two reads: it goes on, or is set to another time,   *)
(* also an earlier one.                                                    *)
Tick ==
    /\ clock' \in (0..MaxTime) \ {clock}
    /\ UNCHANGED <<seen, pc, intent, now, session, wsession, placed, refused,
                   calls>>

(* verify returns: the worker's locals are gone.                           *)
Return(w) ==
    /\ pc' = [pc EXCEPT ![w] = "idle"]
    /\ intent' = [intent EXCEPT ![w] = NoIntent]
    /\ now' = [now EXCEPT ![w] = 0]
    /\ wsession' = [wsession EXCEPT ![w] = 0]

(* Mutated: old intents are let through.                                   *)
TimelyNoExpiry(m, t) == t - m.timestamp >= -Skew

(* Check 1 of verify: not expired, at most Skew in the future.             *)
Timely(m, t) == t - m.timestamp <= MaxAge /\ t - m.timestamp >= -Skew

(* Mutated: the local now holds the intent's age.                          *)
BeginKeepsAge(w) ==
    /\ pc[w] = "idle"
    /\ calls < MaxCalls
    /\ \E m \in Wire :
         /\ Timely(m, clock)
         /\ m.public_key_hash = OurKeyHash
         /\ pc' = [pc EXCEPT ![w] = "replay"]
         /\ intent' = [intent EXCEPT ![w] = m]
         /\ now' = [now EXCEPT ![w] = clock - m.timestamp]
    /\ calls' = calls + 1
    /\ UNCHANGED <<clock, seen, session, wsession, placed, refused>>

(* An intent is delivered and verify is called: the clock is read, checks  *)
(* 1 (expiry) and 2 (public_key_hash) reject at once.                      *)
Begin(w) ==
    /\ pc[w] = "idle"
    /\ calls < MaxCalls
    /\ \E m \in Wire :
         \/ /\ Timely(m, clock)
            /\ m.public_key_hash = OurKeyHash
            /\ pc' = [pc EXCEPT ![w] = "replay"]
            /\ intent' = [intent EXCEPT ![w] = m]
            /\ now' = [now EXCEPT ![w] = clock]
            /\ UNCHANGED wsession
         \/ /\ ~Timely(m, clock) \/ m.public_key_hash # OurKeyHash
            /\ Return(w)
    /\ calls' = calls + 1
    /\ UNCHANGED <<clock, seen, session, placed, refused>>

(* Mutated: any signature will do.                                         *)
VerifyIntentAnySigned(m) == m.signature # NoSignature

(* Check 4: the signature is our key's, over these very fields.            *)
VerifyIntent(m) == m.signature = Serialize(m)

(* Mutated: the id is looked up but not remembered here.                   *)
CheckReplayNoAdd(w) ==
    /\ pc[w] = "replay"
    /\ intent[w].intent_id \notin seen
    /\ pc' = [pc EXCEPT ![w] = "signature"]
    /\ wsession' = [wsession EXCEPT ![w] = session]
    /\ UNCHANGED <<clock, seen, intent, now, session, placed, refused, calls>>

(* Check 3, under the lock: the id is looked up and remembered, before the *)
(* signature is known to be good.                                          *)
CheckReplay(w) ==
    /\ pc[w] = "replay"
    /\ LET id == intent[w].intent_id IN
       \/ /\ id \notin seen
          /\ seen' = seen \cup {id}
          /\ pc' = [pc EXCEPT ![w] = "signature"]
          /\ wsession' = [wsession EXCEPT ![w] = session]
          /\ UNCHANGED <<intent, now, refused>>
       \/ /\ id \in seen
          /\ refused' = IF VerifyIntent(intent[w])
                        THEN refused \cup {<<intent[w], session>>}
                        ELSE refused
          /\ Return(w)
          /\ UNCHANGED seen
    /\ UNCHANGED <<clock, session, placed, calls>>

(* The order the caller places, with the call's clock and session.         *)
PlacementOf(w) ==
    [intent |-> intent[w], at |-> now[w], session |-> wsession[w]]

(* Check 4 and the caller's order: (True, "ok") places it.                 *)
CheckSignature(w) ==
    /\ pc[w] = "signature"
    /\ placed' = IF VerifyIntent(intent[w])
                 THEN Append(placed, PlacementOf(w))
                 ELSE placed
    /\ Return(w)
    /\ UNCHANGED <<clock, seen, session, refused, calls>>

(* clear_seen, under the lock; calls in progress go on.                    *)
ClearSeen ==
    /\ session < MaxSessions
    /\ seen' = {}
    /\ session' = session + 1
    /\ UNCHANGED <<clock, pc, intent, now, wsession, placed, refused, calls>>

(* The executor is restarted: the seen set and all calls are gone.         *)
Restart ==
    /\ session < MaxSessions
    /\ seen' = {}
    /\ session' = session + 1
    /\ pc' = [w \in Workers |-> "idle"]
    /\ intent' = [w \in Workers |-> NoIntent]
    /\ now' = [w \in Workers |-> 0]
    /\ wsession' = [w \in Workers |-> 0]
    /\ UNCHANGED <<clock, placed, refused, calls>>

Step(w) == CheckReplay(w) \/ CheckSignature(w)

Next ==
    \/ Tick \/ ClearSeen \/ Restart
    \/ \E w \in Workers : Begin(w) \/ Step(w)

Spec == Init /\ [][Next]_vars

-----------------------------------------------------------------------------
(* Type invariant of the verifier and the workers' locals.                 *)
TypeOK ==
    /\ clock \in Nat
    /\ seen \subseteq Ids
    /\ pc \in [Workers -> {"idle", "replay", "signature"}]
    /\ intent \in [Workers -> Wire]
    /\ now \in [Workers -> Nat]
    /\ session \in Nat
    /\ wsession \in [Workers -> Nat]
    /\ placed \in Seq(Placement)
    /\ refused \subseteq Wire \X Nat
    /\ calls \in Nat

(* Two orders placed for one intent_id passed the replay check in          *)
(* different sessions, whatever workers, duplicates, clear_seen and        *)
(* restarts do at once (verify, "seen within this session").               *)
AtMostOncePerSession ==
    \A i, j \in 1..Len(placed) :
        (i # j /\ placed[i].intent.intent_id = placed[j].intent.intent_id)
            => placed[i].session # placed[j].session

(* Every order placed is one the strategy issued, unaltered in every field *)
(* (the signature covers them all), and was timely by its issued timestamp *)
(* when verify was called.                                                 *)
OnlyIssuedAndTimely ==
    \A i \in 1..Len(placed) :
        \E o \in Issued :
            /\ placed[i].intent = SignIntent(o)
            /\ placed[i].at - o.timestamp <= MaxAge
            /\ placed[i].at - o.timestamp >= -Skew

(* What the expiry check still guarantees once clear_seen or a restart has *)
(* forgotten an id: a repeated placement of one order comes within         *)
(* MaxAge + Skew of the other, by the clock as each call read it,          *)
(* whichever came first and however the clock was set in between.          *)
ReplayWindowBounded ==
    \A i, j \in 1..Len(placed) :
        placed[i].intent.intent_id = placed[j].intent.intent_id
            => placed[i].at - placed[j].at <= MaxAge + Skew

(* The verifier as a ledger of issued orders; an epoch is a session.       *)
OrderOf(m) ==
    [intent_id |-> m.intent_id, body |-> m.body, timestamp |-> m.timestamp]

Ledger == INSTANCE OnceLedger WITH
    Items <- Issued,
    epoch <- session,
    log   <- [i \in 1..Len(placed) |->
                <<OrderOf(placed[i].intent), placed[i].session>>]

(* The detailed verifier (workers, damaged and repeated intents, restarts) *)
(* implements that ledger: every accepted intent spends one issued order,  *)
(* one not yet spent in the session of its replay check.                   *)
ImplementsLedger == Ledger!Spec

(* SIDE_CHANNEL_HARDENING.md section 5 verifies the signature (a) before   *)
(* the seen check (c): a genuine intent is refused as replayed only if its *)
(* order was placed, or is being placed, in that session.                  *)
ReplayMeansPlaced ==
    \A r \in refused :
        \/ \E i \in 1..Len(placed) :
              placed[i].intent = r[1] /\ placed[i].session = r[2]
        \/ \E w \in Workers :
              pc[w] = "signature" /\ intent[w] = r[1] /\ wsession[w] = r[2]

-----------------------------------------------------------------------------
(* The inductive strengthening of AtMostOncePerSession: a worker past the  *)
(* replay check owns its id for the session it checked in.                 *)
IdOwned ==
    /\ \A w \in Workers : pc[w] = "signature" =>
           /\ wsession[w] <= session
           /\ wsession[w] = session => intent[w].intent_id \in seen
    /\ \A w, v \in Workers :
           (/\ w # v /\ pc[w] = "signature" /\ pc[v] = "signature"
            /\ intent[w].intent_id = intent[v].intent_id)
               => wsession[w] # wsession[v]

IdSpent ==
    /\ \A i \in 1..Len(placed) :
           /\ placed[i].session <= session
           /\ placed[i].session = session => placed[i].intent.intent_id \in seen
    /\ \A i \in 1..Len(placed) : \A w \in Workers :
           (pc[w] = "signature" /\ placed[i].intent.intent_id = intent[w].intent_id)
               => placed[i].session # wsession[w]

OncePerSession == IdOwned /\ IdSpent /\ AtMostOncePerSession

(* ... and of OnlyIssuedAndTimely: a call past check 1 was timely.         *)
CallsTimely ==
    \A w \in Workers : pc[w] # "idle" =>
        Timely(intent[w], now[w]) /\ intent[w].public_key_hash = OurKeyHash
=============================================================================
