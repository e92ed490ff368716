--------------------------- MODULE IntentBuilder ---------------------------
(***************************************************************************)
(* The strategy side of src/src/signed_order_intent.py: IntentBuilder and  *)
(* its ProtectedSigningKey, shared by threads.                             *)
(*                                                                         *)
(* Producers build an intent (banding, timestamp, random id), sign it      *)
(* under the key's lock and enqueue it, as the class's usage shows.        *)
(* Emitters call emit_batch, which reads the clock and the last emission   *)
(* without the lock and takes the queue with it.  Another thread may       *)
(* zeroize the key at any time.  Time is the wall clock (time.time()), in  *)
(* whole units, and may be stepped back.                                   *)
(***************************************************************************)
EXTENDS Integers, Sequences

CONSTANTS
    Producers,      \* threads that build and enqueue
    Emitters,       \* threads that call emit_batch
    NoThread,       \* nobody holds the key's lock
    Window,         \* emit_window_seconds
    Start,          \* the clock when the builder is constructed
    MaxTime,        \* bound: the clock
    MaxStepsBack,   \* bound: times the clock is stepped back
    MaxIntents      \* bound: intents built

ASSUME BuilderAssumption ==
    /\ NoThread \notin Producers
    /\ Window \in Nat
    /\ Start \in Nat
    /\ MaxTime \in Nat /\ Start <= MaxTime
    /\ MaxStepsBack \in Nat
    /\ MaxIntents \in Nat

(* What the queue tells apart of an OrderIntent: its id (secrets.token_hex,*)
(* taken as never repeating) and whether it carries a signature.           *)
Intent == [intent_id : Nat, signed : BOOLEAN]

Batch == [at : Nat, forced : BOOLEAN, size : Nat]

VARIABLES
    clock,      \* time.time()
    stepsBack,  \* bound counter
    key,        \* ProtectedSigningKey: "live" or "zeroized"
    keyLock,    \* its _lock
    ppc,        \* where each producer is
    draft,      \* the intent it works on
    built,      \* intents built so far
    pending,    \* _pending
    last_emit,  \* _last_emit
    epc,        \* where each emitter is in emit_batch
    now,        \* its local now
    force,      \* its argument
    enqueued,   \* history: every intent enqueued, in order
    emitted,    \* history: every intent returned by emit_batch, in order
    batches,    \* history: every non-empty batch
    crowded     \* history: emit_batch was called during another call of it

clockVars == <<clock, stepsBack>>
keyVars   == <<key, keyLock>>
prodVars  == <<ppc, draft, built>>
queueVars == <<pending, last_emit, enqueued, emitted, batches>>
emitVars  == <<epc, now, force, crowded>>
vars      == <<clockVars, keyVars, prodVars, queueVars, emitVars>>

NoIntent == [intent_id |-> 0, signed |-> FALSE]

Init ==
    /\ clock = Start /\ stepsBack = 0
    /\ key = "live" /\ keyLock = NoThread
    /\ ppc = [p \in Producers |-> "idle"]
    /\ draft = [p \in Producers |-> NoIntent]
    /\ built = 0
    /\ pending = << >> /\ last_emit = 0
    /\ epc = [e \in Emitters |-> "idle"]
    /\ now = [e \in Emitters |-> 0]
    /\ force = [e \in Emitters |-> FALSE]
    /\ enqueued = << >> /\ emitted = << >> /\ batches = << >>
    /\ crowded = FALSE

-----------------------------------------------------------------------------
(* The wall clock runs, and may be set back (NTP, an operator).            *)
Tick ==
    /\ clock < MaxTime
    /\ clock' = clock + 1
    /\ UNCHANGED <<stepsBack, keyVars, prodVars, queueVars, emitVars>>

StepBack ==
    /\ stepsBack < MaxStepsBack
    /\ \E t \in 0..(clock - 1) : clock' = t
    /\ stepsBack' = stepsBack + 1
    /\ UNCHANGED <<keyVars, prodVars, queueVars, emitVars>>

-----------------------------------------------------------------------------
(* IntentBuilder.build up to the signature: an intent with a fresh id (its *)
(* banded size, prices and timestamp do not matter to the queue).          *)
Build(p) ==
    /\ ppc[p] = "idle"
    /\ built < MaxIntents
    /\ built' = built + 1
    /\ draft' = [draft EXCEPT ![p] = [intent_id |-> built', signed |-> FALSE]]
    /\ ppc' = [ppc EXCEPT ![p] = "built"]
    /\ UNCHANGED <<clockVars, keyVars, queueVars, emitVars>>

(* ProtectedSigningKey.sign: the lock is taken and the key is looked at; a *)
(* zeroized key raises RuntimeError, which leaves build and the intent.    *)
SignCheck(p) ==
    /\ ppc[p] = "built"
    /\ keyLock = NoThread
    /\ \/ /\ key = "live"
          /\ keyLock' = p
          /\ ppc' = [ppc EXCEPT ![p] = "signing"]
          /\ UNCHANGED draft
       \/ /\ key = "zeroized"
          /\ ppc' = [ppc EXCEPT ![p] = "idle"]
          /\ draft' = [draft EXCEPT ![p] = NoIntent]
          /\ UNCHANGED keyLock
    /\ UNCHANGED <<clockVars, key, built, queueVars, emitVars>>

(* ... the private key is used and the lock is released.                   *)
SignUse(p) ==
    /\ ppc[p] = "signing"
    /\ draft' = [draft EXCEPT ![p].signed = (key = "live")]
    /\ keyLock' = NoThread
    /\ ppc' = [ppc EXCEPT ![p] = "signed"]
    /\ UNCHANGED <<clockVars, key, built, queueVars, emitVars>>

(* Mutated: zeroize does not wait for a signature in progress.             *)
ZeroizeUnlocked ==
    /\ key = "live"
    /\ key' = "zeroized"
    /\ UNCHANGED <<clockVars, keyLock, prodVars, queueVars, emitVars>>

(* ProtectedSigningKey.zeroize, the whole of it under the lock.  A second  *)
(* call changes nothing.                                                   *)
Zeroize ==
    /\ keyLock = NoThread
    /\ key = "live"
    /\ key' = "zeroized"
    /\ UNCHANGED <<clockVars, keyLock, prodVars, queueVars, emitVars>>

(* IntentBuilder.enqueue, under the builder's lock.                        *)
Enqueue(p) ==
    /\ ppc[p] = "signed"
    /\ pending' = Append(pending, draft[p])
    /\ enqueued' = Append(enqueued, draft[p])
    /\ ppc' = [ppc EXCEPT ![p] = "idle"]
    /\ draft' = [draft EXCEPT ![p] = NoIntent]
    /\ UNCHANGED <<clockVars, keyVars, built, last_emit, emitted, batches,
                   emitVars>>

-----------------------------------------------------------------------------
(* emit_batch is called with or without force and reads the clock.         *)
EmitCall(e) ==
    /\ epc[e] = "idle"
    /\ \E f \in BOOLEAN : force' = [force EXCEPT ![e] = f]
    /\ now' = [now EXCEPT ![e] = clock]
    /\ epc' = [epc EXCEPT ![e] = "window"]
    /\ crowded' = (crowded \/ \E f \in Emitters : epc[f] # "idle")
    /\ UNCHANGED <<clockVars, keyVars, prodVars, queueVars>>

(* The call returns: its locals are gone.                                  *)
EmitReturn(e) ==
    /\ epc' = [epc EXCEPT ![e] = "idle"]
    /\ now' = [now EXCEPT ![e] = 0]
    /\ force' = [force EXCEPT ![e] = FALSE]
    /\ UNCHANGED crowded

WindowOpen(e) == force[e] \/ now[e] - last_emit >= Window

(* Mutated: the elapsed time is compared the wrong way round.              *)
EmitCheckInverted(e) ==
    /\ epc[e] = "window"
    /\ \/ /\ force[e] \/ now[e] - last_emit <= Window
          /\ epc' = [epc EXCEPT ![e] = "take"]
          /\ UNCHANGED <<now, force, crowded>>
       \/ ~(force[e] \/ now[e] - last_emit <= Window) /\ EmitReturn(e)
    /\ UNCHANGED <<clockVars, keyVars, prodVars, queueVars>>

(* The window check, on _last_emit read without the lock; inside the       *)
(* window the call returns [].                                             *)
EmitCheck(e) ==
    /\ epc[e] = "window"
    /\ \/ /\ WindowOpen(e)
          /\ epc' = [epc EXCEPT ![e] = "take"]
          /\ UNCHANGED <<now, force, crowded>>
       \/ ~WindowOpen(e) /\ EmitReturn(e)
    /\ UNCHANGED <<clockVars, keyVars, prodVars, queueVars>>

(* Mutated: the queue is copied but not cleared.                           *)
EmitTakeNoClear(e) ==
    /\ epc[e] = "take"
    /\ last_emit' = now[e]
    /\ emitted' = emitted \o pending
    /\ batches' = Append(batches, [at |-> now[e], forced |-> force[e],
                                   size |-> Len(pending)])
    /\ EmitReturn(e)
    /\ UNCHANGED <<clockVars, keyVars, prodVars, pending, enqueued>>

(* Mutated: the emission is stamped with the start of its window.          *)
EmitTakeAligned(e) ==
    /\ epc[e] = "take"
    /\ last_emit' = now[e] - Window
    /\ pending' = << >>
    /\ emitted' = emitted \o pending
    /\ batches' = Append(batches, [at |-> now[e], forced |-> force[e],
                                   size |-> Len(pending)])
    /\ EmitReturn(e)
    /\ UNCHANGED <<clockVars, keyVars, prodVars, enqueued>>

(* The block under the lock: nothing pending returns [] and leaves         *)
(* _last_emit; otherwise the queue is taken and cleared.                   *)
EmitTake(e) ==
    /\ epc[e] = "take"
    /\ \/ /\ pending = << >>
          /\ UNCHANGED queueVars
       \/ /\ pending # << >>
          /\ last_emit' = now[e]
          /\ pending' = << >>
          /\ emitted' = emitted \o pending
          /\ batches' = Append(batches, [at |-> now[e], forced |-> force[e],
                                         size |-> Len(pending)])
          /\ UNCHANGED enqueued
    /\ EmitReturn(e)
    /\ UNCHANGED <<clockVars, keyVars, prodVars>>

Produce(p) == Build(p) \/ SignCheck(p) \/ SignUse(p) \/ Enqueue(p)

Emit(e) == EmitCall(e) \/ EmitCheck(e) \/ EmitTake(e)

Next ==
    \/ Tick \/ StepBack \/ Zeroize
    \/ \E p \in Producers : Produce(p)
    \/ \E e \in Emitters : Emit(e)

Spec == Init /\ [][Next]_vars

-----------------------------------------------------------------------------
(* Type invariant of the builder, the key and the threads' locals.         *)
TypeOK ==
    /\ clock \in Nat /\ stepsBack \in Nat
    /\ key \in {"live", "zeroized"}
    /\ keyLock \in Producers \cup {NoThread}
    /\ ppc \in [Producers -> {"idle", "built", "signing", "signed"}]
    /\ draft \in [Producers -> Intent]
    /\ built \in Nat
    /\ pending \in Seq(Intent) /\ enqueued \in Seq(Intent)
    /\ emitted \in Seq(Intent)
    /\ last_emit \in Nat
    /\ epc \in [Emitters -> {"idle", "window", "take"}]
    /\ now \in [Emitters -> Nat]
    /\ force \in [Emitters -> BOOLEAN]
    /\ batches \in Seq(Batch)
    /\ crowded \in BOOLEAN

(* Whatever producers and emitters run at once, what was emitted followed  *)
(* by what is pending is exactly what was enqueued, in order: no intent is *)
(* lost, emitted twice or overtaken (enqueue, emit_batch).                 *)
NothingLostOrDuplicated == emitted \o pending = enqueued

(* A signature in progress never loses its key to a concurrent zeroize     *)
(* (the key's lock spans check and use in sign), so that every intent in   *)
(* the stream carries a signature.                                         *)
KeyHeldWhileSigning ==
    /\ \A p \in Producers : ppc[p] = "signing" => key = "live"
    /\ \A i \in 1..Len(enqueued) : enqueued[i].signed

(* _last_emit is the time of the last batch, whoever emitted it, and calls *)
(* that found nothing pending left it alone (emit_batch).                  *)
LastEmitIsLastBatch ==
    last_emit = IF batches = << >> THEN 0 ELSE batches[Len(batches)].at

(* emit_batch's first line, "Emit all pending intents if the emit window   *)
(* has elapsed": an unforced batch follows the batch before it by a window.*)
WindowBetweenBatches ==
    \A i \in 2..Len(batches) :
        ~batches[i].forced => batches[i].at - batches[i - 1].at >= Window

(* The window is kept whatever the clock does, as long as no call of       *)
(* emit_batch overlaps another: the overlap is the only way to break it.   *)
WindowUnlessConcurrent == ~crowded => WindowBetweenBatches

-----------------------------------------------------------------------------
(* The inductive strengthening of KeyHeldWhileSigning: the thread that     *)
(* signs holds the lock, and a signed draft is signed.                     *)
KeyInv ==
    /\ \A p \in Producers : ppc[p] = "signing" => keyLock = p
    /\ \A p \in Producers : ppc[p] = "signed" => draft[p].signed = TRUE
    /\ KeyHeldWhileSigning

(* The inductive strengthening of WindowUnlessConcurrent: without an       *)
(* overlap at most one emitter is in emit_batch, and the check it made     *)
(* still holds when it takes the queue.                                    *)
WindowInv ==
    ~crowded =>
        /\ \A e, f \in Emitters : e # f => epc[e] = "idle" \/ epc[f] = "idle"
        /\ \A e \in Emitters : epc[e] = "take" => WindowOpen(e)
        /\ WindowBetweenBatches
=============================================================================
