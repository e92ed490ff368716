-------------------------- MODULE MCIntentVerifier --------------------------
(* An instance of IntentVerifier for TLC: two issued orders; the transport *)
(* also holds a copy with a damaged body, one with a later timestamp, one  *)
(* of another key and one whose signature is unreadable.                   *)
EXTENDS IntentVerifier

CONSTANTS a, b, buy, sell, ours, theirs

OrderA == [intent_id |-> a, body |-> buy, timestamp |-> 1]
OrderB == [intent_id |-> b, body |-> sell, timestamp |-> 2]

MCIds == {a, b}
MCBodies == {buy, sell}
MCKeyHashes == {ours, theirs}
MCIssued == {OrderA, OrderB}

MCWire ==
    { SignIntent(OrderA),
      SignIntent(OrderB),
      [SignIntent(OrderA) EXCEPT !.body = sell],
      [SignIntent(OrderA) EXCEPT !.timestamp = 3],
      [SignIntent(OrderB) EXCEPT !.public_key_hash = theirs],
      [SignIntent(OrderB) EXCEPT !.signature = NoSignature] }
=============================================================================
