---------------------------- MODULE IntentCodec ----------------------------
(***************************************************************************)
(* The two encodings of an OrderIntent (signed_order_intent.py): the       *)
(* pipe-delimited text that is signed, and the JSON that is sent.          *)
(*                                                                         *)
(* A number is its Python type and its value, counted in halves so that a  *)
(* float may have a fraction.  A text is the sequence of its pieces        *)
(* between pipes: "AB" is one piece, "A|B" two, and joining texts with "|" *)
(* concatenates their pieces.  A piece is a name or a printed number.      *)
(* Ed25519 is ideal: a signature is the text it was made over, by the one  *)
(* key that matters.                                                       *)
(***************************************************************************)
EXTENDS Integers, Sequences

Piece(kind, value) == [kind |-> kind, value |-> value]
Pieces == [kind : {"name", "integer", "decimal"}, value : Int]
PrintedNumbers == [kind : {"integer", "decimal"}, value : Int]
Texts == Seq(Pieces) \ {<< >>}

\* An int has no half.
Numbers == {n \in [float : BOOLEAN, value : Int] : n.float \/ n.value % 2 = 0}

\* The dataclass, with what annotations leave open left open (an int may
\* stand where a float is declared), and the JSON document it is sent as.
OrderIntents ==
    [intent_id : Texts, symbol : Texts, side : Numbers, size : Numbers,
     stop_price : Numbers, target_price : Numbers, timestamp : Numbers,
     public_key_hash : Seq(Pieces), signature : Seq(Pieces)]
Documents ==
    [intent_id : Texts, symbol : Texts, side : PrintedNumbers,
     size : PrintedNumbers, stop_price : PrintedNumbers,
     target_price : PrintedNumbers, timestamp : PrintedNumbers,
     public_key_hash : Texts, signature : Seq(Pieces)]

\* str and json.dumps print a float with a fraction and an int without one;
\* json.loads takes the type back from the print.
Printed(n) == Piece(IF n.float THEN "decimal" ELSE "integer", n.value)
Loads(p) == [float |-> p.kind = "decimal", value |-> p.value]

Str(n) == <<Printed(n)>>

\* int(x) drops the fraction of a float, toward zero; float(x) keeps the value.
ToInt(n) ==
    [float |-> FALSE,
     value |-> IF n.value >= 0 THEN 2 * (n.value \div 2)
                               ELSE -2 * ((-n.value) \div 2)]
ToFloat(n) == [float |-> TRUE, value |-> n.value]

\* Mutant: the stop price is not signed.
SerializeNoStop(i) ==
    i.intent_id \o i.symbol \o Str(i.side) \o Str(i.size)
      \o Str(i.target_price) \o Str(i.timestamp) \o i.public_key_hash

SerializeForSigning(i) ==
    i.intent_id \o i.symbol \o Str(i.side) \o Str(i.size)
      \o Str(i.stop_price) \o Str(i.target_price) \o Str(i.timestamp)
      \o i.public_key_hash

\* sign_intent fills in the key's hash first, then signs.
SignIntent(i, hash) ==
    LET hashed == [i EXCEPT !.public_key_hash = hash]
    IN  [hashed EXCEPT !.signature = SerializeForSigning(hashed)]

\* json.dumps(to_dict()): the texts go as strings, the numbers in print.
ToJson(i) ==
    [intent_id |-> i.intent_id, symbol |-> i.symbol,
     side |-> Printed(i.side), size |-> Printed(i.size),
     stop_price |-> Printed(i.stop_price),
     target_price |-> Printed(i.target_price),
     timestamp |-> Printed(i.timestamp),
     public_key_hash |-> i.public_key_hash, signature |-> i.signature]

\* Mutant: the size is parsed as an int, as side and timestamp are.
FromJsonIntSize(doc) ==
    [intent_id |-> doc.intent_id, symbol |-> doc.symbol,
     side |-> ToInt(Loads(doc.side)), size |-> ToInt(Loads(doc.size)),
     stop_price |-> ToFloat(Loads(doc.stop_price)),
     target_price |-> ToFloat(Loads(doc.target_price)),
     timestamp |-> ToInt(Loads(doc.timestamp)),
     public_key_hash |-> doc.public_key_hash, signature |-> doc.signature]

\* from_dict(json.loads(raw)).
FromJson(doc) ==
    [intent_id |-> doc.intent_id, symbol |-> doc.symbol,
     side |-> ToInt(Loads(doc.side)), size |-> ToFloat(Loads(doc.size)),
     stop_price |-> ToFloat(Loads(doc.stop_price)),
     target_price |-> ToFloat(Loads(doc.target_price)),
     timestamp |-> ToInt(Loads(doc.timestamp)),
     public_key_hash |-> doc.public_key_hash, signature |-> doc.signature]

VerifyIntent(i) == i.signature = SerializeForSigning(i)
============================================================================
