---------------------------- MODULE MCAlgorithms ----------------------------
(* Input sets for Algorithms: each function from its smallest inputs to    *)
(* past its boundaries.                                                    *)
EXTENDS Algorithms

\* Every size up to 40, the default bands with their neighbours, and the
\* middles between them.
MCSizes ==
    (-3..40) \cup
    { POWER_OF_TWO_BANDS[i] + d : i \in 5..12, d \in -1..1 } \cup
    { 3 * (POWER_OF_TWO_BANDS[i] \div 2) + d : i \in 5..12, d \in -1..1 }
MCBandLists == { << >>, <<5>>, <<4, 10, 20>>, <<3, 4, 7>> }

\* A name, "1" and "1.0" as pieces of a text, alone and with a pipe between.
NamePiece == Piece("name", 0)
OnePiece == Piece("integer", 2)
MCTexts == { <<NamePiece>>, <<OnePiece>>, <<Piece("decimal", 2)>> }
PipedTexts ==
    MCTexts \cup { t[1] \o t[2] : t \in MCTexts \X MCTexts }
MCKeyHash == <<NamePiece>>

IntNumber(v) == [float |-> FALSE, value |-> v]
FloatNumber(v) == [float |-> TRUE, value |-> v]

Intents(ids, symbols, sides, sizes, prices, times, hashes) ==
    [ intent_id : ids, symbol : symbols, side : sides, size : sizes,
      stop_price : prices, target_price : prices, timestamp : times,
      public_key_hash : hashes, signature : {<< >>} ]

\* 1, 1.0 and 1.5 for the numbers, and -1 for a side.
MCBuiltIntents ==
    Intents({<<NamePiece>>}, MCTexts \cup {<<NamePiece, OnePiece>>},
            { IntNumber(2), IntNumber(-2), FloatNumber(2) },
            { IntNumber(2), FloatNumber(2) },
            { IntNumber(2), FloatNumber(2), FloatNumber(3) },
            { IntNumber(2), FloatNumber(3) }, {<< >>})
MCWireIntents ==
    Intents(PipedTexts, PipedTexts, { OnePiece, Piece("decimal", -3) },
            { OnePiece }, { OnePiece, Piece("decimal", 3) },
            { OnePiece }, { <<NamePiece>>, <<OnePiece, NamePiece>> })

MCEdSig == <<1>>
MCMldsaSig == <<0, 1>>
MCPartLists == BoundedSeq(BoundedSeq(Bytes, 2), 3)
MCSigBlobs == BoundedSeq(Bytes, 9)

\* Whole blobs of up to three bytes of plaintext, and damaged ones of every
\* length.
MCOpenCalls ==
    { c \in [ len : 0..(SealedLen(3) + 1), intact : BOOLEAN,
              rightKey : BOOLEAN, rightPath : BOOLEAN,
              masterLen : (MasterLen - 1)..(MasterLen + 1) ] :
        c.intact => c.len \in SealedLen(0)..SealedLen(3) }

\* Buffers of up to two pages, offsets inside them, lengths up to past the
\* end.
MCAccesses ==
    { a \in [ addr : 4..11, size : 1..8, offset : 0..8, len : -1..9 ] :
        a.offset <= a.size }

MCTcbPairs == Tcb \X Tcb
=============================================================================
