------------------------------- MODULE MCArgs -------------------------------
(* An instance of Args for TLC: every vector of at most MaxWords words out   *)
(* of a set with each shape that getopt_long tells apart.                    *)
EXTENDS Args, SequencesExt

CONSTANT MaxWords   \* length of the vectors (bound of the model)

Operand(t) == [text |-> t, letters |-> <<>>, long |-> FALSE, value |-> Absent]
Short(letters, v) == [text |-> "word", letters |-> letters, long |-> FALSE, value |-> v]
Long(l, v) == [text |-> "word", letters |-> <<l>>, long |-> TRUE, value |-> v]

Words == {Operand("word"), Operand("-"), Operand("--"), Operand(""),
          Short(<<"k">>, Absent), Short(<<"k">>, "word"), Short(<<"k">>, "-"),
          Long("k", ""), Short(<<"i">>, Absent), Long("i", "overlong"),
          Long("o", "json"), Short(<<"o">>, "word"), Short(<<"f">>, "base64"),
          Short(<<"h">>, Absent), Short(<<"?", "h">>, Absent), Short(<<"V", "k">>, Absent),
          Long("h", "word")}

MCArgvs == BoundedSeq(Words, MaxWords)
MCLater == BoundedSeq(Words, 1)
=============================================================================
