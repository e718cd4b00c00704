----------------------------- MODULE MCSealBox -----------------------------
(* An instance of SealBox for TLC: a size_t of five bits and keys of two     *)
(* bytes (three characters and one '='), so that every wrap is in reach.     *)
EXTENDS SealBox

GoodKey == [chars |-> 3, canonical |-> TRUE, pad |-> 1, junk |-> 0]

Keys == [chars : 0 .. 4, canonical : BOOLEAN, pad : 0 .. 2, junk : 0 .. 1]

BaseCall == [zeroing |-> FALSE, null |-> {}, len |-> 1, key |-> GoodKey,
             size |-> 9, error |-> TRUE]

MCCalls ==
    {[BaseCall EXCEPT !.len = n, !.size = m, !.zeroing = z] :
         n \in 0 .. SIZE_MAX, m \in {0, 8, 9, 12, 13, 28, 29, 30, 31}, z \in BOOLEAN}
    \cup {[BaseCall EXCEPT !.key = k] : k \in Keys}
    \cup {[BaseCall EXCEPT !.null = p, !.zeroing = z, !.error = z] :
               p \in SUBSET {"message", "key", "output"}, z \in BOOLEAN}
=============================================================================
