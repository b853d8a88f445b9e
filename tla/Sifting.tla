------------------------------ MODULE Sifting ------------------------------
(* Selecting from a sequence and joining sequences, as recursive functions *)
(* and with a set in the place of a test, so that what they return can be  *)
(* reasoned about.                                                         *)
EXTENDS Naturals, Sequences

\* the entries of s that are in S, in their order
Among(s, S) ==
    LET kept[i \in 0 .. Len(s)] ==
            IF i = 0 THEN <<>>
            ELSE IF s[i] \in S THEN Append(kept[i - 1], s[i]) ELSE kept[i - 1]
    IN  kept[Len(s)]

\* the sequences in ss up to the i-th, one after the other
Joined(ss, i) ==
    LET upTo[j \in 0 .. Len(ss)] == IF j = 0 THEN <<>> ELSE upTo[j - 1] \o ss[j]
    IN  upTo[i]
=============================================================================
