----------------------------- MODULE Selection -----------------------------
(***************************************************************************)
(* What loops over a list collect.  SelectIn is the sequence without the   *)
(* elements outside a set (Vec::retain, iter().filter()), Joined one       *)
(* sequence after the other (a push in an inner loop).  They are SelectSeq *)
(* and FlattenSeq as recursive functions, which theorems can be proved of. *)
(***************************************************************************)
EXTENDS Naturals, Sequences

SelectIn(s, T) ==
  LET kept[n \in 0 .. Len(s)] ==
        IF n = 0 THEN <<>>
        ELSE IF s[n] \in T THEN Append(kept[n - 1], s[n])
        ELSE kept[n - 1]
  IN  kept[Len(s)]

Joined(ss) ==
  LET joined[n \in 0 .. Len(ss)] ==
        IF n = 0 THEN <<>> ELSE joined[n - 1] \o ss[n]
  IN  joined[Len(ss)]
=============================================================================
