------------------------------ MODULE Selection ------------------------------
(***************************************************************************)
(* The comprehension of the code over a list, [x for x in s if x in S]: a  *)
(* set says which elements are meant, and their order stays.  It is        *)
(* SelectSeq with a set for its operator, and a recursive function, so     *)
(* that its facts can be proved (RuntimeProofs.tla).                       *)
(***************************************************************************)
EXTENDS Naturals, Sequences

Only(s, S) ==
  LET only[n \in 0..Len(s)] ==
        IF n = 0 THEN <<>>
        ELSE IF s[n] \in S THEN Append(only[n - 1], s[n]) ELSE only[n - 1]
  IN  only[Len(s)]

=============================================================================
