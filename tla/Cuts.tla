-------------------------------- MODULE Cuts --------------------------------
(***************************************************************************)
(* Cutting a text at a mark, as str::split does, and dropping what is not  *)
(* wanted.  A text is a sequence of characters or of tokens.               *)
(***************************************************************************)
EXTENDS Integers, SequencesExt

\* The pieces of a text that goes on with c.
Longer(pieces, c, mark) ==
    IF c = mark THEN Append(pieces, <<>>)
    ELSE Append(Front(pieces), Append(Last(pieces), c))

\* The texts between the marks of s, empty ones included.
Split(s, mark) ==
    LET upto[i \in 0..Len(s)] ==
            IF i = 0 THEN << <<>> >> ELSE Longer(upto[i - 1], s[i], mark)
    IN  upto[Len(s)]

\* s without every x in it.
Without(s, x) == FlattenSeq([i \in DOMAIN s |-> IF s[i] = x THEN <<>> ELSE <<s[i]>>])
=============================================================================
