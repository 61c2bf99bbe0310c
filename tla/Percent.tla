------------------------------ MODULE Percent ------------------------------
(***************************************************************************)
(* Percent-escapes in a path segment, as the two checks that decode them   *)
(* read them: src/media_target.rs (segment_is_safe) and                    *)
(* src/feed_routes.rs (is_feed_path).  A segment is the sequence of its    *)
(* bytes, numbers below 256.                                               *)
(***************************************************************************)
EXTENDS Integers, Sequences

Byte == 0..255
PERCENT == 37   DOT == 46   SLASH == 47   SEMICOLON == 59   BACKSLASH == 92
DEL == 127

digits == 48..57   lower_hex == 97..102   upper_hex == 65..70

IsHex(b) == b \in digits \cup lower_hex \cup upper_hex

hex_value(b) ==
    CASE b \in digits    -> b - 48
      [] b \in lower_hex -> b - 87
      [] b \in upper_hex -> b - 55

\* escape_at: the two digits after s[at] have to be there.
escape_at(s, at) ==
    at + 2 \in DOMAIN s /\ IsHex(s[at + 1]) /\ IsHex(s[at + 2])

Escaped(s, at) == 16 * hex_value(s[at + 1]) + hex_value(s[at + 2])

\* Where the escapes begin whose byte is not in kept.  A digit is never a
\* percent sign, so two escapes never overlap and a scan from left to right
\* finds all of them.
Escapes(s, kept) ==
    {i \in DOMAIN s : s[i] = PERCENT /\ escape_at(s, i) /\ Escaped(s, i) \notin kept}

\* Decodes every escape of s at one of the positions E, from left to right:
\* its first byte gives way to the byte it stands for, its digits go.
DecodeAt(s, E) ==
    LET digit  == {i + 1 : i \in E} \cup {i + 2 : i \in E}
        out[i \in 0..Len(s)] ==
            IF i = 0 THEN <<>>
            ELSE IF i \in digit THEN out[i - 1]
            ELSE Append(out[i - 1], IF i \in E THEN Escaped(s, i) ELSE s[i])
    IN  out[Len(s)]

escapes_are_wellformed(s) == \A i \in DOMAIN s : s[i] = PERCENT => escape_at(s, i)

\* A slip: an escaped percent sign is left for others to decode.
decode_valid_escapes_Shallow(s) == DecodeAt(s, Escapes(s, {PERCENT}))

decode_valid_escapes(s) == DecodeAt(s, Escapes(s, {}))

-----------------------------------------------------------------------------
(* std::str::from_utf8: every byte is the lead of a complete character, or *)
(* the continuation of one.  Overlong forms, surrogates and code points    *)
(* past the last one are told by the second byte.                          *)

Continues(b) == b \in 128..191

Width(b) ==
    CASE b < 128        -> 1
      [] b \in 194..223 -> 2
      [] b \in 224..239 -> 3
      [] b \in 240..244 -> 4
      [] OTHER          -> 0

SecondAllowed(lead) ==
    CASE lead = 224 -> 160..191
      [] lead = 237 -> 128..159
      [] lead = 240 -> 144..191
      [] lead = 244 -> 128..143
      [] OTHER      -> 128..191

IsUtf8(s) ==
    \A i \in DOMAIN s :
        \/ /\ Width(s[i]) > 0
           /\ i + Width(s[i]) - 1 \in DOMAIN s
           /\ \A k \in 1..(Width(s[i]) - 1) : Continues(s[i + k])
           /\ Width(s[i]) > 1 => s[i + 1] \in SecondAllowed(s[i])
        \/ /\ Continues(s[i])
           /\ \E k \in 1..3 : i - k \in DOMAIN s /\ Width(s[i - k]) > k
=============================================================================
