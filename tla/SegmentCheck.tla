---------------------------- MODULE SegmentCheck ----------------------------
(***************************************************************************)
(* media_target::segment_is_safe, one step per round of its loop, and what *)
(* comes after it: whoever follows the Location.  That reader decodes what *)
(* it likes when it likes (one hop the unreserved characters, the next one *)
(* everything, a third one nothing), so it is given one escape at a time,  *)
(* in any order.  path_is_safe is this check on every segment; the query   *)
(* is not decoded.                                                         *)
(***************************************************************************)
EXTENDS Percent

CONSTANTS
    Segments,             \* the segments that are looked at
    MAX_DECODE_ROUNDS     \* 8 in the code

ASSUME SegmentsAssumption == Segments \subseteq Seq(Byte)
ASSUME RoundsAssumption == MAX_DECODE_ROUNDS \in Nat

VARIABLES
    segment,   \* the segment as it was written
    current,   \* the layer under judgement
    round,     \* how often it has been decoded
    verdict,   \* "raw", "decoding", "safe" or "unsafe"
    view       \* what a later reader has made of the segment

segmentVars == <<segment, current, round, verdict, view>>

-----------------------------------------------------------------------------

\* What a layer must not be, and must not hold.
Hides(s) ==
    \/ s = <<DOT>> \/ s = <<DOT, DOT>>
    \/ \E i \in DOMAIN s : s[i] \in {SLASH, BACKSLASH, SEMICOLON, DEL} \cup 0..31

\* A slip: overlong and broken encodings pass.
Refused_Utf8Ignored(s) == Hides(s)
Refused(s) == Hides(s) \/ ~IsUtf8(s)

SegmentInit ==
    /\ segment \in Segments
    /\ current = segment
    /\ round = 0
    /\ verdict = "raw"
    /\ view = segment

\* segment.is_empty() || !escapes_are_wellformed(segment)
RefuseRaw ==
    /\ verdict = "raw"
    /\ segment = <<>> \/ ~escapes_are_wellformed(segment)
    /\ verdict' = "unsafe"
    /\ UNCHANGED <<segment, current, round, view>>

BeginDecoding ==
    /\ verdict = "raw"
    /\ segment # <<>> /\ escapes_are_wellformed(segment)
    /\ verdict' = "decoding"
    /\ UNCHANGED <<segment, current, round, view>>

RefuseLayer ==
    /\ verdict = "decoding"
    /\ Refused(current)
    /\ verdict' = "unsafe"
    /\ UNCHANGED <<segment, current, round, view>>

\* Nothing is left to decode.
Accept ==
    /\ verdict = "decoding"
    /\ ~Refused(current)
    /\ decode_valid_escapes(current) = current
    /\ verdict' = "safe"
    /\ UNCHANGED <<segment, current, round, view>>

\* A slip: one layer fewer than the documented eight.
LastRound_Early(n) == n + 1 >= MAX_DECODE_ROUNDS
LastRound(n) == n = MAX_DECODE_ROUNDS

GiveUp ==
    /\ verdict = "decoding"
    /\ ~Refused(current)
    /\ decode_valid_escapes(current) # current
    /\ LastRound(round)
    /\ verdict' = "unsafe"
    /\ UNCHANGED <<segment, current, round, view>>

NextRound ==
    /\ verdict = "decoding"
    /\ ~Refused(current)
    /\ decode_valid_escapes(current) # current
    /\ ~LastRound(round)
    /\ current' = decode_valid_escapes(current)
    /\ round' = round + 1
    /\ UNCHANGED <<segment, verdict, view>>

\* Another reader, once the segment has been let through.
ReaderDecodes ==
    /\ verdict = "safe"
    /\ \E at \in Escapes(view, {}) : view' = DecodeAt(view, {at})
    /\ UNCHANGED <<segment, current, round, verdict>>

SegmentNext ==
    \/ RefuseRaw \/ BeginDecoding \/ RefuseLayer \/ Accept \/ GiveUp \/ NextRound
    \/ ReaderDecodes

SegmentSpec == SegmentInit /\ [][SegmentNext]_segmentVars

-----------------------------------------------------------------------------

\* However many hops decode an accepted segment, each as much of it as it
\* likes, none ever holds a dot segment, a separator, a `;` or a control byte:
\* what path_is_safe promises of "however many layers of decoding sit between
\* here and the file", also for layers that the check itself never looked at.
NoReaderFindsMore == verdict = "safe" => ~Hides(view)

\* All of them end at one and the same name, the one segment_is_safe ended at,
\* and that name is text.
ReadersAgree ==
    verdict = "safe" /\ Escapes(view, {}) = {} => view = current /\ IsUtf8(view)

Layer(s) ==
    LET nth[n \in 0..MAX_DECODE_ROUNDS] ==
            IF n = 0 THEN s ELSE DecodeAt(nth[n - 1], Escapes(nth[n - 1], {}))
    IN  nth

\* A segment is refused for one of the documented causes only: it is empty, a
\* `%` in it lacks its two digits, one of its layers holds what it must not,
\* or it is wrapped more than MAX_DECODE_ROUNDS times.  A name with a stray
\* `%` further down, and a name wrapped eight times, are let through; one
\* that is wrapped deeper never is.
RefusalHasACause ==
    /\ verdict = "safe" => round <= MAX_DECODE_ROUNDS
    /\ verdict = "unsafe" =>
        \/ segment = <<>>
        \/ \E i \in DOMAIN segment :
             /\ segment[i] = PERCENT
             /\ \/ i > Len(segment) - 2
                \/ ~(IsHex(segment[i + 1]) /\ IsHex(segment[i + 2]))
        \/ \E n \in 0..MAX_DECODE_ROUNDS : Refused(Layer(segment)[n])
        \/ Escapes(Layer(segment)[MAX_DECODE_ROUNDS], {}) # {}
=============================================================================
