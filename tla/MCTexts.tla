------------------------------ MODULE MCTexts ------------------------------
(***************************************************************************)
(* The three decisions that read a text of a caller's or the operator's    *)
(* character by character, side by side: segment_is_safe, is_feed_path and *)
(* the Referer suffix.  A behaviour follows one of them on one text, the   *)
(* other two have settled an empty one.                                    *)
(***************************************************************************)
EXTENDS SegmentCheck, FeedPaths, RefererSuffix

CONSTANTS MaxSegment, MaxSetting

-----------------------------------------------------------------------------
(* Segments: every one of up to MaxSegment bytes over an alphabet in which   *)
(* escapes can spell percent signs, digits and dots, and some names wrapped  *)
(* past the last round.                                                      *)

\* % 2 5 e .
alphabet == {37, 50, 53, 101, 46}

\* Escapes without their percent sign: . / \ ; DEL NUL A zz, and characters of
\* several bytes: one of three, an overlong dot, a surrogate, one past the end.
wrapped ==
    { <<50, 101>>, <<50, 70>>, <<53, 67>>, <<51, 98>>, <<55, 102>>, <<48, 48>>,
      <<52, 49>>, <<122, 122>>,
      <<69, 51, 37, 56, 49, 37, 56, 50>>,
      <<67, 48, 37, 65, 69>>,
      <<69, 68, 37, 65, 48, 37, 56, 48>>,
      <<70, 52, 37, 57, 48, 37, 56, 48, 37, 56, 48>> }

\* "%" "25" ... "25" name
Wrapped(name, depth) ==
    <<PERCENT>> \o FlattenSeq([i \in 1..depth |-> <<50, 53>>]) \o name

MCSegments ==
    BoundedSeq(alphabet, MaxSegment)
    \cup {Wrapped(name, depth) : name \in wrapped, depth \in 0..(MAX_DECODE_ROUNDS + 2)}

-----------------------------------------------------------------------------
(* Accounts: a name, then each character of a feed's ending, or one that is  *)
(* no ending, spelled in every way, then perhaps a tail.                     *)

HexDigit(n, ten) == IF n < 10 THEN 48 + n ELSE ten + n - 10
Escape(b, ten) == <<PERCENT, HexDigit(b \div 16, ten), HexDigit(b % 16, ten)>>

\* As it is, escaped with lowercase or capital digits, or escaped twice.
Spellings(b) ==
    {<<b>>, Escape(b, 97), Escape(b, 65), <<PERCENT, 50, 53>> \o Tail(Escape(b, 97))}

Spelled(word) ==
    LET upto[n \in 0..Len(word)] ==
            IF n = 0 THEN {<<>>}
            ELSE {s \o t : s \in upto[n - 1], t \in Spellings(word[n])}
    IN  upto[Len(word)]

\* nothing, a, a dot, %, %2, an escaped slash, half a character
heads == {<<>>, <<97>>, <<DOT>>, <<PERCENT>>, <<PERCENT, 50>>,
          <<PERCENT, 50, 70>>, <<PERCENT, 67, 51>>}
tails == {<<>>, <<115>>, <<PERCENT>>, <<PERCENT, 55, 51>>}

\* .rss .atom .json rss .rs
words == FEEDS \cup {<<114, 115, 115>>, <<46, 114, 115>>}

MCAccts == {n \o w \o t : n \in heads, w \in UNION {Spelled(x) : x \in words}, t \in tails}

-----------------------------------------------------------------------------
(* Settings of up to MaxSetting characters, and about as many numbers as an  *)
(* address has; hosts of up to three labels that share endings with each     *)
(* other inside a label, and addresses that do, with one number more too.    *)
(* The url crate keeps empty labels, a trailing one above all.               *)

Ones(n) == [i \in 1..n |-> <<"1">>]
MCRaw ==
    BoundedSeq(DOMAIN lowercase, MaxSetting)
    \cup {before \o Text(Ones(n)) \o after :
             before \in {<<>>, <<".">>, <<"a", ".">>}, n \in 3..5,
             after \in {<<>>, <<".">>}}

labels == {<<>>, <<"a">>, <<"x">>, <<"x", "a">>, <<"1">>}
MCHosts ==
    (BoundedSeq(labels, 3) \ {<<>>})
    \cup {Ones(4), Ones(5), Ones(3) \o << <<"1", "0", "1">> >>, Append(Ones(4), <<>>)}

\* For a run about the setting alone: two that differ in what their last label
\* is, a name's or a number, and no other texts.
Settings == {<<".", "a", ".", "a">>, <<".", "a", ".", "1">>}
Nothing == {}

-----------------------------------------------------------------------------

SegmentSettled == segment = <<>> /\ current = <<>> /\ view = <<>>
                  /\ round = 0 /\ verdict = "unsafe"
FeedSettled == acct = <<>> /\ proxy = "forwarded" /\ route = "actor"
SuffixSettled == raw = <<>> /\ suffix = <<>> /\ phase = "stopped"
                 /\ referer = NoHost /\ internal = FALSE

Init ==
    \/ SegmentInit /\ FeedSettled /\ SuffixSettled
    \/ SegmentSettled /\ FeedInit /\ SuffixSettled
    \/ SegmentSettled /\ FeedSettled /\ SuffixInit

Next ==
    \/ SegmentNext /\ UNCHANGED <<feedVars, suffixVars>>
    \/ FeedNext /\ UNCHANGED <<segmentVars, suffixVars>>
    \/ SuffixNext /\ UNCHANGED <<segmentVars, feedVars>>

Spec == Init /\ [][Next]_<<segmentVars, feedVars, suffixVars>>
=============================================================================
