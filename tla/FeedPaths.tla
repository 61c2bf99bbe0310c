----------------------------- MODULE FeedPaths -----------------------------
(***************************************************************************)
(* feed_routes::is_feed_path against the router of Misskey, find-my-way,   *)
(* which decodes a path before it matches it.  A GET of /@acct is either   *)
(* stopped here or handed on and routed there; the two readings of the     *)
(* same bytes must not differ on what is a feed.                           *)
(***************************************************************************)
EXTENDS Percent, SequencesExt

CONSTANT Accts    \* what may follow the /@ of a path of one segment

ASSUME AcctsAssumption == Accts \subseteq Seq(Byte \ {SLASH})

VARIABLES
    acct,    \* the segment after /@, as the caller wrote it
    proxy,   \* "reading", "not_found" or "forwarded"
    route    \* where Misskey takes it: "none", "feed", "actor" or "bad_request"

feedVars == <<acct, proxy, route>>

-----------------------------------------------------------------------------

\* ; / ? : @ & = + $ , #
RESERVED == {59, 47, 63, 58, 64, 38, 61, 43, 36, 44, 35}

FEEDS == {<<46, 114, 115, 115>>,            \* .rss
          <<46, 97, 116, 111, 109>>,        \* .atom
          <<46, 106, 115, 111, 110>>}       \* .json

EndsLikeAFeed(s) == \E feed \in FEEDS : IsSuffix(feed, s)

\* Two slips: a bound that misses an escape at the very end, and decoding %25
\* with the rest, once more for what it uncovers.
decode_like_find_my_way_Short(s) ==
    DecodeAt(s, {i \in Escapes(s, RESERVED \cup {PERCENT}) : i + 3 \in DOMAIN s})
decode_like_find_my_way_Twice(s) ==
    LET once == DecodeAt(s, Escapes(s, RESERVED))
    IN  DecodeAt(once, Escapes(once, RESERVED))

decode_like_find_my_way(s) == DecodeAt(s, Escapes(s, RESERVED \cup {PERCENT}))

is_feed_path(s) == s # <<>> /\ EndsLikeAFeed(decode_like_find_my_way(s))

\* find-my-way, safeDecodeURI: every %25 is written %2525, so that the decoding
\* that follows leaves %25.
Guarded(s) ==
    FlattenSeq([i \in 1..Len(s) |->
        IF s[i] = PERCENT /\ escape_at(s, i) /\ Escaped(s, i) = PERCENT
            THEN <<PERCENT, 50, 53>> ELSE <<s[i]>>])

\* decodeURI throws on a stray percent sign and on escapes that do not spell
\* UTF-8; it leaves the reserved characters escaped.
Throws(s) == ~escapes_are_wellformed(s) \/ ~IsUtf8(DecodeAt(s, Escapes(s, {})))
decodeURI(s) == DecodeAt(s, Escapes(s, RESERVED))

-----------------------------------------------------------------------------

FeedInit ==
    /\ acct \in Accts
    /\ proxy = "reading"
    /\ route = "none"

RejectFeed ==
    /\ proxy = "reading"
    /\ is_feed_path(acct)
    /\ proxy' = "not_found"
    /\ UNCHANGED <<acct, route>>

\* The path goes out as it came in.
Forward ==
    /\ proxy = "reading"
    /\ ~is_feed_path(acct)
    /\ proxy' = "forwarded"
    /\ UNCHANGED <<acct, route>>

MisskeysChoice(s) ==
    CASE Throws(Guarded(s))                       -> "bad_request"
      [] ~Throws(Guarded(s)) /\ EndsLikeAFeed(decodeURI(Guarded(s))) -> "feed"
      [] OTHER                                    -> "actor"

MisskeyRoutes ==
    /\ proxy = "forwarded" /\ route = "none"
    /\ route' = MisskeysChoice(acct)
    /\ UNCHANGED <<acct, proxy>>

FeedNext == RejectFeed \/ Forward \/ MisskeyRoutes

FeedSpec == FeedInit /\ [][FeedNext]_feedVars

-----------------------------------------------------------------------------

\* No spelling of a feed gets past is_feed_path: whatever find-my-way would
\* route to one, with any of its letters escaped in either case, is a 404 here.
NoFeedIsServed == route # "feed"

\* No actor is turned away for looking like a feed: what is a 404 here would be
\* a feed or a 400 there, so that a name which only spells .rss after a second
\* decoding still federates.
ActorsGetThrough == proxy = "not_found" => MisskeysChoice(acct) # "actor"
=============================================================================
