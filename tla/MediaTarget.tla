---------------------------- MODULE MediaTarget ----------------------------
(***************************************************************************)
(* The pure functions of src/media_target.rs: where a media request may be *)
(* sent.  The rule that refuses a target is only logged, so a refusal is   *)
(* one value, NoTarget.  Lengths are counted in tokens.                    *)
(***************************************************************************)
EXTENDS Urls

CONSTANTS MAX_TARGET_LEN, MAX_URL_VALUE_LEN

\* There is room for a short path and a query: the code has 8192 and 2048 bytes.
ASSUME LengthsAssumption == MAX_TARGET_LEN \in Nat \ 0..5 /\ MAX_URL_VALUE_LEN \in Nat

NoTarget == <<>>

\* The verdict of segment_is_safe (module SegmentCheck) on segments of tokens:
\* "..", its escaped spelling and ".", separators, escaped ones, path
\* parameters and malformed escapes are refused.
segment_is_safe(segment) ==
    /\ segment # <<>> /\ ~IsDot(segment) /\ ~IsDotDot(segment)
    /\ \A i \in DOMAIN segment : segment[i] \notin {"\\", "%2f", ";", "%zz"}

path_is_safe(path) ==
    /\ path # <<>> /\ path[1] = "/"
    /\ \A i \in DOMAIN Segments(path) : segment_is_safe(Segments(path)[i])

is_printable_ascii(s) == \A i \in DOMAIN s : s[i] \notin {"TAB", "SPACE"}

Holds(s, tokens) == \E i \in DOMAIN s : s[i] \in tokens

-----------------------------------------------------------------------------
(* Internal redirect.  A target is the request's path and its query, the  *)
(* question mark included.                                                 *)

raw_path_of(base) == From(Tail(base), {"/", "?", "#"})

TrimSlashes(s) ==
    SubSeq(s, 1, Max({0} \cup {i \in DOMAIN s : s[i] # "/"}))

\* F1 to F4
IsPlainTarget(target) ==
    LET whole == target.path \o target.query
    IN  /\ Len(whole) <= MAX_TARGET_LEN
        /\ is_printable_ascii(whole) /\ ~Holds(whole, {"\\"})
        /\ \E top \in {"files", "proxy"} : IsPrefix(<<"/", top, "/">>, target.path)
        /\ path_is_safe(target.path)

\* A slip: any path will do.
KeepsPath_Any(parsed, base, target) == TRUE
KeepsPath(parsed, base, target) ==
    parsed.path = TrimSlashes(raw_path_of(base)) \o target.path

\* F5: the text that goes out is read back as the base and the target.
\* raw_path_of needs a base with "://".
ParsesBack(base, target) ==
    LET home   == Parse(base)
        parsed == Parse(base \o target.path \o target.query)
    IN  /\ home # NoUrl /\ parsed # NoUrl /\ base[1] # "https:/"
        /\ parsed.scheme = home.scheme /\ parsed.host = home.host
        /\ parsed.port = home.port
        /\ parsed.userinfo = <<>> /\ parsed.fragment = <<>>
        /\ KeepsPath(parsed, base, target)

internal_location(base, target) ==
    IF IsPlainTarget(target) /\ ParsesBack(base, target)
    THEN base \o target.path \o target.query
    ELSE NoTarget

-----------------------------------------------------------------------------
(* Allowed prefixes *)

NamesHttps(s) == s # <<>> /\ s[1] \in {"https://", "HTTPS://"}

\* A slip: the entry's path is taken as it was written.
PrefixPath_AsWritten(body) == IF body = <<>> THEN <<"/">> ELSE body

\* The path of an entry ends with a slash, so that it ends on a segment boundary.
PrefixPath(body) == IF body = <<>> THEN <<"/">> ELSE Append(body, "/")

WithoutSlash(s) == IF s # <<>> /\ Last(s) = "/" THEN Front(s) ELSE s

IsPrefixEntry(entry) ==
    LET authority == Upto(Tail(entry), {"/", "?", "#"})
        path      == From(Tail(entry), {"/", "?", "#"})
        parsed    == Parse(entry)
    IN  /\ NamesHttps(entry)
        /\ is_printable_ascii(entry) /\ ~Holds(entry, {"\\"})
        /\ ~Holds(authority, {"@"})
        /\ ~Holds(path, {"?", "#"})
        /\ authority # <<>> /\ ~Holds(authority, {"%63dn"})
        /\ Holds(authority, {":"}) => IsPort(AfterLast(authority, ":"))
        /\ parsed # NoUrl
        /\ parsed.domain /\ ~Holds(parsed.host, {"cdn.", ".int", "*"})
        /\ parsed.port # 0
        /\ parsed.path = (IF path = <<>> THEN <<"/">> ELSE path)
        /\ WithoutSlash(path) = <<>> \/ path_is_safe(WithoutSlash(path))

parse_prefix_entry(entry) ==
    [host |-> Parse(entry).host, port |-> Parse(entry).port,
     path |-> PrefixPath(WithoutSlash(From(Tail(entry), {"/", "?", "#"})))]

-----------------------------------------------------------------------------
(* Redirect to the original URL: the rules U0 to U8 in their order.        *)

\* A slip: a host may be percent-encoded, as a path may.
HOST_TOKENS_Encoded ==
    {"cdn", "CDN", "evil", "cdn.", "127.1", "int", "%63dn"} \cup DOMAIN NUMBERS
HOST_TOKENS == {"cdn", "CDN", "evil", "cdn.", "127.1", "int"} \cup DOMAIN NUMBERS

authority_is_plain(authority) ==
    LET host == Upto(authority, {":"})
        port == From(authority, {":"})
    IN  /\ host # <<>> /\ \A i \in DOMAIN host : host[i] \in HOST_TOKENS
        /\ port # <<>> => IsPort(Tail(port))

IsUnder(entry, parsed, path) ==
    /\ entry.host = parsed.host /\ entry.port = parsed.port
    /\ Len(path) > Len(entry.path) /\ IsPrefix(entry.path, path)

MayBeSentTo(allowed, value) ==
    LET authority == Upto(Tail(value), {"/", "?"})
        path      == Upto(From(Tail(value), {"/", "?"}), {"?"})
        parsed    == Parse(value)
    IN  /\ value # <<>> /\ Len(value) <= MAX_URL_VALUE_LEN
        /\ is_printable_ascii(value)
        /\ NamesHttps(value)
        /\ ~Holds(value, {"\\", "#"})
        /\ authority_is_plain(authority)
        /\ path_is_safe(path)
        /\ parsed # NoUrl /\ parsed.domain
        /\ parsed.scheme = "https" /\ parsed.userinfo = <<>> /\ parsed.fragment = <<>>
        /\ parsed.path = path
        /\ \E entry \in allowed : IsUnder(entry, parsed, path)
        /\ LET again == Parse(Serialised(parsed))
           IN  again # NoUrl /\ Serialised(again) = Serialised(parsed)

\* params holds the values of the keys that decode to "url"; U0 wants one.
original_location(allowed, target) ==
    IF /\ Len(target.path \o target.query) <= MAX_TARGET_LEN
       /\ Len(target.params) = 1
       /\ MayBeSentTo(allowed, target.params[1])
    THEN Serialised(Parse(target.params[1]))
    ELSE NoTarget
=============================================================================
