--------------------------- MODULE MediaRedirect ---------------------------
(***************************************************************************)
(* Startup's checks of the media settings (src/config.rs), the requests    *)
(* for /files/* and /proxy/* that rely on them (media_redirect.rs), and    *)
(* the client that follows what it is told.                                *)
(***************************************************************************)
EXTENDS MediaTarget

CONSTANTS
    Settings,   \* texts of INTERNAL_BASE_URL and, as a set, of the entries of
                \* MEDIA_ALLOWED_PREFIXES
    Targets     \* what is asked for: path, query, and the values of url in it

ASSUME SettingsAssumption ==
    Settings \subseteq [base : Seq(STRING), entries : SUBSET Seq(STRING)]
ASSUME TargetsAssumption ==
    /\ Targets \subseteq [path : Seq(STRING), query : Seq(STRING), params : Seq(Seq(STRING))]
    /\ \A t \in Targets : t.query = <<>> \/ Head(t.query) = "?"

VARIABLES
    mode,       \* MEDIA_MODE: "proxy" or "redirect"
    base,       \* INTERNAL_BASE_URL, its trailing slashes trimmed
    entries,    \* MEDIA_ALLOWED_PREFIXES
    allowed,    \* what startup made of the entries
    phase,      \* "starting", "stopped", "serving", "answered" or "followed"
    referer,    \* is the Referer internal?
    target,
    answer,     \* [status, location]
    landing     \* where a client that follows the Location asks

vars == <<mode, base, entries, allowed, phase, referer, target, answer, landing>>

NoAnswer == [status |-> 0, location |-> NoTarget]
Nowhere == [host |-> <<>>, port |-> 0, path |-> <<>>]

-----------------------------------------------------------------------------
(* Startup *)

HasEmptyLabel(host) == Holds(host, {".int"})

\* A slip: what the url crate makes of the base is checked, not its text.
IsCanonical_AsParsed(text) == TRUE
IsCanonical(text) == text = Origin(Parse(text))

validate_internal_base_url(text) ==
    LET url == Parse(text)
    IN  /\ is_printable_ascii(text) /\ ~Holds(text, {"\\"})
        /\ url # NoUrl
        /\ url.userinfo = <<>>
        /\ url.query = <<>> /\ url.fragment = <<>>
        /\ url.path = <<"/">>
        /\ url.port # 0
        /\ ~HasEmptyLabel(url.host)
        /\ IsCanonical(text)

Init ==
    /\ mode \in {"proxy", "redirect"}
    /\ \E s \in Settings : base = TrimSlashes(s.base) /\ entries = s.entries
    /\ allowed = {}
    /\ phase = "starting"
    /\ referer = FALSE
    /\ target = [path |-> <<>>, query |-> <<>>, params |-> <<>>]
    /\ answer = NoAnswer
    /\ landing = Nowhere

Usable ==
    mode = "redirect" =>
        validate_internal_base_url(base) /\ \A e \in entries : IsPrefixEntry(e)

\* Config::from_env; in proxy mode neither setting is looked at.
from_env ==
    /\ phase = "starting"
    /\ Usable
    /\ allowed' = IF mode = "redirect" THEN {parse_prefix_entry(e) : e \in entries} ELSE {}
    /\ phase' = "serving"
    /\ UNCHANGED <<mode, base, entries, referer, target, answer, landing>>

RefuseToStart ==
    /\ phase = "starting"
    /\ ~Usable
    /\ phase' = "stopped"
    /\ UNCHANGED <<mode, base, entries, allowed, referer, target, answer, landing>>

-----------------------------------------------------------------------------
(* A request *)

Settled(status, location) ==
    /\ answer' = [status |-> status, location |-> location]
    /\ phase' = "answered"
    /\ UNCHANGED <<mode, base, entries, allowed, landing>>

SentOn(location) ==
    IF location # NoTarget THEN Settled(302, location) ELSE Settled(404, NoTarget)

RedirectInternally ==
    /\ phase = "serving"
    /\ referer' = TRUE
    /\ \E t \in Targets : target' = t /\ SentOn(internal_location(base, t))

\* The relayed request is answered by Misskey.
Relay ==
    /\ phase = "serving" /\ mode = "proxy"
    /\ referer' = FALSE
    /\ \E t \in Targets : target' = t /\ Settled(200, NoTarget)

RefuseFile ==
    /\ phase = "serving" /\ mode = "redirect"
    /\ referer' = FALSE
    /\ \E t \in Targets :
        IsPrefix(<<"/", "files", "/">>, t.path) /\ target' = t /\ Settled(404, NoTarget)

RedirectToOriginal ==
    /\ phase = "serving" /\ mode = "redirect"
    /\ referer' = FALSE
    /\ \E t \in Targets :
        /\ ~IsPrefix(<<"/", "files", "/">>, t.path)
        /\ target' = t /\ SentOn(original_location(allowed, t))

\* The client follows the Location, and reads it as the url crate does or as
\* RFC 3986 does.
Follow ==
    /\ phase = "answered" /\ answer.status = 302
    /\ LET text == answer.location
           url  == Parse(text)
       IN  landing' \in {[host |-> url.host, port |-> url.port, path |-> url.path],
                         [host |-> RfcHost(text), port |-> RfcPort(text),
                          path |-> RfcPath(text)]}
    /\ phase' = "followed"
    /\ UNCHANGED <<mode, base, entries, allowed, referer, target, answer>>

Next ==
    \/ from_env \/ RefuseToStart
    \/ RedirectInternally \/ Relay \/ RefuseFile \/ RedirectToOriginal
    \/ Follow

Spec == Init /\ [][Next]_vars

-----------------------------------------------------------------------------

\* Where an entry points, as an operator reads it.
Meant(entry) == [host |-> RfcHost(entry), port |-> RfcPort(entry),
                 segments |-> Without(Split(RfcPath(entry), "/"), <<>>)]

\* A caller from outside is only ever sent to an object under an entry of
\* MEDIA_ALLOWED_PREFIXES, read as the operator wrote it: that host, that port,
\* a path that has more segments than the entry's and begins with them, none of
\* which climbs.  This holds for whoever follows, whichever way it reads URLs.
OutsidersStayUnderAPrefix ==
    phase = "followed" /\ ~referer =>
        \E e \in entries :
            LET there == Segments(landing.path)
            IN  /\ landing.host = Meant(e).host /\ landing.port = Meant(e).port
                /\ Len(there) > Len(Meant(e).segments)
                /\ IsPrefix(Meant(e).segments, there)
                /\ \A i \in DOMAIN there : there[i] # <<>> /\ ~IsDotDot(there[i])

\* The host such a caller is sent to is the one its url parameter names to every
\* reader: nothing in it made this code see another host than a log, a filter
\* or an RFC 3986 client sees.
NoReaderIsMisled ==
    phase = "followed" /\ ~referer =>
        landing.host = RfcHost(target.params[1]) /\ landing.port = RfcPort(target.params[1])

\* An internal caller lands at INTERNAL_BASE_URL, at the path it asked for below
\* the base's path as it is written: in redirect mode for every reader, in
\* proxy mode, where startup does not look at the base, for a browser.
InsidersLandAtTheBase ==
    phase = "followed" /\ referer =>
        LET home    == Parse(base)
            browser == Parse(answer.location)
        IN  /\ browser.host = home.host /\ browser.port = home.port
            /\ browser.path = RfcPath(base) \o target.path
            /\ mode = "redirect" => /\ landing.host = home.host /\ landing.port = home.port
                                    /\ landing.path = target.path

\* A base that startup accepted in redirect mode never turns an internal caller
\* away: a plain path under /files/ or /proxy/ gets its redirect.
AcceptedBaseServes ==
    /\ phase = "answered" /\ referer /\ mode = "redirect"
    /\ \E top \in {"files", "proxy"}, name \in {"a", "bucket"} :
        target.path = <<"/", top, "/", name>>
    /\ target.query \in {<<>>, <<"?", "x">>}
    => answer.status = 302
=============================================================================
