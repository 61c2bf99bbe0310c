-------------------------------- MODULE Urls --------------------------------
(***************************************************************************)
(* How URLs are read, as the code relies on it.  Text is a sequence of     *)
(* tokens: a delimiter, or a run of characters that no reader splits.      *)
(*                                                                         *)
(* Parse is the url crate (WHATWG), with the behaviour that                *)
(* tests/dependency_behavior.rs pins (DB-U1 to DB-U8).  RfcHost and its    *)
(* siblings are a reader that goes by RFC 3986, such as whatever follows a *)
(* Location without being a browser.  Both are external to the code.       *)
(***************************************************************************)
EXTENDS Cuts

NoUrl == [url |-> "none"]

-----------------------------------------------------------------------------
(* Tokens *)

\* What opens a URL, with the scheme the url crate takes it for: any number of
\* slashes will do.
SCHEMES == [t \in {"https://", "HTTPS://", "https:/", "http://"} |->
                IF t = "http://" THEN "http" ELSE "https"]

\* Runs of digits, by the number they spell.
NUMBERS == [t \in {"443", "00443", "8443", "80", "0", "65536"} |->
    CASE t \in {"443", "00443"} -> 443
      [] t = "8443"  -> 8443
      [] t = "80"    -> 80
      [] t = "0"     -> 0
      [] t = "65536" -> 65536]
DefaultPort(scheme) == IF scheme = "https" THEN 443 ELSE 80

\* A host's tokens are lowercased and percent-decoded.
HostToken(t) == CASE t \in {"CDN", "%63dn"} -> "cdn"
                  [] t = "INT"              -> "int"
                  [] OTHER                  -> t

\* A path's and a query's are encoded.
PathToken(t) == CASE t = "\\" -> "/"  [] t = "{" -> "%7B"  [] OTHER -> t
QueryToken(t) == IF t = "'" THEN "%27" ELSE t

-----------------------------------------------------------------------------
(* Cutting text *)

Mapped(s, F(_)) == [i \in DOMAIN s |-> F(s[i])]

Upto(s, stops) ==
    LET hits == {i \in DOMAIN s : s[i] \in stops}
    IN  IF hits = {} THEN s ELSE SubSeq(s, 1, Min(hits) - 1)
From(s, stops) == SubSeq(s, Len(Upto(s, stops)) + 1, Len(s))

AfterLast(s, stop) ==
    LET hits == {i \in DOMAIN s : s[i] = stop}
    IN  IF hits = {} THEN s ELSE SubSeq(s, Max(hits) + 1, Len(s))

AfterSlashes(s) ==
    LET others == {i \in DOMAIN s : s[i] \notin {"/", "\\"}}
    IN  IF others = {} THEN <<>> ELSE SubSeq(s, Min(others), Len(s))

\* The segments of a path that begins with a slash, and back.
Segments(path) == Tail(Split(path, "/"))
Joined(segments) == FlattenSeq([i \in DOMAIN segments |-> <<"/">> \o segments[i]])

-----------------------------------------------------------------------------
(* The url crate *)

IsDot(segment) == segment = <<"%2e">>
IsDotDot(segment) == segment \in {<<"..">>, <<"%2e%2e">>}

\* Dot segments are resolved, and leave an empty one when they come last.
Resolved(path) ==
    LET all == Segments(IF path = <<>> THEN <<"/">> ELSE path)
        upto[n \in 0..Len(all)] ==
            IF n = 0 THEN <<>>
            ELSE LET sofar == upto[n - 1]
                     kept  == CASE IsDotDot(all[n]) /\ sofar # <<>> -> Front(sofar)
                                [] OTHER -> sofar
                 IN  CASE ~IsDot(all[n]) /\ ~IsDotDot(all[n]) -> Append(sofar, all[n])
                       [] OTHER -> IF n = Len(all) THEN Append(kept, <<>>) ELSE kept
    IN  Joined(upto[Len(all)])

\* A host whose last label is a number is an IPv4 address, or an error.
IsNumeric(host) == \A i \in DOMAIN host : host[i] \in DOMAIN NUMBERS \cup {"127.1"}
IsBroken(host) == ~IsNumeric(host) /\ Last(host) = "127.1"

IsPort(tokens) == Len(tokens) = 1 /\ tokens[1] \in DOMAIN NUMBERS

Parse(text) ==
    LET plain     == Without(text, "TAB")
        rest      == IF plain = <<>> THEN <<>> ELSE AfterSlashes(Tail(plain))
        authority == Upto(rest, {"/", "\\", "?", "#"})
        tail      == From(rest, {"/", "\\", "?", "#"})
        userinfo  == SubSeq(authority, 1, Len(authority) - Len(AfterLast(authority, "@")))
        hostport  == AfterLast(authority, "@")
        host      == Mapped(Upto(hostport, {":"}), HostToken)
        port      == From(hostport, {":"})
        query     == From(Upto(tail, {"#"}), {"?"})
    IN  IF \/ plain = <<>> \/ plain[1] \notin DOMAIN SCHEMES
           \/ host = <<>> \/ IsBroken(host)
           \/ /\ port \notin {<<>>, <<":">>}
              /\ IsPort(Tail(port)) => NUMBERS[port[2]] > 65535
        THEN NoUrl
        ELSE [scheme   |-> SCHEMES[plain[1]],
              userinfo |-> IF userinfo = <<"@">> THEN <<>> ELSE userinfo,
              host     |-> host,
              domain   |-> ~IsNumeric(host),
              port     |-> IF Len(port) = 2 THEN NUMBERS[port[2]]
                           ELSE DefaultPort(SCHEMES[plain[1]]),
              path     |-> Resolved(Mapped(Upto(tail, {"?", "#"}), PathToken)),
              query    |-> Mapped(query, QueryToken),
              fragment |-> From(tail, {"#"})]

\* as_str: an explicit port is written only if it is not the default one.
PortText(u) ==
    IF u.port = DefaultPort(u.scheme) THEN <<>>
    ELSE <<":", CHOOSE t \in DOMAIN NUMBERS \ {"00443"} : NUMBERS[t] = u.port>>

Origin(u) == <<IF u.scheme = "https" THEN "https://" ELSE "http://">> \o u.host \o PortText(u)

\* The serialisation of a URL without userinfo.
Serialised(u) == Origin(u) \o u.path \o u.query \o u.fragment

-----------------------------------------------------------------------------
(* A reader that goes by RFC 3986: it knows no backslash and strips nothing *)

RfcAuthority(text) == AfterLast(Upto(Tail(text), {"/", "?", "#"}), "@")
RfcHost(text) == [i \in DOMAIN Upto(RfcAuthority(text), {":"}) |->
                    LET t == RfcAuthority(text)[i]
                    IN  CASE t = "CDN" -> "cdn" [] t = "INT" -> "int" [] OTHER -> t]
RfcPort(text) ==
    LET port == From(RfcAuthority(text), {":"})
    IN  IF Len(port) = 2 /\ IsPort(Tail(port)) THEN NUMBERS[port[2]]
        ELSE DefaultPort(SCHEMES[text[1]])
RfcPath(text) == Upto(From(Tail(text), {"/", "?", "#"}), {"?", "#"})
=============================================================================
