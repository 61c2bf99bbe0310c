-------------------------- MODULE MCMediaRedirect --------------------------
(***************************************************************************)
(* Settings and targets for TLC.  Every authority of up to MaxAuthority    *)
(* tokens is tried in the url parameter, and every combination of opening, *)
(* path and query on the authorities that may be allowed.                  *)
(***************************************************************************)
EXTENDS MediaRedirect

CONSTANT MaxAuthority

bases ==
    {<<"https://", "int">> \o rest : rest \in
        {<<>>, <<"/">>, <<":", "8443">>, <<":", "443">>, <<":", "00443">>, <<":", "0">>,
         <<"/", "..">>, <<"/", "%2e">>, <<"/", "%2e%2e", "/">>, <<"/", "bucket">>,
         <<"?", "x">>, <<"#">>, <<"\\", "bucket">>, <<"TAB">>, <<"\\", "@", "evil">>}}
    \cup {<<"http://", "int">>, <<"http://", "int", ":", "443">>, <<"HTTPS://", "int">>,
          <<"https://", "INT">>, <<"https:/", "int">>, <<"https://", "a", "@", "int">>,
          <<"https://", "@", "int">>, <<"https://", ".int">>, <<"https://", "127.1">>, <<"int">>}

good == {<<"https://", "cdn", "/", "bucket">>,
         <<"HTTPS://", "CDN", ":", "8443", "/">>,
         <<"https://", "cdn", ":", "00443", "/", "bucket", "/", "a", "/">>}
bad == {<<"http://", "cdn">>, <<"https://", "cdn", "?">>, <<"https://", "a", "@", "cdn">>,
        <<"https://", "cdn", "/", "..">>, <<"https://", "127.1">>, <<"https://", "cdn.">>,
        <<"https://", "cdn", ":", "0">>, <<"https://", "cdn", "/", "bucket", "/", "/">>}

\* Each base with the good entries, each list with one base.
MCSettings ==
    {[base |-> b, entries |-> good] : b \in bases}
    \cup {[base |-> <<"https://", "int">>, entries |-> list] :
            list \in {{}} \cup {{e} : e \in good \cup bad}}

Value(opening, authority, path, query) == <<opening>> \o authority \o path \o query

object == <<"/", "bucket", "/", "a">>

authorities == BoundedSeq({"cdn", "CDN", "evil", "@", ":", "\\", "#", "/", "?",
                           "8443", "%63dn", "TAB", "127.1"}, MaxAuthority)

paths == {<<>>, <<"/">>, <<"/", "bucket">>, <<"/", "bucket", "/">>, object,
          <<"/", "bucket", "evil", "/", "a">>, <<"/", "bucket", "/", "a", "/", "a">>,
          <<"/", "bucket", "/", "/", "a">>, <<"/", "bucket", "/", "..", "/", "a">>,
          <<"/", "bucket", "/", "%2e%2e", "/", "a">>, <<"/", "bucket", "/", "%2f">>,
          <<"/", "bucket", "/", "a", "{">>, <<"/", "bucket", "\\", "a">>,
          <<"/", "bucket", "/", "a", ";">>, <<"/", "bucket", "/", "a", "TAB">>}

queries == {<<>>, <<"?">>, <<"?", "x", "'">>, <<"?", "..", "/">>, <<"#">>, <<"?", "SPACE">>}

plainAuthorities == {<<"cdn">>, <<"CDN", ":", "8443">>, <<"cdn", ":", "65536">>, <<"cdn.">>,
                     <<"cdn", ":", "00443">>}

values ==
    {<<>>}
    \cup {Value("https://", a, object, <<>>) : a \in authorities}
    \cup {Value(o, a, p, q) : o \in DOMAIN SCHEMES, a \in plainAuthorities,
                              p \in paths, q \in queries}

proxied(params) == [path |-> <<"/", "proxy", "/", "a">>, query |-> <<"?", "x">>,
                    params |-> params]

MCTargets ==
    {proxied(<<>>), proxied(<<Value("https://", <<"cdn">>, object, <<>>),
                              Value("https://", <<"evil">>, object, <<>>)>>)}
    \cup {proxied(<<v>>) : v \in values}
    \cup {[path |-> <<"/", top, "/">> \o p, query |-> q, params |-> <<>>] :
            top \in {"files", "proxy"}, q \in {<<>>, <<"?", "x">>, <<"?", "TAB">>},
            p \in {<<"a">>, <<"bucket">>, <<"..", "/", "a">>, <<"%2e%2e">>, <<"/", "a">>,
                   <<"a", "/">>, <<"a", ";">>, <<"{">>, <<"\\">>, <<"%zz">>, <<>>,
                   <<"a", "/", "a", "/", "a", "/", "a">>}}
=============================================================================
