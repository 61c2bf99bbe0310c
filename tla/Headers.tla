------------------------------ MODULE Headers ------------------------------
(***************************************************************************)
(* Header hygiene (src/headers.rs) and the Accept gate                     *)
(* (src/accept_gate.rs) as operators on header blocks.                     *)
(*                                                                         *)
(* A header block is a function from the lower-case field names that are   *)
(* present to the sequence of the values received for that name, in order, *)
(* which is what http::HeaderMap holds.  A value is split where the code   *)
(* splits it (commas for Connection, semicolons for Content-Type) into     *)
(* trimmed, case-folded parts; `ascii` says whether HeaderValue::to_str    *)
(* accepts it.                                                             *)
(***************************************************************************)
EXTENDS Sequences, Functions

CONSTANT Names  \* the tokens HeaderName::from_bytes accepts, lower-cased

AP_JSON == [ascii |-> TRUE, parts |-> <<"application/activity+json">>]

\* Field names the gate and the filters insert or read are legal field names.
ASSUME NamesAssumption == "accept" \in Names

-----------------------------------------------------------------------------

HOP_BY_HOP ==
    {"connection", "keep-alive", "proxy-authenticate", "proxy-authorization",
     "proxy-connection", "te", "trailer", "transfer-encoding", "upgrade"}

FORWARDING ==
    {"forwarded", "x-forwarded-for", "x-forwarded-host", "x-forwarded-proto",
     "x-forwarded-port", "x-real-ip", "x-client-ip", "cf-connecting-ip",
     "true-client-ip"}

ROUTING_OVERRIDES ==
    {"x-http-method-override", "x-original-url", "x-rewrite-url"}

\* HeaderMap::remove for every name of a set.
Without(h, names) == Restrict(h, DOMAIN h \ names)

\* HeaderMap::get: the first value of a name, if any, when it reads as text.
HasText(h, name) == name \in DOMAIN h /\ h[name][1].ascii

\* The names the Connection values nominate.  A value that is not text is
\* skipped, and so is a token that is not a field name.
Nominated(h) ==
    IF "connection" \notin DOMAIN h THEN {}
    ELSE Names \cap
           UNION { Range(h["connection"][i].parts) :
                     i \in {j \in DOMAIN h["connection"] :
                                h["connection"][j].ascii} }

\* A slip: the nominations are read once Connection itself is gone.
strip_hop_by_hop_Late(h) ==
    LET rest == Without(h, HOP_BY_HOP) IN Without(rest, Nominated(rest))

\* The nominations are read from the block before anything is removed.
strip_hop_by_hop(h) == Without(h, HOP_BY_HOP \cup Nominated(h))

sanitize_request(h) ==
    Without(strip_hop_by_hop(h), FORWARDING \cup ROUTING_OVERRIDES)

\* A slip: the response is relayed with Misskey's own connection fields.
sanitize_response_Missing(h) == h

sanitize_response(h) == strip_hop_by_hop(h)

\* A slip: a type with a parameter (text/html; charset=utf-8) is no page.
is_html_WholeValue(h) ==
    HasText(h, "content-type") /\ h["content-type"][1].parts = <<"text/html">>

is_html(h) ==
    /\ HasText(h, "content-type")
    /\ h["content-type"][1].parts[1] = "text/html"

\* HeaderMap::insert replaces every value of the name by the one given.
Inserted(h, name, value) ==
    [n \in DOMAIN h \cup {name} |-> IF n = name THEN <<value>> ELSE h[n]]

\* A slip: a nomination of Accept survives the gate and removes what it set.
force_ap_accept_Unsanitized(h) == Inserted(h, "accept", AP_JSON)

\* accept_gate::force_ap_accept: the block is sanitized first, so that no
\* nomination is left that could name the Accept inserted after it.
force_ap_accept(h) == Inserted(sanitize_request(h), "accept", AP_JSON)
=============================================================================
