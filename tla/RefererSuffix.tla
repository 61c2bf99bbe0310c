--------------------------- MODULE RefererSuffix ---------------------------
(***************************************************************************)
(* INTERNAL_REFERER_SUFFIX from the environment to a verdict on a Referer: *)
(* config::parse_referer_suffix at startup, then                           *)
(* media_redirect::host_is_internal on the host of each Referer.  Text is  *)
(* a sequence of characters; a host is also the sequence of its labels,    *)
(* which is what the operator and the callers mean by it.                  *)
(***************************************************************************)
EXTENDS Cuts

CONSTANTS
    Raw,       \* what the variable may hold
    Hosts,     \* the label sequences of the hosts of Referers
    NoHost     \* a Referer that is missing, no text, no URL or without a host

\* "a" stands for the letters that are hexadecimal digits, "x" for the others
\* and the hyphen, "xn--" for the beginning of a label that is no punycode of
\* anything; "A" is the capital of "a", "/" every character that no host holds.
DIGITS == {"0", "1"}
LabelChars == DIGITS \cup {"a", "x", "xn--"}
lowercase == [c \in LabelChars \cup {"A", ".", "/", " "} |->
                 IF c = "A" THEN "a" ELSE c]

ASSUME RawAssumption == Raw \subseteq Seq(DOMAIN lowercase)
ASSUME HostsAssumption == Hosts \subseteq Seq(Seq(LabelChars)) \ {<<>>}
ASSUME NoHostAssumption == NoHost \notin Hosts

VARIABLES
    raw,        \* INTERNAL_REFERER_SUFFIX
    suffix,     \* what startup made of it, or <<>>
    phase,      \* "starting", "stopped", "waiting" or "answered"
    referer,    \* the Referer's host
    internal    \* the verdict on it

suffixVars == <<raw, suffix, phase, referer, internal>>

-----------------------------------------------------------------------------

\* The texts between the dots of s.
Labels(s) == Split(s, ".")

\* A Referer's host as the url crate writes it.
Text(labels) ==
    LET upto[k \in 1..Len(labels)] ==
            IF k = 1 THEN labels[1] ELSE upto[k - 1] \o <<".">> \o labels[k]
    IN  upto[Len(labels)]

trimmed(s) ==
    LET kept == {i \in DOMAIN s : s[i] # " "}
    IN  IF kept = {} THEN <<>> ELSE SubSeq(s, Min(kept), Max(kept))

normalised(s) == [i \in DOMAIN trimmed(s) |-> lowercase[trimmed(s)[i]]]

OnlyDots(s) == \A i \in DOMAIN s : s[i] = "."

\* One leading and one trailing dot are not labels of their own.
Inner(s) ==
    LET after == IF s # <<>> /\ Head(s) = "." THEN Tail(s) ELSE s
    IN  IF after # <<>> /\ Last(after) = "." THEN Front(after) ELSE after

\* A slip: any characters pass.
IsSuffixSetting_AnyCharacters(s) ==
    ~OnlyDots(s) /\ <<>> \notin ToSet(Labels(Inner(s)))

\* Letters, digits, hyphens and dots, in labels that are not empty: what the
\* letters and digits spell is not looked at.
IsSuffixSetting(s) ==
    /\ ~OnlyDots(s)
    /\ \A i \in DOMAIN s : s[i] \in LabelChars \cup {"."}
    /\ <<>> \notin ToSet(Labels(Inner(s)))

\* A slip: without the leading dot, any ending matches.
host_is_internal_AnyEnding(host, s) == ~OnlyDots(s) /\ IsSuffix(s, host)

host_is_internal(host, s) ==
    /\ ~OnlyDots(s)
    /\ IsSuffix(s, host)
    /\ LET rest == SubSeq(host, 1, Len(host) - Len(s))
       IN  Head(s) = "." \/ rest = <<>> \/ Last(rest) = "."

-----------------------------------------------------------------------------

SuffixInit ==
    /\ raw \in Raw
    /\ suffix = <<>>
    /\ phase = "starting"
    /\ referer = NoHost
    /\ internal = FALSE

parse_referer_suffix ==
    /\ phase = "starting"
    /\ \/ /\ IsSuffixSetting(normalised(raw))
          /\ suffix' = normalised(raw)
          /\ phase' = "waiting"
       \/ /\ ~IsSuffixSetting(normalised(raw))
          /\ phase' = "stopped"
          /\ UNCHANGED suffix
    /\ UNCHANGED <<raw, referer, internal>>

referer_is_internal ==
    /\ phase = "waiting"
    /\ referer' \in Hosts \cup {NoHost}
    /\ internal' = (referer' # NoHost /\ host_is_internal(Text(referer'), suffix))
    /\ phase' = "answered"
    /\ UNCHANGED <<raw, suffix>>

SuffixNext == parse_referer_suffix \/ referer_is_internal

SuffixSpec == SuffixInit /\ [][SuffixNext]_suffixVars

-----------------------------------------------------------------------------

\* What the operator named: the labels, with an empty one for a trailing dot.
Named(s) == IF Head(s) = "." THEN Labels(Tail(s)) ELSE Labels(s)

\* A Referer counts as internal exactly if its host is one under the labels the
\* operator named, or those very labels when the setting has no leading dot: on
\* label boundaries, whatever the ends of the two texts have in common
\* otherwise (notyour-tailnet.ts.net is not under your-tailnet.ts.net).
InternalMeansUnderTheName ==
    phase = "answered" =>
        (internal <=>
            /\ referer # NoHost
            /\ IsSuffix(Named(suffix), referer)
            /\ Head(suffix) = "." => Len(referer) > Len(Named(suffix)))

(* The url crate (external): the hosts that an http(s) Referer can have.  A   *)
(* host whose last label is a number is an IPv4 address or none, and a label *)
(* in punycode has to be one of something.  The hosts of other schemes are   *)
(* not looked at, and empty labels are kept.                                 *)

IsNumber(label) ==
    \/ label # <<>> /\ \A i \in DOMAIN label : label[i] \in DIGITS
    \/ /\ Len(label) >= 2 /\ label[1] = "0" /\ label[2] = "x"
       /\ \A i \in 3..Len(label) : label[i] \in DIGITS \cup {"a"}

EndsInNumber(h) ==
    LET n == Len(h)
    IN  \/ IsNumber(h[n])
        \/ n > 1 /\ h[n] = <<>> /\ IsNumber(h[n - 1])

IsName(h) ==
    /\ ~EndsInNumber(h)
    /\ \A i \in DOMAIN h : h[i] = <<>> \/ h[i][1] # "xn--"

\* In decimal: three digits of DIGITS are below 256.
IsOctet(label) ==
    /\ Len(label) \in 1..3 /\ \A i \in DOMAIN label : label[i] \in DIGITS
    /\ label[1] = "0" => Len(label) = 1
IsAddress(h) == Len(h) = 4 /\ \A i \in 1..4 : IsOctet(h[i])

IsHost(h) == h \in Seq(Seq(LabelChars)) /\ (IsName(h) \/ IsAddress(h))

-----------------------------------------------------------------------------

\* What to write before the labels that were named to get a host under them: a
\* name, or what an address lacks.
Pads == {<<>>, << <<"a">> >>, << <<"1">> >>, << <<"1">>, <<"1">> >>,
         << <<"1">>, <<"1">>, <<"1">> >>}

\* Some Referer would count as internal.
CanMatch(s) ==
    \E pad \in Pads : /\ IsHost(pad \o Named(s))
                      /\ host_is_internal(Text(pad \o Named(s)), s)

\* No setting that is a name is lost: if startup accepts it, there is a host
\* under it, whatever letters, digits, dots and capitals the operator wrote.
\* And CanMatch overlooks nothing: a setting that an actual Referer matches,
\* by its name or by its address, is one that it says can be matched.
NamesCanMatch ==
    /\ phase = "waiting" /\ IsName(Named(suffix)) => CanMatch(suffix)
    /\ phase = "answered" /\ internal /\ IsHost(referer) => CanMatch(suffix)

\* A setting that could not be a host, or a part of one, "would never match
\* and switch the internal redirect off without a word" (config.rs:182-185),
\* so startup accepts none.
SettingCanMatch == phase = "waiting" => CanMatch(suffix)
=============================================================================
