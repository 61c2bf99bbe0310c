------------------------------ MODULE Landing ------------------------------
(***************************************************************************)
(* The files of the landing page (src/home.rs): read_override looks into   *)
(* STATIC_DIR on every request and takes the bundled copy when the read    *)
(* fails in any way, while the operator replaces, overwrites and removes   *)
(* files there and a shared cache keeps what Cache-Control lets it.        *)
(*                                                                         *)
(* A behaviour follows one of the three files.  Its content is two halves, *)
(* each with the number of the version it is from: a file is longer than   *)
(* one read takes.  Version 0 is the bundled copy.                         *)
(***************************************************************************)
EXTENDS Naturals, Sequences

CONSTANTS
    Files,       \* which of the three files to follow
    Readers,     \* requests at a time
    MaxVersion,  \* bound: how many versions the operator writes
    LastDay,     \* bound: how many days a behaviour has
    Week,        \* 604800 seconds, in days
    Nobody       \* no stored answer, nothing read, never

ASSUME LandingAssumption ==
    /\ Files \subseteq {"index.html", "misskey.svg", "icon.webp"}
    /\ MaxVersion \in Nat /\ LastDay \in Nat /\ Week \in Nat \ {0}
    /\ Nobody \notin Nat

VARIABLES
    file,     \* which file is followed
    inplace,  \* whether its operator ever overwrites it where it is
    content,  \* what is in each file the operator has made, by its number
    path,     \* the number of the file under the name, or 0
    today,
    phase,    \* [Readers -> "idle", "asked", "reading" or "read"]
    handle,   \* the number of the file that the handler has open
    body,     \* what the handler has read
    asked,    \* the day of the request
    given,    \* the last body the caller got, or Nobody
    store,    \* the cache's copy and the day it was asked for, or Nobody
    found,    \* the last day on which a read could yield a half
    since     \* the halves a read could yield since the request was made

disk == <<content, path, found>>
landingVars == <<file, inplace, disk, today, phase, handle, body, asked,
                 given, store, since>>

Versions == 0 .. MaxVersion
Whole(v) == <<v, v>>
Bundled == Whole(0)
HalvesOf(text) == {<<i, text[i]>> : i \in DOMAIN text}

\* What somebody finds who looks for the file now.
Current == HalvesOf(IF path = 0 THEN Bundled ELSE content[path])

\* Every change of what is there to be found is noted.
Noted(halves, day) ==
    /\ found' = [h \in DOMAIN found |-> IF h \in halves THEN day ELSE found[h]]
    /\ since' = [r \in Readers |->
                    IF phase[r] = "idle" THEN since[r] ELSE since[r] \cup halves]

LandingInit ==
    /\ file \in Files
    /\ inplace \in BOOLEAN
    /\ content = << >> /\ path = 0
    /\ today = 0
    /\ phase = [r \in Readers |-> "idle"]
    /\ handle = [r \in Readers |-> 0]
    /\ body = [r \in Readers |-> << >>]
    /\ asked = [r \in Readers |-> 0]
    /\ given = [r \in Readers |-> Nobody]
    /\ store = Nobody
    /\ found = [h \in {1, 2} \X Versions |->
                   IF h[2] = 0 THEN 0 ELSE Nobody]
    /\ since = [r \in Readers |-> {}]

-----------------------------------------------------------------------------
(* The operator *)

Disk(newContent, newPath) ==
    /\ content' = newContent /\ path' = newPath
    /\ Noted(Current', today)
    /\ UNCHANGED <<file, inplace, today, phase, handle, body, asked, given,
                   store>>

\* A whole new file takes the name over: rename.
PutInPlaceOf ==
    /\ Len(content) < MaxVersion
    /\ Disk(Append(content, Whole(Len(content) + 1)), Len(content) + 1)

\* The file under the name is opened for writing, and filled in two writes.
\* (The number of the version is that of the file it would have been.)
Truncate ==
    /\ inplace /\ path # 0 /\ Len(content) < MaxVersion
    /\ Disk([Append(content, << >>) EXCEPT ![path] = << >>], path)

WriteOn ==
    /\ inplace /\ path # 0 /\ Len(content[path]) < 2
    /\ Disk([content EXCEPT ![path] = Append(@, Len(content))], path)

RemoveFile ==
    /\ path # 0
    /\ Disk(content, 0)

NextDay ==
    /\ today < LastDay
    /\ today' = today + 1
    /\ Noted(Current, today + 1)
    /\ UNCHANGED <<file, inplace, content, path, phase, handle, body, asked,
                   given, store>>

-----------------------------------------------------------------------------
(* The cache: it may keep an asset for Week days from the day it asked for
   it.  The page is no-cache: there is no validator in the answer, so it is
   fetched again each time.  Slips: all three are public; longer. *)

Lifetime_Shared(name) == Week
Lifetime_Longer(name) == IF name = "index.html" THEN 0 ELSE Week + 1
Lifetime(name) == IF name = "index.html" THEN 0 ELSE Week

Fresh == store # Nobody /\ today < store.day + Lifetime(file)

AskCache(r) ==
    /\ phase[r] = "idle" /\ Fresh
    /\ given' = [given EXCEPT ![r] = store.body]
    /\ asked' = [asked EXCEPT ![r] = today]
    /\ since' = [since EXCEPT ![r] = Current]
    /\ UNCHANGED <<file, inplace, disk, today, phase, handle, body, store>>

-----------------------------------------------------------------------------
(* The handlers.  A request is drained first, which takes its time. *)

AskProxy(r) ==
    /\ phase[r] = "idle" /\ ~Fresh
    /\ phase' = [phase EXCEPT ![r] = "asked"]
    /\ asked' = [asked EXCEPT ![r] = today]
    /\ given' = [given EXCEPT ![r] = Nobody]
    /\ since' = [since EXCEPT ![r] = Current]
    /\ UNCHANGED <<file, inplace, disk, today, handle, body, store>>

HasRead(r, text) ==
    /\ body' = [body EXCEPT ![r] = text]
    /\ phase' = [phase EXCEPT ![r] = "read"]
    /\ handle' = [handle EXCEPT ![r] = 0]

\* tokio::fs::read opens the file, if there is one, ...
Open(r) ==
    /\ phase[r] = "asked"
    /\ IF path = 0
       THEN HasRead(r, Bundled)
       ELSE /\ phase' = [phase EXCEPT ![r] = "reading"]
            /\ handle' = [handle EXCEPT ![r] = path]
            /\ UNCHANGED body
    /\ UNCHANGED <<file, inplace, disk, today, asked, given, store, since>>

\* ... and reads what it has opened.  A slip: what has the name by then.
Source_ByName(r) == IF path = 0 THEN << >> ELSE content[path]
Source(r) == content[handle[r]]

Read(r) ==
    /\ phase[r] = "reading"
    /\ IF Len(body[r]) < Len(Source(r))
       THEN /\ body' = [body EXCEPT ![r] = Append(@, Source(r)[Len(@) + 1])]
            /\ UNCHANGED <<phase, handle>>
       ELSE HasRead(r, body[r])
    /\ UNCHANGED <<file, inplace, disk, today, asked, given, store, since>>

\* Any error will do for the bundled copy: what has been read is dropped.
ReadFails(r) ==
    /\ phase[r] \in {"asked", "reading"}
    /\ HasRead(r, Bundled)
    /\ Noted(HalvesOf(Bundled), today)
    /\ UNCHANGED <<file, inplace, content, path, today, asked, given, store>>

\* The answer goes out, through the cache.
Serve(r) ==
    /\ phase[r] = "read"
    /\ given' = [given EXCEPT ![r] = body[r]]
    /\ store' = [body |-> body[r], day |-> asked[r]]
    /\ phase' = [phase EXCEPT ![r] = "idle"]
    /\ body' = [body EXCEPT ![r] = << >>]
    /\ UNCHANGED <<file, inplace, disk, today, handle, asked, since>>

Operator == PutInPlaceOf \/ Truncate \/ WriteOn \/ RemoveFile
Handler(r) == Open(r) \/ Read(r) \/ ReadFails(r) \/ Serve(r)

LandingNext ==
    \/ Operator \/ NextDay
    \/ \E r \in Readers : AskCache(r) \/ AskProxy(r) \/ Handler(r)

LandingSpec == LandingInit /\ [][LandingNext]_landingVars

-----------------------------------------------------------------------------
(* Properties *)

Got(r) == given[r] # Nobody

\* An operator who never writes into a file in place never has two versions
\* mixed, nor half of one, however a request and a replacement interleave.
OneVersionPerAnswer == \A r \in Readers :
    Got(r) /\ ~inplace => \E v \in Versions : given[r] = Whole(v)

\* The page that a caller gets was there while it was asked for, though there
\* is a cache in between: a new page is seen at once.
PageIsCurrent == \A r \in Readers :
    Got(r) /\ file = "index.html" => HalvesOf(given[r]) \subseteq since[r]

\* Whatever was amiss when an asset was read, a file half-way written, one
\* that is not there for a moment, an error, is forgotten in a week.
MistakesAgeOut == \A r \in Readers :
    Got(r) => \A h \in HalvesOf(given[r]) :
                  found[h] # Nobody /\ asked[r] < found[h] + Week
=============================================================================
