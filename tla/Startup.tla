------------------------------ MODULE Startup ------------------------------
(***************************************************************************)
(* Binding the listening Unix socket (src/main.rs: main, bind_unix): the   *)
(* path is looked at, a socket found there is removed, the path is bound   *)
(* and its mode set, each a system call of its own, by processes that can  *)
(* be killed between any two of them and are started again by the service  *)
(* manager (docker-compose.yml: restart: unless-stopped).                  *)
(*                                                                         *)
(* A socket file outlives the process that made it, and a process goes on  *)
(* listening on a socket whose file is gone, where nobody can dial it.     *)
(***************************************************************************)
EXTENDS Naturals

CONSTANTS
    Instances,   \* processes configured with the same path
    MaxStarts,   \* bound: how often the instances are started in all
    Overlaps     \* whether an instance may be started while another lives:
                 \* {FALSE}, {TRUE}, or both to leave it open

ASSUME StartupAssumption == MaxStarts \in Nat /\ Overlaps \subseteq BOOLEAN

VARIABLES
    pc,      \* [Instances -> the next system call of the instance]
    file,    \* what is at the path
    starts,  \* how many starts there have been
    overlap  \* what the service manager does, from the outset

vars == <<pc, file, starts, overlap>>

\* What can be at the path: nothing, a file that is no socket, or a socket
\* with the instance that bound it and its mode.
Nothing == [kind |-> "nothing"]
RegularFile == [kind |-> "file"]
Socket(i) == [kind |-> "socket", owner |-> i, mode |-> "umask"]

\* Past bind, an instance listens on the socket it made.
Listening == {i \in Instances : pc[i] \in {"chmod", "serve"}}
Alive == {i \in Instances : pc[i] \notin {"down", "failed"}}

Init ==
    /\ pc = [i \in Instances |-> "down"]
    /\ file \in {Nothing, RegularFile}
    /\ starts = 0
    /\ overlap \in Overlaps

Goto(i, call) == pc' = [pc EXCEPT ![i] = call]

Start(i) ==
    /\ pc[i] \in {"down", "failed"} /\ starts < MaxStarts
    /\ overlap \/ Alive = {}
    /\ starts' = starts + 1
    /\ Goto(i, "lstat")
    /\ UNCHANGED <<file, overlap>>

-----------------------------------------------------------------------------
(* bind_unix *)

\* A slip: whatever exists at the path is taken for a stale socket.
Lstat_AnyKind(i) ==
    /\ pc[i] = "lstat"
    /\ Goto(i, IF file.kind = "nothing" THEN "bind" ELSE "remove")
    /\ UNCHANGED <<file, starts, overlap>>

\* A slip: the path is bound as it is found.
Lstat_NoCleanup(i) ==
    /\ pc[i] = "lstat"
    /\ Goto(i, IF file.kind = "file" THEN "failed" ELSE "bind")
    /\ UNCHANGED <<file, starts, overlap>>

Lstat(i) ==
    /\ pc[i] = "lstat"
    /\ Goto(i, CASE file.kind = "socket"  -> "remove"
                 [] file.kind = "file"    -> "failed"
                 [] file.kind = "nothing" -> "bind")
    /\ UNCHANGED <<file, starts, overlap>>

\* Whatever is at the path now; a failure is ignored.
Remove(i) ==
    /\ pc[i] = "remove"
    /\ file' = Nothing
    /\ Goto(i, "bind")
    /\ UNCHANGED <<starts, overlap>>

Bind(i) ==
    /\ pc[i] = "bind"
    /\ IF file = Nothing
       THEN file' = Socket(i) /\ Goto(i, "chmod")
       ELSE Goto(i, "failed") /\ UNCHANGED file
    /\ UNCHANGED <<starts, overlap>>

\* A slip: the mode is left to the umask.
SetPermissions_Skipped(i) ==
    pc[i] = "chmod" /\ Goto(i, "serve") /\ UNCHANGED <<file, starts, overlap>>

\* By path, not by descriptor: the mode of whatever is there now is set.
SetPermissions(i) ==
    /\ pc[i] = "chmod"
    /\ IF file.kind = "nothing"
       THEN Goto(i, "failed") /\ UNCHANGED file
       ELSE /\ file' = IF file.kind = "socket"
                       THEN [file EXCEPT !.mode = "configured"] ELSE file
            /\ Goto(i, "serve")
    /\ UNCHANGED <<starts, overlap>>

Kill(i) ==
    /\ i \in Alive /\ starts < MaxStarts
    /\ Goto(i, "down")
    /\ UNCHANGED <<file, starts, overlap>>

-----------------------------------------------------------------------------

Boot(i) == Lstat(i) \/ Remove(i) \/ Bind(i) \/ SetPermissions(i)

Next == \E i \in Instances : Start(i) \/ Boot(i) \/ Kill(i)

Spec == Init /\ [][Next]_vars

\* A process runs, and the service manager restarts what is down.
FairSpec == Spec /\ \A i \in Instances : WF_vars(Boot(i))
                 /\ WF_vars(\E j \in Instances : Start(j))

-----------------------------------------------------------------------------
(* Properties *)

\* Every variable stays in its domain.
TypeOK ==
    /\ pc \in [Instances -> {"down", "failed", "lstat", "remove", "bind",
                             "chmod", "serve"}]
    /\ file \in {Nothing, RegularFile} \cup
         [kind : {"socket"}, owner : Instances, mode : {"umask", "configured"}]
    /\ starts \in 0 .. MaxStarts
    /\ overlap \in Overlaps

\* Whether dialling the path reaches i.
Reachable(i) ==
    /\ i \in Listening /\ file.kind = "socket" /\ file.owner = i
    /\ file.mode = "configured"

\* As long as no two instances run at once, one that is done starting can be
\* dialled, by the terminator that runs as another user too; kills and stale
\* sockets on the way do not matter.
ServingIsReachable ==
    ~overlap => \A i \in Instances : pc[i] = "serve" => Reachable(i)

\* What is not a socket is never removed or written over ("refusing to bind"),
\* whether the instances overlap or not.
OtherFilesAreKept == [][file = RegularFile => file' = RegularFile]_vars

\* With one instance at a time, a path that is free or holds a stale socket
\* ends up served for good, however often the process was killed on the way.
EventuallyServed ==
    ~overlap /\ file # RegularFile => <>[](\E i \in Instances : Reachable(i))

\* "clearing a stale one left behind by an unclean exit" (src/main.rs:76): a
\* socket that is removed has no listener.
OnlyStaleSocketsAreCleared ==
    [][file.kind = "socket" /\ file'.kind = "nothing"
          => file.owner \notin Listening]_vars
=============================================================================
