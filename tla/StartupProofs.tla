--------------------------- MODULE StartupProofs ---------------------------
(***************************************************************************)
(* Proofs about Startup.tla, for any number of instances and of starts.    *)
(***************************************************************************)
EXTENDS Startup, TLAPS

Calls == {"down", "failed", "lstat", "remove", "bind", "chmod", "serve"}

\* An instance goes on to remove or to bind only where no other kind of file
\* was at the path, and none of the instances puts one there.
NobodyTouchesAFile ==
    file = RegularFile =>
        \A i \in Instances : pc[i] \in {"down", "failed", "lstat"}

\* With one instance at a time, what is bound stays at the path.
OneAlive == \A i, j \in Alive : i = j

OwnSocket ==
    \A i \in Instances :
        /\ pc[i] = "chmod" => file.kind = "socket" /\ file.owner = i
        /\ pc[i] = "serve" => Reachable(i)

KindInv == TypeOK /\ NobodyTouchesAFile
Inv == TypeOK /\ (~overlap => OneAlive /\ OwnSocket)

LEMMA FileKinds ==
    /\ Nothing.kind = "nothing" /\ RegularFile.kind = "file"
    /\ \A i : /\ Socket(i).kind = "socket" /\ Socket(i).owner = i
              /\ Socket(i).mode = "umask"
  BY DEF Nothing, RegularFile, Socket

\* A file is told by its kind.
LEMMA KindTells ==
    ASSUME TypeOK
    PROVE  /\ file.kind \in {"nothing", "file", "socket"}
           /\ file.kind = "nothing" <=> file = Nothing
           /\ file.kind = "file" <=> file = RegularFile
  BY FileKinds DEF TypeOK, Nothing, RegularFile

LEMMA InitTypeOK == Init => TypeOK
  BY StartupAssumption DEF Init, TypeOK

LEMMA NextTypeOK == TypeOK /\ [Next]_vars => TypeOK'
<1> SUFFICES ASSUME TypeOK, [Next]_vars PROVE TypeOK'
  OBVIOUS
<1> USE StartupAssumption DEF TypeOK, Goto
<1>1. ASSUME NEW i \in Instances, Start(i) PROVE TypeOK'
  BY <1>1 DEF Start
<1>2. ASSUME NEW i \in Instances, Lstat(i) PROVE TypeOK'
  BY <1>2, KindTells DEF Lstat
<1>3. ASSUME NEW i \in Instances, Remove(i) PROVE TypeOK'
  BY <1>3 DEF Remove
<1>4. ASSUME NEW i \in Instances, Bind(i) PROVE TypeOK'
  <2>1. Socket(i) \in [kind : {"socket"}, owner : Instances,
                       mode : {"umask", "configured"}]
    BY DEF Socket
  <2> QED
    BY <1>4, <2>1 DEF Bind
<1>5. ASSUME NEW i \in Instances, SetPermissions(i) PROVE TypeOK'
  <2>1. CASE file.kind = "socket"
    <3>1. file \in [kind : {"socket"}, owner : Instances,
                    mode : {"umask", "configured"}]
      BY <2>1, FileKinds
    <3> QED
      BY <1>5, <2>1, <3>1 DEF SetPermissions
  <2>2. CASE file.kind # "socket"
    BY <1>5, <2>2 DEF SetPermissions
  <2> QED
    BY <2>1, <2>2
<1>6. ASSUME NEW i \in Instances, Kill(i) PROVE TypeOK'
  BY <1>6 DEF Kill
<1>7. CASE UNCHANGED vars
  BY <1>7 DEF vars
<1> QED
  BY <1>1, <1>2, <1>3, <1>4, <1>5, <1>6, <1>7 DEF Next, Boot

-----------------------------------------------------------------------------

LEMMA NextKind == KindInv /\ [Next]_vars =>
    NobodyTouchesAFile' /\ (file = RegularFile => file' = RegularFile)
<1> SUFFICES ASSUME KindInv, [Next]_vars
             PROVE  /\ NobodyTouchesAFile'
                    /\ file = RegularFile => file' = RegularFile
  OBVIOUS
<1>0. /\ pc \in [Instances -> Calls]
      /\ file.kind = "nothing" <=> file = Nothing
      /\ file.kind = "file" <=> file = RegularFile
      /\ Nothing # RegularFile
      /\ \A i : Socket(i) # RegularFile
  BY KindTells, FileKinds DEF KindInv, TypeOK, Calls
<1> DEFINE Goal == /\ NobodyTouchesAFile'
                   /\ file = RegularFile => file' = RegularFile
<1> USE <1>0 DEF KindInv, NobodyTouchesAFile, Goto
<1>1. ASSUME NEW i \in Instances, Start(i) PROVE Goal
  BY <1>1 DEF Start
<1>2. ASSUME NEW i \in Instances, Lstat(i) PROVE Goal
  BY <1>2 DEF Lstat
<1>3. ASSUME NEW i \in Instances, Remove(i) PROVE Goal
  BY <1>3 DEF Remove
<1>4. ASSUME NEW i \in Instances, Bind(i) PROVE Goal
  BY <1>4 DEF Bind
<1>5. ASSUME NEW i \in Instances, SetPermissions(i) PROVE Goal
  <2>1. file # RegularFile
    BY <1>5 DEF SetPermissions
  <2>2. file'.kind = file.kind
    <3>1. CASE file.kind = "socket"
      <4>1. file \in [kind : {"socket"}, owner : Instances,
                      mode : {"umask", "configured"}]
        BY <3>1, FileKinds DEF TypeOK
      <4> QED
        BY <1>5, <3>1, <4>1 DEF SetPermissions
    <3>2. CASE file.kind # "socket"
      BY <1>5, <3>2 DEF SetPermissions
    <3> QED
      BY <3>1, <3>2
  <2>3. file' # RegularFile
    BY <2>1, <2>2, FileKinds
  <2> QED
    BY <2>1, <2>3
<1>6. ASSUME NEW i \in Instances, Kill(i) PROVE Goal
  BY <1>6 DEF Kill
<1>7. CASE UNCHANGED vars
  BY <1>7 DEF vars
<1> QED
  BY <1>1, <1>2, <1>3, <1>4, <1>5, <1>6, <1>7 DEF Next, Boot

LEMMA KindHolds == Spec => []KindInv
<1>1. Init => KindInv
  BY InitTypeOK DEF Init, KindInv, NobodyTouchesAFile
<1>2. KindInv /\ [Next]_vars => KindInv'
  BY NextTypeOK, NextKind DEF KindInv
<1> QED
  BY <1>1, <1>2, PTL DEF Spec

\* A path that holds something else than a socket is never removed or bound
\* over (main.rs: "refusing to bind"), whatever the instances do, together or
\* one after the other, and wherever they are killed.
THEOREM FilesAreKept == Spec => OtherFilesAreKept
<1>1. KindInv /\ [Next]_vars => [file = RegularFile => file' = RegularFile]_vars
  BY NextKind
<1> QED
  BY <1>1, KindHolds, PTL DEF Spec, OtherFilesAreKept

-----------------------------------------------------------------------------

LEMMA NextOwn == Inv /\ [Next]_vars /\ ~overlap' => OneAlive' /\ OwnSocket'
<1> SUFFICES ASSUME Inv, [Next]_vars, ~overlap'
             PROVE  OneAlive' /\ OwnSocket'
  OBVIOUS
<1>a. ~overlap
  BY DEF Next, Boot, Start, Lstat, Remove, Bind, SetPermissions, Kill, vars
<1>0. /\ pc \in [Instances -> Calls]
      /\ file.kind = "nothing" <=> file = Nothing
      /\ file.kind \in {"nothing", "file", "socket"}
  BY KindTells DEF Inv, TypeOK, Calls
<1> USE <1>0, <1>a DEF Inv, OneAlive, Alive, OwnSocket, Reachable, Listening, Goto
<1>1. ASSUME NEW i \in Instances, Start(i) PROVE OneAlive' /\ OwnSocket'
  BY <1>1 DEF Start
<1>2. ASSUME NEW i \in Instances, Lstat(i) PROVE OneAlive' /\ OwnSocket'
  BY <1>2 DEF Lstat
<1>3. ASSUME NEW i \in Instances, Remove(i) PROVE OneAlive' /\ OwnSocket'
  BY <1>3 DEF Remove
<1>4. ASSUME NEW i \in Instances, Bind(i) PROVE OneAlive' /\ OwnSocket'
  BY <1>4, FileKinds DEF Bind
<1>5. ASSUME NEW i \in Instances, SetPermissions(i)
      PROVE  OneAlive' /\ OwnSocket'
  <2>1. file.kind = "socket" /\ file.owner = i
    BY <1>5 DEF SetPermissions
  <2>2. /\ file'.kind = "socket" /\ file'.owner = i
        /\ file'.mode = "configured"
    <3>1. file \in [kind : {"socket"}, owner : Instances,
                    mode : {"umask", "configured"}]
      BY <2>1, FileKinds DEF TypeOK
    <3> QED
      BY <1>5, <2>1, <3>1 DEF SetPermissions
  <2>3. pc' = [pc EXCEPT ![i] = "serve"]
    BY <1>5, <2>1 DEF SetPermissions
  <2> QED
    BY <1>5, <2>2, <2>3 DEF SetPermissions
<1>6. ASSUME NEW i \in Instances, Kill(i) PROVE OneAlive' /\ OwnSocket'
  BY <1>6 DEF Kill
<1>7. CASE UNCHANGED vars
  BY <1>7 DEF vars
<1> QED
  BY <1>1, <1>2, <1>3, <1>4, <1>5, <1>6, <1>7 DEF Next, Boot

\* As long as no two instances run at once, one that has finished starting
\* can be dialled, wherever the instances before it were killed.
THEOREM ServedMeansReachable == Spec => []ServingIsReachable
<1>1. Init => Inv
  BY InitTypeOK DEF Init, Inv, OneAlive, Alive, OwnSocket
<1>2. Inv /\ [Next]_vars => Inv'
  BY NextTypeOK, NextOwn DEF Inv
<1>3. Inv => ServingIsReachable
  BY DEF Inv, OwnSocket, ServingIsReachable
<1> QED
  BY <1>1, <1>2, <1>3, PTL DEF Spec
=============================================================================
