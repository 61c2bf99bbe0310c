---------------------------- MODULE RelayProofs ----------------------------
(***************************************************************************)
(* Proofs about Relay.tla, for any number of requests, connections and     *)
(* parts.                                                                  *)
(*                                                                         *)
(* Nothing in a connection says which request a part belongs to, so what   *)
(* the properties say of requests is shown of connections: each carries    *)
(* the rest of the request that Misskey serves there, then the beginning   *)
(* of at most one other (Framing), and no request is in two of them        *)
(* (Apart).  From that follows whose part is read next, at either end.     *)
(***************************************************************************)
EXTENDS Relay, TLAPS

Parts == [of : Exchanges, n : Nat]
Given == [of : Exchanges \cup {None}, n : Nat]
Pipes == [near : BOOLEAN, far : BOOLEAN, up : Seq(Parts), down : Seq(Parts),
          serving : Exchanges \cup {None}, used : BOOLEAN]

Types ==
    /\ TypeOK
    /\ written \in [Exchanges -> Nat] /\ taken \in [Exchanges -> Nat]
    /\ heard \in [Exchanges -> Seq(Parts)]
    /\ told \in [Exchanges -> Seq(Given)]
    /\ conn \in [Conns -> Pipes]

\* How far an exchange has come.
Progress(e) ==
    /\ pc[e] = "idle" <=> caller[e] = "waiting"
    /\ pc[e] = "idle" <=> written[e] = 0
    /\ Len(heard[e]) <= taken[e]
    /\ taken[e] > 0 /\ via[e] = None => pc[e] = "over"
    /\ out[e] > 0 => heard[e] # << >>
    /\ late[e] => out[e] > 0 /\ Len(heard[e]) = whole[e]
    /\ pc[e] \in {"idle", "asking"} => told[e] = << >>
    /\ pc[e] = "relaying" =>
          /\ via[e] # None /\ taken[e] > 0 /\ ~page[e]
          /\ Len(told[e]) \in 1 .. AnswerEnd
    /\ late[e] /\ told[e] # << >> =>
          told[e][1] \in {Part(e, 0), Promise!NotFound}
    /\ via[e] # None =>
          /\ pc[e] # "idle" /\ conn[via[e]].near
          /\ told[e] # << >> => heard[e] # << >>
          /\ pc[e] = "over" => Len(told[e]) = AnswerEnd + 1
          /\ \A i \in 1 .. Len(told[e]) : told[e][i] = Part(e, i - 1)

\* A connection has one exchange at a time.
OneOwner == \A e, f \in Exchanges : via[e] # None /\ via[e] = via[f] => e = f

\* How much Misskey has yet to read of the request that it serves.
Rest(k) == LET s == conn[k].serving
           IN  IF s = None THEN 0 ELSE taken[s] - Len(heard[s])

\* What is on its way to Misskey is the rest of the request that it serves,
\* and after it the beginning of the next one, if there is a next.
Carries(k, next) ==
    LET s == conn[k].serving
        up == conn[k].up
        r == Rest(k)
    IN  /\ Len(up) = r + IF next = None THEN 0 ELSE taken[next]
        /\ \A i \in 1 .. Len(up) :
              up[i] = IF i <= r THEN Part(s, Len(heard[s]) + i - 1)
                                ELSE Part(next, i - r - 1)
        /\ s # None => heard[s] # << >>
        /\ next # None =>
              /\ taken[next] > 0 /\ heard[next] = << >> /\ next # s
              /\ s # None => /\ via[s] # k
                             /\ taken[s] = whole[s] /\ out[s] = AnswerEnd + 1
        /\ \A e \in Exchanges :
              via[e] = k /\ taken[e] > 0 => e = s \/ e = next

\* What is on its way back continues what the caller was told, and there is
\* nothing when no caller waits for it.
Answers(k) ==
    LET s == conn[k].serving
        down == conn[k].down
    IN  /\ s = None \/ ~conn[k].near => down = << >>
        /\ conn[k].near /\ s # None /\ via[s] = k =>
              /\ out[s] = Len(told[s]) + Len(down)
              /\ \A i \in 1 .. Len(down) :
                    down[i] = Part(s, Len(told[s]) + i - 1)
        /\ conn[k].near /\ s # None /\ via[s] # k =>
              /\ down = << >>
              /\ taken[s] = whole[s] /\ out[s] = AnswerEnd + 1

Framing(k) ==
    /\ \E next \in Exchanges \cup {None} :
          /\ Carries(k, next)
          /\ conn[k].near /\ next # None => via[next] = k
    /\ Answers(k)

\* An exchange is in one connection.
In(k, e) == \/ conn[k].serving = e
            \/ \E i \in 1 .. Len(conn[k].up) : conn[k].up[i].of = e
Apart == \A k, l \in Conns : \A e \in Exchanges : In(k, e) /\ In(l, e) => k = l

Progressing == \A e \in Exchanges : Progress(e)
Framed == \A k \in Conns : Framing(k)

IInv == Types /\ Progressing /\ OneOwner /\ Framed /\ Apart

-----------------------------------------------------------------------------
(* Domains *)

\* Parts of requests, and what callers are told, are where Types says.
LEMMA PartTypes ==
    /\ \A e \in Exchanges, n \in Nat : Part(e, n) \in Parts
    /\ Parts \subseteq Given
    /\ \A n \in Nat : Part(None, n) \in Given
    /\ {Promise!NotFound, Promise!BadGateway, Promise!Cut, Promise!Reset}
          \subseteq Given
    /\ \A e, n : Part(e, n).of = e /\ Part(e, n).n = n
    /\ \A p \in Parts : p = Part(p.of, p.n)
  BY DEF Part, Promise!Part, Parts, Given, Promise!NotFound,
         Promise!BadGateway, Promise!Cut, Promise!Reset

\* A new connection, and one that is no more.
LEMMA FreshPipes ==
    /\ Fresh \in Pipes /\ Dead \in Pipes
    /\ Fresh.near /\ Fresh.far
    /\ Fresh.up = << >> /\ Fresh.down = << >> /\ Fresh.serving = None
    /\ ~Dead.near /\ ~Dead.far
    /\ Dead.up = << >> /\ Dead.down = << >> /\ Dead.serving = None
    /\ ~Fresh.used /\ ~Dead.used
<1>1. /\ Fresh \in Pipes /\ Fresh.near /\ Fresh.far
      /\ Fresh.up = << >> /\ Fresh.down = << >> /\ Fresh.serving = None
      /\ ~Fresh.used
  <2>1. Fresh \in Pipes
    BY DEF Fresh, Pipes
  <2>2. /\ Fresh.near = TRUE /\ Fresh.far = TRUE /\ Fresh.used = FALSE
        /\ Fresh.up = << >> /\ Fresh.down = << >> /\ Fresh.serving = None
    BY DEF Fresh
  <2> QED
    BY <2>1, <2>2
<1>2. /\ Dead \in Pipes /\ Dead.near = FALSE /\ Dead.far = FALSE
      /\ Dead.up = Fresh.up /\ Dead.down = Fresh.down
      /\ Dead.serving = Fresh.serving /\ Dead.used = Fresh.used
  BY <1>1 DEF Dead, Pipes
<1> QED
  BY <1>1, <1>2

\* What a new value at one connection makes of the table.
LEMMA OnePipe ==
    ASSUME conn \in [Conns -> Pipes], NEW k \in Conns, NEW p \in Pipes,
           conn' = [conn EXCEPT ![k] = p]
    PROVE  /\ conn' \in [Conns -> Pipes] /\ conn'[k] = p
           /\ \A l \in Conns : l # k => conn'[l] = conn[l]
  OBVIOUS

\* This side closes.
LEMMA NearClosedMeans ==
    ASSUME Types, NEW k \in Conns, NearClosed(k)
    PROVE  /\ conn' \in [Conns -> Pipes]
           /\ \A l \in Conns : l # k => conn'[l] = conn[l]
           /\ ~conn'[k].near /\ conn'[k].down = << >>
           /\ \/ /\ conn'[k].up = conn[k].up
                 /\ conn'[k].serving = conn[k].serving
              \/ conn'[k].up = << >> /\ conn'[k].serving = None
<1> DEFINE p == IF conn[k].far
                THEN [conn[k] EXCEPT !.near = FALSE, !.down = << >>]
                ELSE Dead
<1>1. conn' = [conn EXCEPT ![k] = p]
  BY DEF NearClosed
<1>2. p \in Pipes
  BY FreshPipes DEF Types, Pipes
<1>3. ~p.near /\ p.down = << >>
  BY FreshPipes DEF Types, Pipes
<1>4. \/ p.up = conn[k].up /\ p.serving = conn[k].serving
      \/ p.up = << >> /\ p.serving = None
  BY FreshPipes DEF Types, Pipes
<1> HIDE DEF p
<1> QED
  BY <1>1, <1>2, <1>3, <1>4, OnePipe DEF Types

\* An exchange gives its connection up.
LEMMA GivesUpMeans ==
    ASSUME Types, NEW e \in Exchanges, GivesUp(e)
    PROVE  /\ via' = [via EXCEPT ![e] = None] /\ conn' \in [Conns -> Pipes]
           /\ \A l \in Conns : l # via[e] => conn'[l] = conn[l]
           /\ via[e] # None => NearClosed(via[e])
  BY NearClosedMeans, RelayAssumption DEF GivesUp, Types, TypeOK

\* Which ends of a connection are open after a step.
Ends(k, near, far) == conn'[k].near = near /\ conn'[k].far = far

\* The next part of an answer is taken out of its connection.
LEMMA TookMeans ==
    ASSUME Types, NEW e \in Exchanges, Answered(e), Took(e)
    PROVE  LET k == via[e]
           IN  /\ k \in Conns /\ conn' \in [Conns -> Pipes]
               /\ \A l \in Conns : l # k => conn'[l] = conn[l]
               /\ Ends(k, conn[k].near, conn[k].far)
               /\ conn'[k].up = conn[k].up /\ conn'[k].down = Tail(conn[k].down)
               /\ conn'[k].serving = conn[k].serving
               /\ conn[k].down # << >> /\ conn[k].down \in Seq(Parts)
               /\ NextPart(e) = conn[k].down[1] /\ NextPart(e) \in Parts
<1> DEFINE k == via[e]
           p == [conn[k] EXCEPT !.down = Tail(conn[k].down)]
<1>1. k \in Conns /\ conn[k] \in Pipes /\ conn[k].down # << >>
  BY DEF Answered, Types, TypeOK
<1>2. conn' = [conn EXCEPT ![k] = p]
  BY DEF Took
<1>3. conn[k].down \in Seq(Parts) /\ Tail(conn[k].down) \in Seq(Parts)
  BY <1>1 DEF Pipes
<1>4. /\ p \in Pipes /\ p.near = conn[k].near /\ p.far = conn[k].far
      /\ p.up = conn[k].up /\ p.down = Tail(conn[k].down)
      /\ p.serving = conn[k].serving
  BY <1>1, <1>3 DEF Pipes
<1>5. NextPart(e) = conn[k].down[1] /\ NextPart(e) \in Parts
  BY <1>1, <1>3 DEF NextPart
<1> HIDE DEF p
<1>6. /\ conn' \in [Conns -> Pipes] /\ conn'[k] = p
      /\ \A l \in Conns : l # k => conn'[l] = conn[l]
  BY <1>1, <1>2, <1>4, OnePipe DEF Types
<1> QED
  BY <1>1, <1>3, <1>4, <1>5, <1>6 DEF Ends

\* A part of a request goes into its connection.
LEMMA PumpMeans ==
    ASSUME Types, NEW e \in Exchanges, Pump(e)
    PROVE  LET k == via[e]
           IN  /\ k \in Conns /\ conn' \in [Conns -> Pipes]
               /\ \A l \in Conns : l # k => conn'[l] = conn[l]
               /\ Ends(k, conn[k].near, conn[k].far)
               /\ conn'[k].up = Append(conn[k].up, Part(e, taken[e]))
               /\ conn'[k].down = conn[k].down
               /\ conn'[k].serving = conn[k].serving
               /\ conn[k].up \in Seq(Parts) /\ Part(e, taken[e]) \in Parts
<1> DEFINE k == via[e]
           p == [conn[k] EXCEPT !.up = Append(conn[k].up, Part(e, taken[e]))]
<1>1. k \in Conns /\ conn[k] \in Pipes /\ taken[e] \in Nat
  BY DEF Pump, Types, TypeOK
<1>2. conn' = [conn EXCEPT ![k] = p]
  BY DEF Pump
<1>3. Part(e, taken[e]) \in Parts
  BY <1>1, PartTypes
<1>4. conn[k].up \in Seq(Parts)
  BY <1>1 DEF Pipes
<1>5. Append(conn[k].up, Part(e, taken[e])) \in Seq(Parts)
  BY <1>3, <1>4
<1>6. /\ p \in Pipes /\ p.near = conn[k].near /\ p.far = conn[k].far
      /\ p.up = Append(conn[k].up, Part(e, taken[e]))
      /\ p.down = conn[k].down /\ p.serving = conn[k].serving
  BY <1>1, <1>5 DEF Pipes
<1> HIDE DEF p
<1>7. /\ conn' \in [Conns -> Pipes] /\ conn'[k] = p
      /\ \A l \in Conns : l # k => conn'[l] = conn[l]
  BY <1>1, <1>2, <1>6, OnePipe DEF Types
<1> QED
  BY <1>1, <1>3, <1>4, <1>6, <1>7 DEF Ends

\* The exchange for which a part is read.
Reader(k) ==
    LET old == conn[k].serving
    IN  IF old = None \/ Len(heard[old]) = whole[old]
        THEN Head(conn[k].up).of ELSE old

\* Misskey takes a part out of a connection.
LEMMA ReadsMeans ==
    ASSUME Types, NEW k \in Conns, MisskeyReads(k)
    PROVE  LET e == Reader(k)
           IN  /\ e \in Exchanges /\ conn' \in [Conns -> Pipes]
               /\ \A l \in Conns : l # k => conn'[l] = conn[l]
               /\ Ends(k, conn[k].near, conn[k].far)
               /\ conn'[k].up = Tail(conn[k].up)
               /\ conn'[k].down = conn[k].down /\ conn'[k].serving = e
               /\ conn[k].up \in Seq(Parts) /\ conn[k].up # << >>
               /\ conn[k].up[1] \in Parts
               /\ heard' = [heard EXCEPT ![e] = Append(@, conn[k].up[1])]
               /\ heard' \in [Exchanges -> Seq(Parts)]
<1> DEFINE e == Reader(k)
           p == [conn[k] EXCEPT !.up = Tail(conn[k].up), !.serving = e]
<1>1. /\ conn[k] \in Pipes /\ conn[k].up # << >>
      /\ conn[k].up \in Seq(Parts) /\ Tail(conn[k].up) \in Seq(Parts)
      /\ conn[k].serving \in Exchanges \cup {None}
  <2>1. conn[k] \in Pipes /\ conn[k].up # << >>
    BY DEF MisskeyReads, Types
  <2>2. /\ conn[k].up \in Seq(Parts)
        /\ conn[k].serving \in Exchanges \cup {None}
    BY <2>1 DEF Pipes
  <2>3. Tail(conn[k].up) \in Seq(Parts)
    BY <2>1, <2>2
  <2> QED
    BY <2>1, <2>2, <2>3
<1>2. Head(conn[k].up) = conn[k].up[1] /\ conn[k].up[1] \in Parts
  BY <1>1
<1>3. e \in Exchanges
  BY <1>1, <1>2 DEF Reader, Parts
<1>4. /\ conn' = [conn EXCEPT ![k] = p]
      /\ heard' = [heard EXCEPT ![e] = Append(@, conn[k].up[1])]
  BY <1>2 DEF MisskeyReads, Reader
<1>5. /\ p \in Pipes /\ p.near = conn[k].near /\ p.far = conn[k].far
      /\ p.up = Tail(conn[k].up) /\ p.down = conn[k].down /\ p.serving = e
  BY <1>1, <1>3 DEF Pipes
<1>6. heard' \in [Exchanges -> Seq(Parts)]
  BY <1>2, <1>3, <1>4 DEF Types
<1> HIDE DEF p, e
<1>7. /\ conn' \in [Conns -> Pipes] /\ conn'[k] = p
      /\ \A l \in Conns : l # k => conn'[l] = conn[l]
  BY <1>1, <1>4, <1>5, OnePipe DEF Types
<1> QED
  BY <1>1, <1>2, <1>3, <1>4, <1>5, <1>6, <1>7 DEF Ends, e

\* Misskey puts a part of an answer into a connection.
LEMMA WritesMeans ==
    ASSUME Types, NEW k \in Conns, MisskeyWrites(k)
    PROVE  LET e == conn[k].serving
           IN  /\ e \in Exchanges /\ conn' \in [Conns -> Pipes]
               /\ \A l \in Conns : l # k => conn'[l] = conn[l]
               /\ Ends(k, conn[k].near, conn[k].far)
               /\ conn'[k].up = conn[k].up
               /\ conn'[k].down = Append(conn[k].down, Part(e, out[e]))
               /\ conn'[k].serving = conn[k].serving
               /\ conn[k].down \in Seq(Parts) /\ Part(e, out[e]) \in Parts
<1> DEFINE e == conn[k].serving
           p == [conn[k] EXCEPT !.down = Append(conn[k].down, Part(e, out[e]))]
<1>1. conn[k] \in Pipes /\ e \in Exchanges /\ out[e] \in Nat
  BY RelayAssumption DEF MisskeyWrites, Types, TypeOK, Pipes
<1>2. conn' = [conn EXCEPT ![k] = p]
  BY DEF MisskeyWrites
<1>3. Part(e, out[e]) \in Parts
  BY <1>1, PartTypes
<1>4. conn[k].down \in Seq(Parts)
  BY <1>1 DEF Pipes
<1>5. Append(conn[k].down, Part(e, out[e])) \in Seq(Parts)
  BY <1>3, <1>4
<1>6. /\ p \in Pipes /\ p.near = conn[k].near /\ p.far = conn[k].far
      /\ p.up = conn[k].up /\ p.serving = conn[k].serving
      /\ p.down = Append(conn[k].down, Part(e, out[e]))
  BY <1>1, <1>5 DEF Pipes
<1> HIDE DEF p
<1>7. /\ conn' \in [Conns -> Pipes] /\ conn'[k] = p
      /\ \A l \in Conns : l # k => conn'[l] = conn[l]
  BY <1>1, <1>2, <1>6, OnePipe DEF Types
<1> QED
  BY <1>1, <1>3, <1>4, <1>6, <1>7 DEF Ends

\* Misskey's side closes.
LEMMA ClosesMeans ==
    ASSUME Types, NEW k \in Conns, MisskeyCloses(k)
    PROVE  /\ conn' \in [Conns -> Pipes]
           /\ \A l \in Conns : l # k => conn'[l] = conn[l]
           /\ \/ /\ conn[k].near /\ Ends(k, conn[k].near, FALSE)
                 /\ conn'[k].up = conn[k].up /\ conn'[k].down = conn[k].down
                 /\ conn'[k].serving = conn[k].serving
              \/ ~conn[k].near /\ conn'[k] = Dead
<1> DEFINE p == IF conn[k].near THEN [conn[k] EXCEPT !.far = FALSE] ELSE Dead
<1>1. conn' = [conn EXCEPT ![k] = p]
  BY DEF MisskeyCloses
<1>2. p \in Pipes
  BY FreshPipes DEF Types, Pipes
<1>3. \/ /\ conn[k].near /\ p.near = conn[k].near /\ p.far = FALSE
         /\ p.up = conn[k].up /\ p.down = conn[k].down
         /\ p.serving = conn[k].serving
      \/ ~conn[k].near /\ p = Dead
  BY DEF Types, Pipes
<1> HIDE DEF p
<1> QED
  BY <1>1, <1>2, <1>3, OnePipe DEF Types, Ends

-----------------------------------------------------------------------------
(* Every variable stays in its domain *)

\* Types holds at first.
LEMMA InitTypes == Init => Types
<1> SUFFICES ASSUME Init PROVE Types
  OBVIOUS
<1>1. \A e \in Exchanges : whole[e] \in Sizes[e] /\ whole[e] \in Nat \ {0, 1}
  BY RelayAssumption DEF Init
<1>2. whole \in [Exchanges -> Nat \ {0, 1}]
  BY <1>1 DEF Init
<1>3. \A k \in Conns : Len(conn[k].up) = 0 /\ Len(conn[k].down) = 0
  BY FreshPipes DEF Init
<1>4. TypeOK
  BY <1>2, <1>3, RelayAssumption DEF Init, TypeOK
<1> QED
  BY <1>4, FreshPipes DEF Init, Types

\* What every action of an exchange that gives up its connection may do.
LEMMA RoomKept ==
    ASSUME Types, NEW k \in Conns, conn' \in [Conns -> Pipes],
           \A l \in Conns : l # k => conn'[l] = conn[l],
           \/ conn'[k].up = conn[k].up
           \/ conn'[k].up = << >>
           \/ Len(conn'[k].up) <= Room,
           \/ conn'[k].down = conn[k].down
           \/ conn'[k].down = << >>
           \/ Len(conn'[k].down) <= Room
    PROVE  \A l \in Conns : /\ Len(conn'[l].up) <= Room
                            /\ Len(conn'[l].down) <= Room
<1>1. \A l \in Conns : Len(conn[l].up) <= Room /\ Len(conn[l].down) <= Room
  BY DEF Types, TypeOK
<1>2. Len(<< >>) <= Room
  BY RelayAssumption
<1>3. Len(conn'[k].up) <= Room /\ Len(conn'[k].down) <= Room
  BY <1>1, <1>2
<1> QED
  BY <1>1, <1>3

\* Nothing is written when a connection is given up.
LEMMA GivesUpRoom ==
    ASSUME Types, NEW e \in Exchanges, GivesUp(e)
    PROVE  /\ conn' \in [Conns -> Pipes]
           /\ via' \in [Exchanges -> Conns \cup {None}]
           /\ \A l \in Conns : /\ Len(conn'[l].up) <= Room
                               /\ Len(conn'[l].down) <= Room
<1>1. CASE via[e] = None
  BY <1>1, RelayAssumption DEF GivesUp, Types, TypeOK
<1>2. CASE via[e] # None
  <2>1. via[e] \in Conns /\ NearClosed(via[e])
    BY <1>2 DEF GivesUp, Types, TypeOK
  <2> QED
    BY <2>1, GivesUpMeans, NearClosedMeans, RoomKept DEF Types, TypeOK
<1> QED
  BY <1>1, <1>2

\* The first that a caller is given, or the next.
LEMMA GivenTypes ==
    ASSUME Types, NEW e \in Exchanges, NEW first \in Given,
           Begin(e, first) \/ told' = [told EXCEPT ![e] = Append(@, first)]
    PROVE  told' \in [Exchanges -> Seq(Given)]
<1>1. told \in [Exchanges -> Seq(Given)] /\ told[e] \in Seq(Given)
  BY DEF Types
<1>2. PICK next \in Seq(Given) : told' = [told EXCEPT ![e] = next]
  <2>1. Append(told[e], first) \in Seq(Given)
    BY <1>1
  <2>2. \A p \in Given : <<p>> \in Seq(Given)
    OBVIOUS
  <2>3. <<first>> \in Seq(Given) /\ <<Promise!Reset>> \in Seq(Given)
    BY <2>2, PartTypes
  <2> QED
    BY <2>1, <2>3 DEF Begin
<1> QED
  BY <1>1, <1>2

\* Nor when a part is read from it.
LEMMA TookRoom ==
    ASSUME Types, NEW e \in Exchanges, Answered(e), Took(e)
    PROVE  /\ conn' \in [Conns -> Pipes] /\ NextPart(e) \in Given
           /\ \A l \in Conns : /\ Len(conn'[l].up) <= Room
                               /\ Len(conn'[l].down) <= Room
<1> DEFINE k == via[e]
<1>1. /\ k \in Conns /\ conn' \in [Conns -> Pipes] /\ conn[k] \in Pipes
      /\ \A l \in Conns : l # k => conn'[l] = conn[l]
      /\ conn'[k].up = conn[k].up /\ conn'[k].down = Tail(conn[k].down)
      /\ conn[k].down # << >> /\ conn[k].down \in Seq(Parts)
      /\ NextPart(e) \in Parts
  BY TookMeans DEF Types
<1>2. Len(conn'[k].down) <= Len(conn[k].down) /\ Len(conn'[k].down) \in Nat
  BY <1>1
<1>3. Len(conn'[k].down) <= Room
  BY <1>1, <1>2, RelayAssumption DEF Types, TypeOK
<1> QED
  BY <1>1, <1>3, RoomKept, PartTypes

\* Every step keeps Types.
LEMMA TypesKept ==
    ASSUME Types, Progressing, [Next]_vars
    PROVE  Types'
<1> USE RelayAssumption
<1> DEFINE Roomy == \A l \in Conns : /\ Len(conn'[l].up) <= Room
                                     /\ Len(conn'[l].down) <= Room
<1>1. ASSUME NEW e \in Exchanges, Caller(e) PROVE Types'
  <2> USE DEF Types, TypeOK
  <2>1. CASE Arrive(e)
    <3>1. written[e] = 0
      BY <2>1 DEF Arrive, Progressing, Progress
    <3> QED
      BY <2>1, <3>1 DEF Arrive
  <2>2. CASE Write(e)
    <3>1. /\ written' = [written EXCEPT ![e] = @ + 1]
          /\ written[e] < whole[e]
          /\ UNCHANGED <<whole, page, caller, heard, told, pc, via, taken, out,
                         late, conn>>
      BY <2>2 DEF Write
    <3>2. /\ written' \in [Exchanges -> Nat]
          /\ written'[e] \in 0 .. whole[e] /\ taken[e] \in 0 .. written'[e]
          /\ \A f \in Exchanges : f # e => written'[f] = written[f]
      BY <3>1
    <3> QED
      BY <3>1, <3>2
  <2>3. CASE Leave(e)
    BY <2>3 DEF Leave
  <2> QED
    BY <1>1, <2>1, <2>2, <2>3 DEF Caller
<1>2. ASSUME NEW e \in Exchanges, NEW k \in Conns, Checkout(e, k)
      PROVE  Types'
  <2>1. /\ conn'[k].up = conn[k].up /\ conn'[k].down = conn[k].down
        /\ conn' \in [Conns -> Pipes]
        /\ \A l \in Conns : l # k => conn'[l] = conn[l]
    <3>1. conn[k] \in Pipes /\ conn \in [Conns -> Pipes]
      BY DEF Types
    <3>2. PICK p : p = [conn[k] EXCEPT !.used = TRUE]
      OBVIOUS
    <3>3. p \in Pipes /\ p.up = conn[k].up /\ p.down = conn[k].down
      BY <3>1, <3>2 DEF Pipes
    <3>4. conn' = [conn EXCEPT ![k] = p]
      BY <1>2, <3>2 DEF Checkout
    <3> QED
      BY <3>1, <3>3, <3>4, OnePipe
  <2>2. Roomy
    BY <2>1, RoomKept
  <2> QED
    BY <1>2, <2>1, <2>2 DEF Checkout, callers, Types, TypeOK
<1>3. ASSUME NEW e \in Exchanges, NEW k \in Conns, Dial(e, k)
      PROVE  Types'
  <2>1. conn' \in [Conns -> Pipes] /\ conn'[k] = Fresh
        /\ \A l \in Conns : l # k => conn'[l] = conn[l]
    BY <1>3, FreshPipes, OnePipe DEF Dial, Types
  <2>2. Roomy
    BY <2>1, FreshPipes, RoomKept
  <2> QED
    BY <1>3, <2>1, <2>2 DEF Dial, callers, Types, TypeOK
<1>4. ASSUME NEW e \in Exchanges, Pump(e) PROVE Types'
  <2> DEFINE k == via[e]
  <2>1. /\ k \in Conns /\ conn' \in [Conns -> Pipes] /\ conn[k] \in Pipes
        /\ \A l \in Conns : l # k => conn'[l] = conn[l]
        /\ conn'[k].down = conn[k].down
        /\ conn'[k].up = Append(conn[k].up, Part(e, taken[e]))
        /\ conn[k].up \in Seq(Parts) /\ Part(e, taken[e]) \in Parts
    BY <1>4, PumpMeans DEF Types
  <2>2. Len(conn'[k].up) = Len(conn[k].up) + 1 /\ Len(conn[k].up) \in Nat
    BY <2>1
  <2>3. Len(conn'[k].up) <= Room
    BY <1>4, <2>2 DEF Pump
  <2>4. Roomy
    BY <2>1, <2>3, RoomKept
  <2>5. /\ taken' = [taken EXCEPT ![e] = @ + 1] /\ taken[e] < written[e]
        /\ UNCHANGED <<whole, page, written, caller, heard, told, pc, via, out,
                       late>>
    BY <1>4 DEF Pump, MaySend, callers
  <2>6. /\ taken' \in [Exchanges -> Nat]
        /\ \A f \in Exchanges : taken'[f] \in 0 .. written[f]
    BY <2>5 DEF Types, TypeOK
  <2> QED
    BY <2>1, <2>4, <2>5, <2>6 DEF Types, TypeOK
<1>5. ASSUME NEW e \in Exchanges, GivesUp(e),
             UNCHANGED <<callers, heard, taken, out, late>>,
             told' \in [Exchanges -> Seq(Given)],
             pc' = pc \/ pc' = [pc EXCEPT ![e] = "over"]
      PROVE  Types'
  BY <1>5, GivesUpRoom DEF callers, Types, TypeOK
<1>6. ASSUME NEW e \in Exchanges, Answered(e), Took(e),
             UNCHANGED <<callers, heard, via, taken, out, late>>,
             Begin(e, NextPart(e))
                \/ told' = [told EXCEPT ![e] = Append(@, NextPart(e))],
             pc' \in [Exchanges -> {"idle", "asking", "relaying", "over"}]
      PROVE  Types'
  BY <1>6, TookRoom, GivenTypes DEF callers, Types, TypeOK
<1>7. ASSUME NEW e \in Exchanges, Retry(e) PROVE Types'
  BY <1>7, <1>5 DEF Retry, Types
<1>8. ASSUME NEW e \in Exchanges, UpstreamFails(e) PROVE Types'
  BY <1>8, <1>5, GivenTypes, PartTypes DEF UpstreamFails
<1>9. ASSUME NEW e \in Exchanges, UpstreamSendsPage(e) PROVE Types'
  BY <1>9, <1>5, GivenTypes, PartTypes DEF UpstreamSendsPage, DropPage
<1>10. ASSUME NEW e \in Exchanges, UpstreamAnswers(e) PROVE Types'
  <2>1. NextPart(e) \in Given
    BY <1>10, PartTypes
    DEF UpstreamAnswers, Answered, NextPart, Types, TypeOK, Pipes
  <2>2. CASE told'[e] = <<Promise!Reset>>
    BY <1>10, <2>1, <2>2, <1>5, GivenTypes DEF UpstreamAnswers
  <2>3. CASE told'[e] # <<Promise!Reset>>
    <3>1. /\ Answered(e) /\ Took(e) /\ Begin(e, NextPart(e))
          /\ UNCHANGED <<callers, heard, via, taken, out, late>>
          /\ pc' = [pc EXCEPT ![e] = "relaying"]
      BY <1>10, <2>3 DEF UpstreamAnswers
    <3>2. pc' \in [Exchanges -> {"idle", "asking", "relaying", "over"}]
      BY <3>1 DEF Types, TypeOK
    <3> QED
      BY <3>1, <3>2, <1>6
  <2> QED
    BY <2>2, <2>3
<1>11. ASSUME NEW e \in Exchanges, RelayPart(e) PROVE Types'
  <2>1. pc' \in [Exchanges -> {"idle", "asking", "relaying", "over"}]
    BY <1>11 DEF RelayPart, Types, TypeOK
  <2> QED
    BY <1>11, <2>1, <1>6 DEF RelayPart
<1>12. ASSUME NEW e \in Exchanges, Truncate(e) PROVE Types'
  BY <1>12, <1>5, GivenTypes, PartTypes DEF Truncate
<1>13. ASSUME NEW e \in Exchanges, CallerGone(e) PROVE Types'
  <2>1. CASE taken[e] = 0
    BY <1>13, <2>1 DEF CallerGone, callers, Types, TypeOK
  <2>2. CASE taken[e] # 0
    BY <1>13, <2>2, <1>5 DEF CallerGone, Types
  <2> QED
    BY <2>1, <2>2
<1>14. ASSUME NEW e \in Exchanges, Release(e) PROVE Types'
  BY <1>14 DEF Release, callers, Types, TypeOK
<1>15. ASSUME NEW e \in Exchanges, AbandonBody(e) PROVE Types'
  BY <1>15, <1>5 DEF AbandonBody, Types
<1>16. ASSUME NEW k \in Conns, Expire(k) PROVE Types'
  <2>1. Roomy /\ conn' \in [Conns -> Pipes]
    BY <1>16, NearClosedMeans, RoomKept DEF Expire
  <2> QED
    BY <1>16, <2>1 DEF Expire, callers, Types, TypeOK
<1>17. ASSUME NEW k \in Conns, MisskeyReads(k) PROVE Types'
  <2>1. /\ conn' \in [Conns -> Pipes] /\ conn[k] \in Pipes
        /\ \A l \in Conns : l # k => conn'[l] = conn[l]
        /\ conn'[k].up = Tail(conn[k].up) /\ conn'[k].down = conn[k].down
        /\ conn[k].up \in Seq(Parts) /\ conn[k].up # << >>
        /\ heard' \in [Exchanges -> Seq(Parts)]
    BY <1>17, ReadsMeans DEF Types
  <2>2. Len(conn'[k].up) <= Len(conn[k].up) /\ Len(conn'[k].up) \in Nat
    BY <2>1
  <2>3. Len(conn'[k].up) <= Room
    BY <2>1, <2>2 DEF Types, TypeOK
  <2>4. Roomy
    BY <2>1, <2>3, RoomKept
  <2> QED
    BY <1>17, <2>1, <2>4 DEF MisskeyReads, callers, Types, TypeOK
<1>18. ASSUME NEW k \in Conns, MisskeyWrites(k) PROVE Types'
  <2> DEFINE e == conn[k].serving
  <2>1. /\ e \in Exchanges /\ conn' \in [Conns -> Pipes] /\ conn[k] \in Pipes
        /\ \A l \in Conns : l # k => conn'[l] = conn[l]
        /\ conn'[k].up = conn[k].up
        /\ conn'[k].down = Append(conn[k].down, Part(e, out[e]))
        /\ conn[k].down \in Seq(Parts) /\ Part(e, out[e]) \in Parts
    BY <1>18, WritesMeans DEF Types
  <2>2. Len(conn'[k].down) = Len(conn[k].down) + 1 /\ Len(conn[k].down) \in Nat
    BY <2>1
  <2>3. Len(conn'[k].down) <= Room
    BY <1>18, <2>2 DEF MisskeyWrites
  <2>4. Roomy
    BY <2>1, <2>3, RoomKept
  <2>5. /\ out' = [out EXCEPT ![e] = @ + 1] /\ out[e] <= AnswerEnd
        /\ late' = [late EXCEPT ![e] =
                       @ \/ (out[e] = 0 /\ Len(heard[e]) = whole[e])]
        /\ UNCHANGED <<whole, page, written, caller, heard, told, pc, via,
                       taken>>
    BY <1>18 DEF MisskeyWrites, callers
  <2>6. late' \in [Exchanges -> BOOLEAN]
    BY <2>1, <2>5 DEF Types, TypeOK
  <2>7. out' \in [Exchanges -> 0 .. AnswerEnd + 1]
    BY <2>1, <2>5, SMTT(30) DEF Types, TypeOK
  <2> QED
    BY <2>1, <2>4, <2>5, <2>6, <2>7 DEF Types, TypeOK
<1>19. ASSUME NEW k \in Conns, MisskeyCloses(k) PROVE Types'
  <2>1. /\ conn' \in [Conns -> Pipes] /\ conn[k] \in Pipes
        /\ \A l \in Conns : l # k => conn'[l] = conn[l]
        /\ conn'[k].up = conn[k].up \/ conn'[k].up = << >>
        /\ conn'[k].down = conn[k].down \/ conn'[k].down = << >>
    BY <1>19, ClosesMeans, FreshPipes DEF Types
  <2>2. Roomy
    BY <2>1, RoomKept
  <2> QED
    BY <1>19, <2>1, <2>2 DEF MisskeyCloses, callers, Types, TypeOK
<1>20. CASE UNCHANGED vars
  BY <1>20 DEF vars, callers, Types, TypeOK
<1> QED
  BY <1>1, <1>2, <1>3, <1>4, <1>7, <1>8, <1>9, <1>10, <1>11, <1>12, <1>13,
     <1>14, <1>15, <1>16, <1>17, <1>18, <1>19, <1>20
  DEF Next, Proxy, Misskey

-----------------------------------------------------------------------------
(* What an exchange and a connection that a step leaves alone keep *)

\* A sequence is empty when its length is 0.
LEMMA Empty ==
    ASSUME NEW S, NEW s \in Seq(S)
    PROVE  /\ Len(s) \in Nat
           /\ s = << >> <=> Len(s) = 0
           /\ s # << >> <=> Len(s) > 0
  OBVIOUS

\* What the provers need of Types, one value at a time.
LEMMA Lengths ==
    ASSUME Types
    PROVE  /\ \A e \in Exchanges :
                 /\ Len(heard[e]) \in Nat /\ Len(told[e]) \in Nat
                 /\ heard[e] = << >> <=> Len(heard[e]) = 0
                 /\ told[e] = << >> <=> Len(told[e]) = 0
                 /\ taken[e] \in Nat /\ written[e] \in Nat /\ whole[e] \in Nat
                 /\ out[e] \in Nat /\ out[e] <= AnswerEnd + 1
                 /\ whole[e] > 1 /\ taken[e] <= written[e]
                 /\ written[e] <= whole[e]
                 /\ via[e] \in Conns \cup {None}
           /\ \A k \in Conns :
                 /\ Len(conn[k].up) \in Nat /\ Len(conn[k].down) \in Nat
                 /\ conn[k].up = << >> <=> Len(conn[k].up) = 0
                 /\ conn[k].down = << >> <=> Len(conn[k].down) = 0
                 /\ conn[k].up \in Seq(Parts) /\ conn[k].down \in Seq(Parts)
                 /\ conn[k].serving \in Exchanges \cup {None}
                 /\ conn[k].near \in BOOLEAN /\ conn[k].far \in BOOLEAN
<1>1. ASSUME NEW e \in Exchanges
      PROVE  /\ heard[e] \in Seq(Parts) /\ told[e] \in Seq(Given)
             /\ taken[e] \in Nat /\ written[e] \in Nat
             /\ whole[e] \in Nat \ {0, 1}
             /\ out[e] \in 0 .. AnswerEnd + 1
             /\ written[e] \in 0 .. whole[e] /\ taken[e] \in 0 .. written[e]
             /\ via[e] \in Conns \cup {None}
  BY DEF Types, TypeOK
<1>2. ASSUME NEW k \in Conns
      PROVE  /\ conn[k].up \in Seq(Parts) /\ conn[k].down \in Seq(Parts)
             /\ conn[k].serving \in Exchanges \cup {None}
             /\ conn[k].near \in BOOLEAN /\ conn[k].far \in BOOLEAN
  BY DEF Types, Pipes
<1>3. ASSUME NEW e \in Exchanges
      PROVE  /\ Len(heard[e]) \in Nat /\ Len(told[e]) \in Nat
             /\ heard[e] = << >> <=> Len(heard[e]) = 0
             /\ told[e] = << >> <=> Len(told[e]) = 0
  BY <1>1, Empty
<1>4. ASSUME NEW k \in Conns
      PROVE  /\ Len(conn[k].up) \in Nat /\ Len(conn[k].down) \in Nat
             /\ conn[k].up = << >> <=> Len(conn[k].up) = 0
             /\ conn[k].down = << >> <=> Len(conn[k].down) = 0
  BY <1>2, Empty
<1>5. ASSUME NEW e \in Exchanges
      PROVE  /\ out[e] \in Nat /\ out[e] <= AnswerEnd + 1
             /\ whole[e] \in Nat /\ whole[e] > 1
             /\ taken[e] <= written[e] /\ written[e] <= whole[e]
  BY <1>1, RelayAssumption
<1> QED
  BY <1>1, <1>2, <1>3, <1>4, <1>5

\* Misskey reads no more of a request than was sent.
LEMMA RestType ==
    ASSUME Types, Progressing, NEW k \in Conns
    PROVE  Rest(k) \in Nat
  BY Lengths DEF Rest, Progressing, Progress

\* What a connection is taken for is in it.
LEMMA Inside ==
    ASSUME Types, Progressing, NEW k \in Conns,
           NEW next \in Exchanges \cup {None}, Carries(k, next)
    PROVE  /\ conn[k].serving # None =>
                 conn[k].serving \in Exchanges /\ In(k, conn[k].serving)
           /\ next # None => next \in Exchanges /\ In(k, next)
<1> DEFINE up == conn[k].up
           r == Rest(k)
<1>1. SUFFICES ASSUME next # None PROVE In(k, next)
  BY Lengths DEF In
<1>2. next \in Exchanges /\ taken[next] \in Nat /\ taken[next] > 0
  BY <1>1, Lengths DEF Carries
<1>3. Len(up) = r + taken[next]
  BY <1>1 DEF Carries
<1>4. r + 1 \in 1 .. Len(up) /\ ~(r + 1 <= r)
  BY <1>2, <1>3, RestType
<1>5. \A i \in 1 .. Len(up) : ~(i <= r) => up[i].of = next
  BY PartTypes DEF Carries
<1>6. up[r + 1].of = next
  BY <1>4, <1>5
<1> QED
  BY <1>4, <1>6 DEF In

\* A connection carries an exchange as soon as it has taken something of it.
LEMMA Carried ==
    ASSUME Types, Progressing, NEW k \in Conns, Framing(k),
           NEW e \in Exchanges
    PROVE  /\ In(k, e) => taken[e] > 0
           /\ via[e] = k /\ taken[e] > 0 => In(k, e)
<1>1. PICK next \in Exchanges \cup {None} : Carries(k, next)
  BY DEF Framing
<1> DEFINE s == conn[k].serving
           up == conn[k].up
           r == Rest(k)
<1>2. /\ r \in Nat /\ Len(up) \in Nat
      /\ s \in Exchanges \cup {None}
      /\ s = None => r = 0
  BY RestType, Lengths DEF Rest
<1>3. s # None => s \in Exchanges /\ taken[s] > 0
  <2>1. s # None => Len(heard[s]) > 0 /\ Len(heard[s]) <= taken[s]
    BY <1>1, <1>2, Lengths DEF Carries, Progressing, Progress
  <2> QED
    BY <1>2, <2>1, Lengths
<1>4. next # None => next \in Exchanges /\ taken[next] > 0
  BY <1>1 DEF Carries
<1>5. \A i \in 1 .. Len(up) : IF i <= r THEN up[i].of = s ELSE up[i].of = next
  BY <1>1, PartTypes DEF Carries
<1>6. Len(up) = r + IF next = None THEN 0 ELSE taken[next]
  BY <1>1 DEF Carries
<1>7. ASSUME In(k, e) PROVE taken[e] > 0
  <2>1. CASE s = e
    BY <1>3, <2>1, RelayAssumption
  <2>2. ASSUME NEW i \in 1 .. Len(up), up[i].of = e PROVE taken[e] > 0
    <3>1. CASE i <= r
      BY <1>3, <1>5, <2>2, <3>1, RelayAssumption
    <3>2. CASE ~(i <= r)
      BY <1>2, <1>4, <1>5, <1>6, <2>2, <3>2
    <3> QED
      BY <3>1, <3>2
  <2> QED
    BY <1>7, <2>1, <2>2 DEF In
<1>8. ASSUME via[e] = k, taken[e] > 0 PROVE In(k, e)
  <2>1. e = s \/ e = next
    BY <1>1, <1>8 DEF Carries
  <2> QED
    BY <1>1, <2>1, Inside, RelayAssumption
<1> QED
  BY <1>7, <1>8

\* What a step leaves of an exchange when it is about another one.
Kept(e) ==
    /\ whole'[e] = whole[e] /\ page'[e] = page[e] /\ written'[e] = written[e]
    /\ caller'[e] = caller[e] /\ pc'[e] = pc[e] /\ via'[e] = via[e]
    /\ heard'[e] = heard[e] /\ told'[e] = told[e] /\ taken'[e] = taken[e]
    /\ out'[e] = out[e] /\ late'[e] = late[e]

\* An exchange that stays as it is is as far as it was.
LEMMA KeptProgress ==
    ASSUME NEW e \in Exchanges, Progress(e), Kept(e),
           via[e] # None => conn'[via[e]].near
    PROVE  Progress(e)'
  BY DEF Progress, Kept, Part, Promise!Part, Promise!NotFound

\* What Framing says of a connection depends on the exchanges in it only.
LEMMA SameFraming ==
    ASSUME Types, Types', Progressing, NEW k \in Conns, Framing(k),
           conn'[k].up = conn[k].up, conn'[k].down = conn[k].down,
           conn'[k].serving = conn[k].serving, conn'[k].near = conn[k].near,
           \A e \in Exchanges : In(k, e) =>
              /\ whole'[e] = whole[e] /\ taken'[e] = taken[e]
              /\ heard'[e] = heard[e] /\ out'[e] = out[e]
              /\ via'[e] = k <=> via[e] = k
              /\ via[e] = k => told'[e] = told[e],
           \A e \in Exchanges :
              via'[e] = k /\ taken'[e] > 0 => via[e] = k /\ taken[e] > 0
    PROVE  Framing(k)'
<1>1. PICK next \in Exchanges \cup {None} :
          Carries(k, next) /\ (conn[k].near /\ next # None => via[next] = k)
  BY DEF Framing
<1> DEFINE s == conn[k].serving
           up == conn[k].up
           r == Rest(k)
<1>2. r \in Nat /\ Len(up) \in Nat /\ s \in Exchanges \cup {None}
  BY RestType, Lengths
<1>3. s # None => s \in Exchanges /\ In(k, s)
  BY <1>1, Inside
<1>4. next # None => next \in Exchanges /\ In(k, next)
  BY <1>1, Inside
<1>5. /\ s # None => /\ taken'[s] = taken[s] /\ heard'[s] = heard[s]
                     /\ out'[s] = out[s] /\ whole'[s] = whole[s]
                     /\ via'[s] = k <=> via[s] = k
                     /\ via[s] = k => told'[s] = told[s]
      /\ next # None => /\ taken'[next] = taken[next]
                        /\ heard'[next] = heard[next]
                        /\ via'[next] = k <=> via[next] = k
  BY <1>3, <1>4
<1>6. Rest(k)' = r
  BY <1>5 DEF Rest
<1>7. Carries(k, next)'
  <2>1. /\ Len(up') = r + IF next = None THEN 0 ELSE taken'[next]
        /\ \A i \in 1 .. Len(up') :
              up'[i] = IF i <= r THEN Part(s', Len(heard'[s']) + i - 1)
                                 ELSE Part(next, i - r - 1)
    <3>1. Len(up') = r + IF next = None THEN 0 ELSE taken'[next]
      BY <1>1, <1>5 DEF Carries
    <3>2. ASSUME NEW i \in 1 .. Len(up), i <= r
          PROVE  up'[i] = Part(s', Len(heard'[s']) + i - 1)
      <4>1. s # None
        BY <1>2, <3>2 DEF Rest
      <4>2. up[i] = Part(s, Len(heard[s]) + i - 1)
        BY <1>1, <3>2 DEF Carries
      <4>3. s' = s /\ heard'[s] = heard[s]
        BY <1>5, <4>1
      <4> QED
        BY <4>2, <4>3
    <3>3. ASSUME NEW i \in 1 .. Len(up), ~(i <= r)
          PROVE  up'[i] = Part(next, i - r - 1)
      BY <1>1, <3>3 DEF Carries
    <3> QED
      BY <3>1, <3>2, <3>3
  <2>2. /\ s' # None => heard'[s'] # << >>
        /\ next # None =>
              /\ taken'[next] > 0 /\ heard'[next] = << >> /\ next # s'
              /\ s' # None =>
                    /\ via'[s'] # k
                    /\ taken'[s'] = whole'[s'] /\ out'[s'] = AnswerEnd + 1
    BY <1>1, <1>5 DEF Carries
  <2>3. \A e \in Exchanges :
            via'[e] = k /\ taken'[e] > 0 => e = s' \/ e = next
    BY <1>1 DEF Carries
  <2> QED
    BY <1>6, <2>1, <2>2, <2>3 DEF Carries, Part, Promise!Part
<1>8. Answers(k)'
  <2>1. Answers(k) /\ s' = s
    BY DEF Framing
  <2>2. CASE s = None
    BY <2>1, <2>2 DEF Answers
  <2>3. CASE s # None /\ via[s] = k
    <3>1. told'[s] = told[s] /\ out'[s] = out[s] /\ via'[s] = k
      BY <1>5, <2>3
    <3>2. conn[k].near => /\ out[s] = Len(told[s]) + Len(conn[k].down)
                          /\ \A i \in 1 .. Len(conn[k].down) :
                                conn[k].down[i] = Part(s, Len(told[s]) + i - 1)
      BY <2>1, <2>3 DEF Answers
    <3>3. ~conn[k].near => conn[k].down = << >>
      BY <2>1 DEF Answers
    <3>4. /\ conn'[k].serving = s /\ s # None
          /\ via'[s] = k /\ told'[s] = told[s] /\ out'[s] = out[s]
          /\ conn'[k].down = conn[k].down
          /\ conn'[k].near <=> conn[k].near
      BY <2>3, <3>1
    <3>5. conn'[k].near =>
              /\ out'[s] = Len(told'[s]) + Len(conn'[k].down)
              /\ \A i \in 1 .. Len(conn'[k].down) :
                    conn'[k].down[i] = Part(s, Len(told'[s]) + i - 1)
      BY <3>2, <3>4, ZenonT(30)
    <3>6. ~conn'[k].near => conn'[k].down = << >>
      BY <3>3, <3>4
    <3> HIDE DEF s
    <3> QED
      BY <3>4, <3>5, <3>6 DEF Answers
  <2>4. CASE s # None /\ via[s] # k
    <3>1. /\ out'[s] = out[s] /\ taken'[s] = taken[s]
          /\ whole'[s] = whole[s] /\ via'[s] # k
      BY <1>5, <2>4
    <3>2. conn[k].near => /\ conn[k].down = << >>
                          /\ taken[s] = whole[s] /\ out[s] = AnswerEnd + 1
      BY <2>1, <2>4 DEF Answers
    <3>3. ~conn[k].near => conn[k].down = << >>
      BY <2>1 DEF Answers
    <3> QED
      BY <2>1, <2>4, <3>1, <3>2, <3>3 DEF Answers
  <2> QED
    BY <2>2, <2>3, <2>4
<1> QED
  BY <1>1, <1>5, <1>7, <1>8 DEF Framing

\* A connection without anything in it.
LEMMA NothingInIt ==
    ASSUME Types', NEW k \in Conns, conn'[k].up = << >>,
           conn'[k].down = << >>, conn'[k].serving = None,
           \A e \in Exchanges : ~(via'[e] = k /\ taken'[e] > 0)
    PROVE  Framing(k)' /\ \A e \in Exchanges : ~In(k, e)'
<1>1. Len(<< >>) = 0 /\ \A i \in 1 .. 0 : FALSE
  OBVIOUS
<1>2. Carries(k, None)'
  BY <1>1 DEF Carries, Rest
<1>3. Answers(k)'
  BY DEF Answers
<1>4. \A e \in Exchanges : ~In(k, e)'
  BY <1>1, RelayAssumption DEF In
<1> QED
  BY <1>2, <1>3, <1>4 DEF Framing

\* This side has closed: what was on its way may still be read.
LEMMA ClosedFraming ==
    ASSUME Types, Types', Progressing, NEW k \in Conns, Framing(k),
           conn'[k].up = conn[k].up, conn'[k].serving = conn[k].serving,
           conn'[k].down = << >>, conn'[k].near = FALSE,
           \A e \in Exchanges :
              /\ whole'[e] = whole[e] /\ taken'[e] = taken[e]
              /\ heard'[e] = heard[e] /\ out'[e] = out[e]
              /\ via'[e] # k
    PROVE  Framing(k)'
<1>1. PICK next \in Exchanges \cup {None} : Carries(k, next)
  BY DEF Framing
<1> DEFINE s == conn[k].serving
           r == Rest(k)
<1>2. s \in Exchanges \cup {None} /\ r \in Nat
  BY Lengths, RestType
<1>3. Rest(k)' = r
  BY <1>2 DEF Rest
<1>4. Carries(k, next)'
  <2>1. ASSUME NEW i \in 1 .. Len(conn[k].up), i <= r
        PROVE  conn'[k].up[i] = Part(s, Len(heard'[s]) + i - 1)
    <3>1. s \in Exchanges
      BY <1>2, <2>1 DEF Rest
    <3>2. conn[k].up[i] = Part(s, Len(heard[s]) + i - 1)
      BY <1>1, <2>1 DEF Carries
    <3> QED
      BY <3>1, <3>2
  <2>2. \A i \in 1 .. Len(conn[k].up) :
            ~(i <= r) => conn'[k].up[i] = Part(next, i - r - 1)
    BY <1>1 DEF Carries
  <2>3. /\ Len(conn'[k].up) = r + IF next = None THEN 0 ELSE taken'[next]
        /\ s # None => heard'[s] # << >>
        /\ next # None =>
              /\ taken'[next] > 0 /\ heard'[next] = << >> /\ next # s
              /\ s # None =>
                    /\ via'[s] # k
                    /\ taken'[s] = whole'[s] /\ out'[s] = AnswerEnd + 1
    BY <1>1, <1>2 DEF Carries
  <2> QED
    BY <1>3, <2>1, <2>2, <2>3 DEF Carries, Part, Promise!Part
<1>5. Answers(k)'
  BY DEF Answers
<1> QED
  BY <1>4, <1>5 DEF Framing

-----------------------------------------------------------------------------
(* A step is about one exchange and one connection *)

Moves(e) == whole' = whole /\ \A f \in Exchanges : f # e => Kept(f)

\* k is None in a step without a connection.
About(e, k) ==
    /\ Moves(e)
    /\ \A l \in Conns :
          l # k => conn'[l] = conn[l] /\ ~In(l, e) /\ via'[e] # l

\* Where an exchange is not.
LEMMA NotElsewhere ==
    ASSUME IInv, NEW e \in Exchanges, NEW k \in Conns,
           via[e] = k \/ In(k, e)
    PROVE  \A l \in Conns : l # k => ~In(l, e) /\ via[e] # l
<1> SUFFICES ASSUME NEW l \in Conns, l # k PROVE ~In(l, e) /\ via[e] # l
  OBVIOUS
<1>1. In(k, e) => ~In(l, e)
  BY DEF IInv, Apart
<1>2. In(l, e) => taken[e] > 0
  BY Carried DEF IInv, Framed
<1>3. ASSUME NEW i \in Conns
      PROVE  via[e] = i /\ taken[e] > 0 => In(i, e)
  BY Carried DEF IInv, Framed
<1>4. In(k, e) => taken[e] > 0
  BY Carried DEF IInv, Framed
<1> QED
  BY <1>1, <1>2, <1>3, <1>4

\* An exchange that sent nothing is in no connection.
LEMMA Nowhere ==
    ASSUME IInv, NEW e \in Exchanges, taken[e] = 0
    PROVE  \A l \in Conns : ~In(l, e)
  BY Carried DEF IInv, Framed

\* A step about one exchange and one connection leaves the others as they
\* were.
LEMMA Elsewhere ==
    ASSUME IInv, Types', NEW e \in Exchanges, NEW k, About(e, k),
           \A f \in Exchanges : f # e /\ via[f] = k /\ k \in Conns =>
              conn'[k].near
    PROVE  /\ \A l \in Conns : l # k => Framing(l)'
           /\ \A f \in Exchanges : f # e => Progress(f)'
<1>1. ASSUME NEW l \in Conns, l # k PROVE Framing(l)'
  <2>1. conn'[l] = conn[l] /\ ~In(l, e) /\ via'[e] # l
    BY <1>1 DEF About
  <2>2. \A f \in Exchanges : f # e => Kept(f)
    BY DEF About, Moves
  <2>3. \A f \in Exchanges : In(l, f) =>
            /\ whole'[f] = whole[f] /\ taken'[f] = taken[f]
            /\ heard'[f] = heard[f] /\ out'[f] = out[f]
            /\ via'[f] = l <=> via[f] = l
            /\ via[f] = l => told'[f] = told[f]
    BY <2>1, <2>2 DEF Kept
  <2>4. \A f \in Exchanges :
            via'[f] = l /\ taken'[f] > 0 => via[f] = l /\ taken[f] > 0
    BY <2>1, <2>2 DEF Kept
  <2> QED
    BY <2>1, <2>3, <2>4, SameFraming DEF IInv, Framed
<1>2. ASSUME NEW f \in Exchanges, f # e PROVE Progress(f)'
  <2>1. Kept(f) /\ Progress(f)
    BY <1>2 DEF About, Moves, IInv, Progressing
  <2>2. via[f] # None => via[f] \in Conns /\ conn[via[f]].near
    BY <2>1, Lengths DEF IInv, Progress
  <2>3. via[f] # None => conn'[via[f]].near
    BY <1>2, <2>2 DEF About
  <2> QED
    BY <2>1, <2>3, KeptProgress
<1> QED
  BY <1>1, <1>2

\* Nothing comes into a connection.
LEMMA StaysApart ==
    ASSUME IInv,
           \A k \in Conns :
              \A e \in Exchanges : In(k, e)' => In(k, e)
    PROVE  Apart'
  BY DEF IInv, Apart

\* What is in a connection is told by what it carries and serves.
LEMMA SameInIt ==
    ASSUME NEW k \in Conns, NEW e \in Exchanges,
           conn'[k].up = conn[k].up, conn'[k].serving = conn[k].serving
    PROVE  In(k, e)' => In(k, e)
  BY DEF In

\* OneOwner can break only when a connection is handed out.
LEMMA NoNewOwner ==
    ASSUME IInv, Types',
           \A e \in Exchanges : via'[e] = via[e] \/ via'[e] = None
    PROVE  OneOwner'
  BY DEF IInv, OneOwner

-----------------------------------------------------------------------------
(* The callers *)

\* Callers disturb nothing: they write to the proxy, not to a connection.
LEMMA CallerInv ==
    ASSUME IInv, Types', NEW e \in Exchanges, Caller(e)
    PROVE  IInv'
<1>1. /\ UNCHANGED <<whole, page, heard, told, via, taken, out, late, conn>>
      /\ \A f \in Exchanges : f # e => Kept(f)
  BY DEF Caller, Arrive, Write, Leave, Kept, IInv, Types, TypeOK
<1>2. \A l \in Conns : Framing(l)'
  BY <1>1, SameFraming DEF IInv, Framed
<1>3. Apart' /\ OneOwner'
  BY <1>1 DEF IInv, Apart, OneOwner, In
<1>4. ASSUME NEW f \in Exchanges, f # e PROVE Progress(f)'
  <2>1. via[f] # None => conn'[via[f]].near
    BY <1>1 DEF IInv, Progressing, Progress
  <2> QED
    BY <1>1, <1>4, <2>1, KeptProgress DEF IInv, Progressing
<1>5. Progress(e)'
  <2>1. Progress(e) /\ written[e] \in Nat
    BY Lengths DEF IInv, Progressing
  <2>2. CASE Arrive(e)
    <3>1. /\ pc[e] = "idle" /\ pc'[e] = "asking" /\ caller'[e] = "here"
          /\ written'[e] = 1
      BY <2>1, <2>2 DEF Arrive, Progress, IInv, Types, TypeOK
    <3> QED
      BY <1>1, <2>1, <3>1 DEF Progress, Part, Promise!Part, Promise!NotFound
  <2>3. CASE Write(e) \/ Leave(e)
    <3>1. /\ caller[e] = "here" /\ caller'[e] \in {"here", "left"}
          /\ pc' = pc /\ written'[e] \in {written[e], written[e] + 1}
      BY <2>3 DEF Write, Leave, IInv, Types, TypeOK
    <3>2. pc[e] # "idle" /\ written[e] > 0
      BY <2>1, <3>1 DEF Progress
    <3> QED
      BY <1>1, <2>1, <3>1, <3>2
      DEF Progress, Part, Promise!Part, Promise!NotFound
  <2> QED
    BY <2>2, <2>3 DEF Caller
<1> QED
  BY <1>2, <1>3, <1>4, <1>5 DEF IInv, Progressing, Framed

-----------------------------------------------------------------------------
(* The pool *)

\* A connection of which this side is closed is nobody's.
LEMMA ClosedIsFree ==
    ASSUME IInv, NEW k \in Conns, ~conn[k].near
    PROVE  \A e \in Exchanges : via[e] # k
  BY RelayAssumption DEF IInv, Progressing, Progress

\* A connection from the pool: what it carries still belongs to the exchange
\* before, which is out of it at this end.
LEMMA CheckoutInv ==
    ASSUME IInv, Types', NEW e \in Exchanges, NEW k \in Conns, Checkout(e, k)
    PROVE  IInv'
<1>1. /\ pc[e] = "asking" /\ via[e] = None /\ taken[e] = 0
      /\ via'[e] = k /\ conn[k].near /\ \A f \in Exchanges : via[f] # k
  <2>1. /\ conn[k].near /\ pc[e] = "asking" /\ via[e] = None /\ via'[e] = k
        /\ \A f \in Exchanges : via[f] # k
    BY DEF Checkout, Idle, IInv, Types, TypeOK
  <2>2. taken[e] = 0
    BY <2>1, Lengths DEF IInv, Progressing, Progress
  <2> QED
    BY <2>1, <2>2
<1>2. /\ conn'[k].up = conn[k].up /\ conn'[k].down = conn[k].down
      /\ conn'[k].serving = conn[k].serving /\ conn'[k].near = conn[k].near
      /\ \A l \in Conns : l # k => conn'[l] = conn[l]
      /\ UNCHANGED <<whole, page, written, caller, heard, told, pc, taken, out,
                     late>>
      /\ \A f \in Exchanges : f # e => Kept(f)
  BY DEF Checkout, callers, Kept, IInv, Types, TypeOK, Pipes
<1>3. \A l \in Conns : ~In(l, e)
  BY <1>1, Nowhere
<1>4. About(e, k)
  BY <1>1, <1>2, <1>3 DEF About, Moves
<1>5. /\ \A l \in Conns : l # k => Framing(l)'
      /\ \A f \in Exchanges : f # e => Progress(f)'
  BY <1>1, <1>4, Elsewhere
<1>6. Framing(k)'
  <2>1. \A f \in Exchanges : In(k, f) => f # e
    BY <1>3
  <2>2. \A f \in Exchanges : In(k, f) =>
            /\ whole'[f] = whole[f] /\ taken'[f] = taken[f]
            /\ heard'[f] = heard[f] /\ out'[f] = out[f]
            /\ via'[f] = k <=> via[f] = k
            /\ via[f] = k => told'[f] = told[f]
    BY <1>2, <2>1 DEF Kept
  <2>3. \A f \in Exchanges :
            via'[f] = k /\ taken'[f] > 0 => via[f] = k /\ taken[f] > 0
    BY <1>1, <1>2 DEF Kept
  <2> QED
    BY <1>2, <2>2, <2>3, SameFraming DEF IInv, Framed
<1>7. Progress(e)'
  <2>1. Progress(e) /\ told[e] = << >> /\ Len(told[e]) = 0 /\ k # None
    BY <1>1, Lengths, RelayAssumption DEF IInv, Progressing, Progress
  <2> QED
    BY <1>1, <1>2, <2>1 DEF Progress, Part, Promise!Part, Promise!NotFound
<1>8. Apart'
  <2>1. \A l \in Conns : /\ conn'[l].up = conn[l].up
                         /\ conn'[l].serving = conn[l].serving
    BY <1>2
  <2> QED
    BY <2>1, SameInIt, StaysApart
<1>9. OneOwner'
  BY <1>1, <1>2 DEF OneOwner, IInv, Kept
<1> QED
  BY <1>5, <1>6, <1>7, <1>8, <1>9 DEF IInv, Progressing, Framed

\* A new connection is empty.
LEMMA DialInv ==
    ASSUME IInv, Types', NEW e \in Exchanges, NEW k \in Conns, Dial(e, k)
    PROVE  IInv'
<1>1. /\ pc[e] = "asking" /\ via[e] = None /\ taken[e] = 0 /\ via'[e] = k
      /\ ~conn[k].near /\ \A f \in Exchanges : via[f] # k
  <2>1. ~conn[k].near /\ pc[e] = "asking" /\ via[e] = None /\ via'[e] = k
    BY DEF Dial, Gone, IInv, Types, TypeOK
  <2>2. taken[e] = 0
    BY <2>1, Lengths DEF IInv, Progressing, Progress
  <2> QED
    BY <2>1, <2>2, ClosedIsFree
<1>2. /\ conn'[k].up = << >> /\ conn'[k].down = << >>
      /\ conn'[k].serving = None /\ conn'[k].near
      /\ \A l \in Conns : l # k => conn'[l] = conn[l]
      /\ UNCHANGED <<whole, page, written, caller, heard, told, pc, taken, out,
                     late>>
      /\ \A f \in Exchanges : f # e => Kept(f)
  <2>1. conn'[k] = Fresh /\ \A l \in Conns : l # k => conn'[l] = conn[l]
    BY FreshPipes, OnePipe DEF Dial, IInv, Types
  <2> QED
    BY <2>1, FreshPipes DEF Dial, callers, Kept, IInv, Types, TypeOK
<1>3. \A l \in Conns : ~In(l, e)
  BY <1>1, Nowhere
<1>4. About(e, k)
  BY <1>1, <1>2, <1>3 DEF About, Moves
<1>5. /\ \A l \in Conns : l # k => Framing(l)'
      /\ \A f \in Exchanges : f # e => Progress(f)'
  BY <1>1, <1>4, Elsewhere
<1>6. Framing(k)' /\ \A f \in Exchanges : ~In(k, f)'
  <2>1. \A f \in Exchanges : ~(via'[f] = k /\ taken'[f] > 0)
    BY <1>1, <1>2 DEF Kept
  <2> QED
    BY <1>2, <2>1, NothingInIt
<1>7. Progress(e)'
  <2>1. Progress(e) /\ told[e] = << >> /\ Len(told[e]) = 0 /\ k # None
    BY <1>1, Lengths, RelayAssumption DEF IInv, Progressing, Progress
  <2> QED
    BY <1>1, <1>2, <2>1 DEF Progress, Part, Promise!Part, Promise!NotFound
<1>8. Apart'
  BY <1>2, <1>6, StaysApart, SameInIt
<1>9. OneOwner'
  BY <1>1, <1>2 DEF OneOwner, IInv, Kept
<1> QED
  BY <1>5, <1>6, <1>7, <1>8, <1>9 DEF IInv, Progressing, Framed

\* A connection in the pool is closed, or Misskey closes one.
LEMMA ConnectionClosesInv ==
    ASSUME IInv, Types', NEW k \in Conns, Expire(k) \/ MisskeyCloses(k)
    PROVE  IInv'
<1>1. /\ \A l \in Conns : l # k => conn'[l] = conn[l]
      /\ \A e \in Exchanges : Kept(e)
      /\ UNCHANGED <<whole, page, written, caller, heard, told, pc, via, taken,
                     out, late>>
  BY NearClosedMeans, ClosesMeans
  DEF Expire, MisskeyCloses, callers, Kept, IInv
<1>2. \/ /\ conn'[k].up = conn[k].up /\ conn'[k].serving = conn[k].serving
         /\ conn'[k].down = conn[k].down /\ conn'[k].near = conn[k].near
      \/ /\ \A e \in Exchanges : via[e] # k
         /\ \/ /\ conn'[k].up = conn[k].up /\ conn'[k].serving = conn[k].serving
               /\ conn'[k].down = << >> /\ conn'[k].near = FALSE
            \/ /\ conn'[k].up = << >> /\ conn'[k].serving = None
               /\ conn'[k].down = << >>
  <2>1. CASE Expire(k)
    <3>1. \A e \in Exchanges : via[e] # k
      BY <2>1 DEF Expire, Idle
    <3>2. /\ conn'[k].near = FALSE /\ conn'[k].down = << >>
          /\ \/ /\ conn'[k].up = conn[k].up
                /\ conn'[k].serving = conn[k].serving
             \/ conn'[k].up = << >> /\ conn'[k].serving = None
      BY <2>1, NearClosedMeans, Lengths DEF Expire, IInv, Types, Pipes
    <3> QED
      BY <3>1, <3>2
  <2>2. CASE MisskeyCloses(k)
    <3>1. CASE conn[k].near
      BY <2>2, <3>1, ClosesMeans DEF Ends, IInv
    <3>2. CASE ~conn[k].near
      BY <2>2, <3>2, ClosesMeans, ClosedIsFree, FreshPipes DEF IInv
    <3> QED
      BY <3>1, <3>2
  <2> QED
    BY <2>1, <2>2
<1>3. \A l \in Conns : Framing(l)'
  <2>1. ASSUME NEW l \in Conns, conn'[l].up = conn[l].up,
               conn'[l].serving = conn[l].serving,
               conn'[l].down = conn[l].down, conn'[l].near = conn[l].near
        PROVE  Framing(l)'
    BY <1>1, <2>1, SameFraming DEF IInv, Framed
  <2>2. ASSUME \A e \in Exchanges : via[e] # k, conn'[k].up = conn[k].up,
               conn'[k].serving = conn[k].serving,
               conn'[k].down = << >>, conn'[k].near = FALSE
        PROVE  Framing(k)'
    BY <1>1, <2>2, ClosedFraming DEF IInv, Framed
  <2>3. ASSUME \A e \in Exchanges : via[e] # k, conn'[k].up = << >>,
               conn'[k].serving = None, conn'[k].down = << >>
        PROVE  Framing(k)'
    BY <1>1, <2>3, NothingInIt
  <2> QED
    BY <1>1, <1>2, <2>1, <2>2, <2>3
<1>4. ASSUME NEW e \in Exchanges PROVE Progress(e)'
  <2>1. Progress(e)
    BY DEF IInv, Progressing
  <2>2. via[e] # None => via[e] \in Conns /\ conn[via[e]].near
    BY <2>1, Lengths DEF IInv, Progress
  <2>3. via[e] # None => conn'[via[e]].near
    BY <1>1, <1>2, <2>2
  <2> QED
    BY <1>1, <2>1, <2>3, KeptProgress
<1>5. Apart'
  <2>1. ASSUME NEW e \in Exchanges, In(k, e)' PROVE In(k, e)
    <3>1. CASE conn'[k].up = conn[k].up /\ conn'[k].serving = conn[k].serving
      BY <2>1, <3>1, SameInIt
    <3>2. CASE conn'[k].up = << >> /\ conn'[k].serving = None
      BY <2>1, <3>2, RelayAssumption DEF In
    <3> QED
      BY <1>2, <3>1, <3>2
  <2> QED
    BY <1>1, <2>1, SameInIt, StaysApart
<1>6. OneOwner'
  BY <1>1 DEF OneOwner, IInv
<1> QED
  BY <1>3, <1>4, <1>5, <1>6 DEF IInv, Progressing, Framed

-----------------------------------------------------------------------------
(* An exchange that gives up its connection *)

\* Whatever a caller is told when its exchange gives its connection up.
LEMMA GivesUpInv ==
    ASSUME IInv, Types', NEW e \in Exchanges, GivesUp(e),
           pc[e] = "asking" \/ (pc[e] # "idle" /\ via[e] # None),
           UNCHANGED <<callers, heard, taken, out, late>>,
           told' = [told EXCEPT ![e] = told'[e]],
           \/ pc' = [pc EXCEPT ![e] = "over"]
           \/ pc' = pc /\ pc[e] = "asking" /\ taken[e] = 0 /\ told' = told,
           late[e] /\ told'[e] # << >> =>
              told'[e][1] \in {Part(e, 0), Promise!NotFound}
    PROVE  IInv'
<1> PICK k \in Conns \cup {None} : k = via[e]
  BY Lengths DEF IInv
<1>1. /\ via'[e] = None /\ Moves(e)
      /\ \A f \in Exchanges : via'[f] = via[f] \/ via'[f] = None
      /\ \A l \in Conns : l # k => conn'[l] = conn[l]
  <2>1. /\ via' = [via EXCEPT ![e] = None]
        /\ \A l \in Conns : l # k => conn'[l] = conn[l]
    BY GivesUpMeans DEF IInv
  <2>2. /\ via'[e] = None
        /\ \A f \in Exchanges : f # e => via'[f] = via[f]
    <3>1. via = [f \in Exchanges |-> via[f]]
      BY DEF IInv, Types, TypeOK
    <3> QED
      BY <2>1, <3>1
  <2>3. \A f \in Exchanges : f # e => told'[f] = told[f] /\ pc'[f] = pc[f]
    BY DEF IInv, Types, TypeOK
  <2>4. /\ whole' = whole /\ page' = page /\ written' = written
        /\ caller' = caller /\ heard' = heard /\ taken' = taken /\ out' = out
        /\ late' = late
    BY DEF callers
  <2>5. Moves(e)
    BY <2>2, <2>3, <2>4 DEF Moves, Kept
  <2> QED
    BY <2>1, <2>2, <2>5
<1>2. k = None \/ k \in Conns
  OBVIOUS
<1>3. k = None => conn' = conn
  BY DEF GivesUp
<1>4. k # None =>
         /\ conn'[k].near = FALSE /\ conn'[k].down = << >>
         /\ \/ conn'[k].up = conn[k].up /\ conn'[k].serving = conn[k].serving
            \/ conn'[k].up = << >> /\ conn'[k].serving = None
  BY <1>2, NearClosedMeans, Lengths DEF GivesUp, IInv, Types, Pipes
<1>5. \A f \in Exchanges : f # e => (k # None => via[f] # k)
  BY DEF IInv, OneOwner
<1>6. About(e, k)
  <2>1. CASE k = None
    <3>1. pc[e] = "asking" /\ via[e] = None /\ taken[e] \in Nat /\ Progress(e)
      BY <2>1, Lengths DEF IInv, Progressing
    <3>2. taken[e] = 0
      BY <3>1 DEF Progress
    <3> QED
      BY <1>1, <1>3, <2>1, <3>2, Nowhere, RelayAssumption DEF About
  <2>2. CASE k \in Conns
    BY <1>1, <2>2, NotElsewhere, RelayAssumption DEF About
  <2> QED
    BY <1>2, <2>1, <2>2
<1>7. /\ \A l \in Conns : l # k => Framing(l)'
      /\ \A f \in Exchanges : f # e => Progress(f)'
  BY <1>5, <1>6, Elsewhere, RelayAssumption
<1>8. k \in Conns => Framing(k)'
  <2>1. SUFFICES ASSUME k \in Conns PROVE Framing(k)'
    OBVIOUS
  <2>5. /\ k # None /\ Types /\ Progressing /\ Framing(k)
        /\ \A f \in Exchanges :
              /\ whole'[f] = whole[f] /\ taken'[f] = taken[f]
              /\ heard'[f] = heard[f] /\ out'[f] = out[f]
    BY <2>1, RelayAssumption DEF callers, IInv, Framed
  <2>2. \A f \in Exchanges : via'[f] # k
    BY <1>1, <1>5, <2>1, RelayAssumption DEF Moves, Kept
  <2>3. CASE conn'[k].up = conn[k].up /\ conn'[k].serving = conn[k].serving
    BY <1>4, <2>1, <2>2, <2>3, <2>5, ClosedFraming
  <2>4. CASE conn'[k].up = << >> /\ conn'[k].serving = None
    BY <1>4, <2>1, <2>2, <2>4, <2>5, NothingInIt
  <2> QED
    BY <1>4, <2>3, <2>4, <2>5
<1>9. Progress(e)'
  <2>1. Progress(e)
    BY DEF IInv, Progressing
  <2>2. /\ whole' = whole /\ page' = page /\ written' = written
        /\ caller' = caller /\ heard' = heard /\ taken' = taken /\ out' = out
        /\ late' = late
    BY DEF callers
  <2>3. \/ pc'[e] = "over"
        \/ pc'[e] = "asking" /\ pc[e] = "asking" /\ taken[e] = 0 /\ told' = told
    BY DEF IInv, Types, TypeOK
  <2> QED
    BY <1>1, <2>1, <2>2, <2>3, RelayAssumption
    DEF Progress, Part, Promise!Part, Promise!NotFound
<1>10. Apart'
  <2>1. ASSUME NEW l \in Conns, NEW f \in Exchanges, In(l, f)' PROVE In(l, f)
    <3>1. CASE conn'[l].up = conn[l].up /\ conn'[l].serving = conn[l].serving
      BY <2>1, <3>1, SameInIt
    <3>2. CASE conn'[l].up = << >> /\ conn'[l].serving = None
      BY <2>1, <3>2, RelayAssumption DEF In
    <3> QED
      BY <1>1, <1>3, <1>4, <3>1, <3>2, RelayAssumption
  <2> QED
    BY <2>1, StaysApart
<1>11. OneOwner'
  BY <1>1, NoNewOwner
<1>12. \A l \in Conns : Framing(l)'
  BY <1>2, <1>7, <1>8
<1>13. \A f \in Exchanges : Progress(f)'
  BY <1>7, <1>9
<1> QED
  BY <1>10, <1>11, <1>12, <1>13 DEF IInv, Progressing, Framed

\* What there is to be read of an answer is the exchange's own, and next.
LEMMA NextIsOwn ==
    ASSUME IInv, NEW e \in Exchanges, Answered(e)
    PROVE  LET k == via[e]
           IN  /\ k \in Conns /\ conn[k].near /\ conn[k].serving = e
               /\ heard[e] # << >>
               /\ out[e] = Len(told[e]) + Len(conn[k].down)
               /\ \A i \in 1 .. Len(conn[k].down) :
                     conn[k].down[i] = Part(e, Len(told[e]) + i - 1)
               /\ Len(conn[k].down) > 0
               /\ NextPart(e) = Part(e, Len(told[e]))
               /\ Len(told[e]) <= AnswerEnd
<1> DEFINE k == via[e]
           s == conn[k].serving
<1>1. /\ k \in Conns /\ conn[k].near /\ taken[e] > 0
      /\ Len(conn[k].down) > 0 /\ Len(conn[k].down) \in Nat
      /\ conn[k].down # << >>
  BY Lengths DEF Answered, IInv, Progressing, Progress
<1>2. PICK next \in Exchanges \cup {None} : Carries(k, next)
  BY <1>1 DEF IInv, Framed, Framing
<1>3. Answers(k)
  BY <1>1 DEF IInv, Framed, Framing
<1>4. s \in Exchanges /\ via[s] = k
  BY <1>1, <1>3, Lengths DEF Answers, IInv
<1>5. s = e
  BY <1>1, <1>4, RelayAssumption DEF IInv, OneOwner
<1>6. heard[e] # << >>
  BY <1>2, <1>4, <1>5, RelayAssumption DEF Carries
<1>7. /\ out[e] = Len(told[e]) + Len(conn[k].down)
      /\ \A i \in 1 .. Len(conn[k].down) :
            conn[k].down[i] = Part(e, Len(told[e]) + i - 1)
  BY <1>1, <1>3, <1>4, <1>5, RelayAssumption DEF Answers
<1>8. Len(told[e]) \in Nat /\ out[e] \in Nat /\ out[e] <= AnswerEnd + 1
  BY Lengths DEF IInv
<1>9. Len(told[e]) <= AnswerEnd
  <2>1. AnswerEnd \in Nat
    BY RelayAssumption
  <2>2. out[e] = Len(told[e]) + Len(conn[k].down)
    BY <1>7
  <2>3. Len(conn[k].down) \in Nat /\ Len(conn[k].down) > 0
    BY <1>1
  <2>4. \A a, b, c, d \in Nat : a = b + c /\ c > 0 /\ a <= d + 1 => b <= d
    OBVIOUS
  <2> QED
    BY <1>8, <2>1, <2>2, <2>3, <2>4
<1>10. NextPart(e) = Part(e, Len(told[e]))
  <2>1. conn[k].down[1] = Part(e, Len(told[e]) + 1 - 1)
    BY <1>1, <1>7
  <2>2. NextPart(e) = conn[k].down[1]
    BY <1>1, Lengths DEF NextPart, IInv
  <2> QED
    BY <1>8, <2>1, <2>2
<1> QED
  BY <1>1, <1>5, <1>6, <1>7, <1>9, <1>10

-----------------------------------------------------------------------------
(* An exchange that takes the next part of its answer *)

\* A sequence with one element more.
LEMMA AppendMeans ==
    ASSUME NEW S, NEW s \in Seq(S), NEW x \in S
    PROVE  /\ Append(s, x) \in Seq(S) /\ Append(s, x) # << >>
           /\ Len(Append(s, x)) = Len(s) + 1
           /\ \A i \in 1 .. Len(s) : Append(s, x)[i] = s[i]
           /\ Append(s, x)[Len(s) + 1] = x
<1>1. Len(Append(s, x)) = Len(s) + 1 /\ Len(s) \in Nat
  OBVIOUS
<1>2. Append(s, x) # << >>
  BY <1>1
<1> QED
  BY <1>1, <1>2

\* An answer of which one part more was told.
LEMMA RestOfAnswer ==
    ASSUME NEW e, NEW n \in Nat, NEW o, NEW q \in Seq(Parts), Len(q) > 0,
           o = n + Len(q),
           \A i \in 1 .. Len(q) : q[i] = Part(e, n + i - 1)
    PROVE  /\ o = (n + 1) + Len(Tail(q))
           /\ \A i \in 1 .. Len(Tail(q)) :
                 Tail(q)[i] = Part(e, (n + 1) + i - 1)
<1>1. /\ Len(q) \in Nat /\ Len(Tail(q)) = Len(q) - 1
      /\ \A i \in 1 .. Len(Tail(q)) : Tail(q)[i] = q[i + 1]
  OBVIOUS
<1>2. o = (n + 1) + Len(Tail(q))
  BY <1>1
<1>3. ASSUME NEW i \in 1 .. Len(Tail(q))
      PROVE  Tail(q)[i] = Part(e, (n + 1) + i - 1)
  <2>1. i + 1 \in 1 .. Len(q) /\ i \in Nat
    BY <1>1
  <2>2. Tail(q)[i] = Part(e, n + (i + 1) - 1)
    BY <1>1, <2>1
  <2>3. n + (i + 1) - 1 = (n + 1) + i - 1
    BY <2>1
  <2> QED
    BY <2>2, <2>3
<1> QED
  BY <1>2, <1>3

\* A part of an answer is passed on.
LEMMA TookInv ==
    ASSUME IInv, Types', NEW e \in Exchanges, Answered(e), Took(e), ~page[e],
           pc[e] \in {"asking", "relaying"},
           UNCHANGED <<callers, heard, via, taken, out, late>>,
           told' = [told EXCEPT ![e] = Append(told[e], NextPart(e))],
           pc' = [pc EXCEPT ![e] = IF Len(told[e]) = AnswerEnd
                                   THEN "over" ELSE "relaying"]
    PROVE  IInv'
<1> PICK k \in Conns : k = via[e]
  BY NextIsOwn
<1> PICK n \in Nat : n = Len(told[e])
  BY Lengths DEF IInv
<1>0. AnswerEnd \in Nat \ {0} /\ AnswerEnd \in Nat
  BY RelayAssumption
<1>1. /\ conn[k].near /\ conn[k].serving = e
      /\ heard[e] # << >> /\ out[e] = n + Len(conn[k].down)
      /\ \A i \in 1 .. Len(conn[k].down) :
            conn[k].down[i] = Part(e, n + i - 1)
      /\ Len(conn[k].down) > 0 /\ NextPart(e) = Part(e, n)
      /\ n <= AnswerEnd
      /\ Len(conn[k].down) \in Nat /\ conn[k].down \in Seq(Parts)
  <2>1. Len(conn[k].down) \in Nat /\ conn[k].down \in Seq(Parts)
    BY Lengths DEF IInv
  <2> QED
    BY <2>1, NextIsOwn
<1>2. /\ \A l \in Conns : l # k => conn'[l] = conn[l]
      /\ conn'[k].near = conn[k].near
      /\ conn'[k].up = conn[k].up /\ conn'[k].serving = e
      /\ conn'[k].down = Tail(conn[k].down)
  BY <1>1, TookMeans DEF Ends, IInv
<1>3. /\ whole' = whole /\ page' = page /\ written' = written
      /\ caller' = caller /\ heard' = heard /\ taken' = taken /\ out' = out
      /\ late' = late /\ via' = via
  BY DEF callers
<1>4. /\ told[e] \in Seq(Given) /\ Part(e, n) \in Given
      /\ told'[e] = Append(told[e], Part(e, n))
  BY <1>1, PartTypes DEF IInv, Types
<1>5. /\ Len(told'[e]) = n + 1 /\ told'[e] # << >>
      /\ \A i \in 1 .. n : told'[e][i] = told[e][i]
      /\ told'[e][n + 1] = Part(e, n)
  BY <1>4, AppendMeans
<1>6. /\ out[e] = (n + 1) + Len(conn'[k].down)
      /\ \A i \in 1 .. Len(conn'[k].down) :
            conn'[k].down[i] = Part(e, (n + 1) + i - 1)
  <2>1. PICK q \in Seq(Parts) : q = conn[k].down
    BY <1>1
  <2>2. /\ Len(q) > 0 /\ out[e] = n + Len(q)
        /\ \A i \in 1 .. Len(q) : q[i] = Part(e, n + i - 1)
    BY <1>1, <2>1
  <2>3. /\ out[e] = (n + 1) + Len(Tail(q))
        /\ \A i \in 1 .. Len(Tail(q)) :
              Tail(q)[i] = Part(e, (n + 1) + i - 1)
    BY <2>2, RestOfAnswer, ZenonT(40)
  <2> QED
    BY <1>2, <2>1, <2>3
<1>7. Moves(e)
  <2>1. \A f \in Exchanges : f # e => told'[f] = told[f] /\ pc'[f] = pc[f]
    BY DEF IInv, Types, TypeOK
  <2> QED
    BY <1>3, <2>1 DEF Moves, Kept
<1>8. About(e, k)
  <2>1. \A l \in Conns : l # k => ~In(l, e) /\ via[e] # l
    BY NotElsewhere
  <2> QED
    BY <1>2, <1>3, <1>7, <2>1 DEF About
<1>9. /\ \A l \in Conns : l # k => Framing(l)'
      /\ \A f \in Exchanges : f # e => Progress(f)'
  BY <1>1, <1>2, <1>8, Elsewhere
<1>10. Framing(k)'
  <2>1. PICK next \in Exchanges \cup {None} :
            Carries(k, next) /\ (conn[k].near /\ next # None => via[next] = k)
    BY DEF IInv, Framed, Framing
  <2>2. Carries(k, next)'
    BY <1>1, <1>2, <1>3, <2>1 DEF Carries, Rest, Part, Promise!Part
  <2>3. /\ out'[e] = Len(told'[e]) + Len(conn'[k].down)
        /\ \A i \in 1 .. Len(conn'[k].down) :
              conn'[k].down[i] = Part(e, Len(told'[e]) + i - 1)
    BY <1>3, <1>5, <1>6
  <2>4. /\ conn'[k].near /\ conn'[k].serving = e /\ via'[e] = k
        /\ e # None
    BY <1>1, <1>2, <1>3, RelayAssumption
  <2>5. Answers(k)'
    BY <2>3, <2>4 DEF Answers
  <2> QED
    BY <1>2, <1>3, <2>1, <2>2, <2>5 DEF Framing
<1>11. Progress(e)'
  <2>1. Progress(e) /\ k # None
    BY RelayAssumption DEF IInv, Progressing
  <2>2. \A i \in 1 .. Len(told'[e]) : told'[e][i] = Part(e, i - 1)
    <3>1. \A i \in 1 .. n : told[e][i] = Part(e, i - 1)
      BY <2>1 DEF Progress
    <3>2. \A i \in 1 .. n + 1 : i \in 1 .. n \/ i = n + 1
      OBVIOUS
    <3>3. (n + 1) - 1 = n
      OBVIOUS
    <3> QED
      BY <1>5, <3>1, <3>2, <3>3
  <2>3. told'[e][1] = Part(e, 1 - 1)
    BY <1>1, <1>5, <2>2
  <2>4. \/ n = AnswerEnd /\ pc'[e] = "over"
        \/ n < AnswerEnd /\ pc'[e] = "relaying"
    BY <1>0, <1>1 DEF IInv, Types, TypeOK
  <2>5. taken[e] > 0 /\ conn'[via'[e]].near /\ via'[e] # None
    BY <1>1, <1>2, <1>3, <2>1 DEF Answered
  <2>6. /\ Len(told'[e]) = n + 1 /\ told'[e] # << >>
        /\ n < AnswerEnd => n + 1 \in 1 .. AnswerEnd
    BY <1>0, <1>5
  <2>7. /\ pc[e] # "idle" /\ pc'[e] # "idle" /\ pc'[e] # "asking"
        /\ heard[e] # << >> /\ ~page[e] /\ n <= AnswerEnd
    BY <1>1, <2>4
  <2>8. told'[e][1] = Part(e, 0)
    BY <2>3
  <2> QED
    BY <1>0, <1>3, <2>1, <2>2, <2>4, <2>5, <2>6, <2>7, <2>8
    DEF Progress, Part, Promise!Part, Promise!NotFound
<1>12. Apart'
  <2>1. \A l \in Conns : /\ conn'[l].up = conn[l].up
                         /\ conn'[l].serving = conn[l].serving
    BY <1>1, <1>2
  <2> QED
    BY <2>1, SameInIt, StaysApart
<1>13. OneOwner'
  BY <1>3, NoNewOwner
<1>14. \A l \in Conns : Framing(l)'
  BY <1>9, <1>10
<1>15. \A f \in Exchanges : Progress(f)'
  BY <1>9, <1>11
<1> QED
  BY <1>12, <1>13, <1>14, <1>15 DEF IInv, Progressing, Framed

-----------------------------------------------------------------------------
(* An exchange that leaves its connection as it is *)

\* An answer that is over has nothing left in its connection.
LEMMA OverMeans ==
    ASSUME IInv, NEW e \in Exchanges, NEW k \in Conns, via[e] = k,
           pc[e] = "over"
    PROVE  /\ conn[k].near /\ conn[k].serving = e /\ Carries(k, None)
           /\ conn[k].down = << >> /\ out[e] = AnswerEnd + 1
<1>1. /\ Progress(e) /\ Len(told[e]) = AnswerEnd + 1 /\ told[e] # << >>
      /\ heard[e] # << >> /\ conn[k].near /\ taken[e] > 0
  <2>1. k # None /\ AnswerEnd \in Nat
    BY RelayAssumption
  <2>2. Progress(e) /\ Len(told[e]) = AnswerEnd + 1 /\ conn[k].near
    BY <2>1 DEF IInv, Progressing, Progress
  <2>3. told[e] # << >>
    BY <2>1, <2>2, Lengths DEF IInv
  <2>4. heard[e] # << >> /\ Len(heard[e]) <= taken[e]
    BY <2>1, <2>2, <2>3 DEF Progress
  <2> QED
    BY <2>2, <2>3, <2>4, Lengths DEF IInv
<1>2. PICK next \in Exchanges \cup {None} : Carries(k, next)
  BY DEF IInv, Framed, Framing
<1>3. e = conn[k].serving
  BY <1>1, <1>2, RelayAssumption DEF Carries
<1>4. next = None
  BY <1>2, <1>3, RelayAssumption DEF Carries
<1>5. Answers(k)
  BY DEF IInv, Framed, Framing
<1>6. out[e] = (AnswerEnd + 1) + Len(conn[k].down)
  BY <1>1, <1>3, <1>5, RelayAssumption DEF Answers
<1>7. /\ out[e] \in Nat /\ out[e] <= AnswerEnd + 1 /\ Len(conn[k].down) \in Nat
      /\ conn[k].down = << >> <=> Len(conn[k].down) = 0
      /\ AnswerEnd \in Nat
  BY Lengths, RelayAssumption DEF IInv
<1>8. Len(conn[k].down) = 0 /\ out[e] = AnswerEnd + 1
  BY <1>6, <1>7
<1> QED
  BY <1>1, <1>2, <1>3, <1>4, <1>7, <1>8

\* A connection goes back to the pool: the exchange had nothing of it, or its
\* request and its answer are all through.
LEMMA LetsGoInv ==
    ASSUME IInv, Types', NEW e \in Exchanges, pc[e] # "idle",
           UNCHANGED <<callers, heard, told, taken, out, late, conn>>,
           via' = [via EXCEPT ![e] = None], pc' = [pc EXCEPT ![e] = "over"],
           \/ taken[e] = 0
           \/ pc[e] = "over" /\ via[e] # None /\ taken[e] = whole[e]
    PROVE  IInv'
<1> PICK k \in Conns \cup {None} : k = via[e]
  BY Lengths DEF IInv
<1>1. /\ whole' = whole /\ page' = page /\ written' = written
      /\ caller' = caller /\ heard' = heard /\ taken' = taken /\ out' = out
      /\ late' = late /\ told' = told /\ conn' = conn
  BY DEF callers
<1>2. /\ via'[e] = None /\ pc'[e] = "over"
      /\ \A f \in Exchanges : f # e => via'[f] = via[f] /\ pc'[f] = pc[f]
  BY DEF IInv, Types, TypeOK
<1>3. Moves(e)
  BY <1>1, <1>2 DEF Moves, Kept
<1>4. About(e, k)
  <2>1. CASE k = None
    <3>1. \A l \in Conns : ~In(l, e)
      BY <2>1, Nowhere
    <3> QED
      BY <1>1, <1>2, <1>3, <3>1, RelayAssumption DEF About
  <2>2. CASE k \in Conns
    BY <1>1, <1>2, <1>3, <2>2, NotElsewhere, RelayAssumption DEF About
  <2> QED
    BY <2>1, <2>2
<1>5. \A f \in Exchanges : f # e /\ via[f] = k /\ k \in Conns => conn'[k].near
  BY <1>1, RelayAssumption DEF IInv, OneOwner
<1>6. /\ \A l \in Conns : l # k => Framing(l)'
      /\ \A f \in Exchanges : f # e => Progress(f)'
  BY <1>4, <1>5, Elsewhere
<1>7. ASSUME k \in Conns PROVE Framing(k)'
  <2>1. \A f \in Exchanges : f # e => via[f] # k
    BY <1>7, RelayAssumption DEF IInv, OneOwner
  <2>2. \A f \in Exchanges : via'[f] # k
    BY <1>2, <1>7, <2>1, RelayAssumption
  <2>3. CASE taken[e] = 0
    <3>1. \A f \in Exchanges : In(k, f) => f # e
      BY <1>7, <2>3, Nowhere
    <3>2. \A f \in Exchanges : In(k, f) =>
              /\ whole'[f] = whole[f] /\ taken'[f] = taken[f]
              /\ heard'[f] = heard[f] /\ out'[f] = out[f]
              /\ via'[f] = k <=> via[f] = k
              /\ via[f] = k => told'[f] = told[f]
      BY <1>1, <1>2, <3>1
    <3> QED
      BY <1>1, <1>7, <2>2, <3>2, SameFraming DEF IInv, Framed
  <2>4. CASE pc[e] = "over" /\ via[e] # None /\ taken[e] = whole[e]
    <3>1. /\ conn[k].near /\ conn[k].serving = e /\ Carries(k, None)
          /\ conn[k].down = << >> /\ out[e] = AnswerEnd + 1
      BY <1>7, <2>4, OverMeans
    <3>2. Carries(k, None)'
      <4>1. Rest(k)' = Rest(k)
        BY <1>1 DEF Rest
      <4>2. \A f \in Exchanges : via'[f] = k /\ taken'[f] > 0 => FALSE
        BY <2>2
      <4> QED
        BY <1>1, <3>1, <4>1, <4>2, ZenonT(30) DEF Carries, Part, Promise!Part
    <3>3. Answers(k)'
      BY <1>1, <2>2, <2>4, <3>1, RelayAssumption DEF Answers
    <3> QED
      BY <3>2, <3>3 DEF Framing
  <2> QED
    BY <2>3, <2>4
<1>8. Progress(e)'
  <2>1. Progress(e)
    BY DEF IInv, Progressing
  <2> QED
    BY <1>1, <1>2, <2>1 DEF Progress, Part, Promise!Part, Promise!NotFound
<1>9. Apart'
  BY <1>1, SameInIt, StaysApart
<1>10. OneOwner'
  BY <1>2, NoNewOwner
<1>11. \A l \in Conns : Framing(l)'
  BY <1>6, <1>7
<1>12. \A f \in Exchanges : Progress(f)'
  BY <1>6, <1>8
<1> QED
  BY <1>9, <1>10, <1>11, <1>12 DEF IInv, Progressing, Framed

-----------------------------------------------------------------------------
(* A part goes into a connection *)

\* How Framing is shown of a connection.
LEMMA FramingIs ==
    ASSUME NEW k \in Conns, NEW next \in Exchanges \cup {None},
           Carries(k, next)', Answers(k)', next # None => via'[next] = k
    PROVE  Framing(k)'
  BY DEF Framing

\* Nothing about the way back changes.
LEMMA AnswersKept ==
    ASSUME NEW k \in Conns, Answers(k),
           conn'[k].near = conn[k].near, conn'[k].down = conn[k].down,
           conn'[k].serving = conn[k].serving,
           via' = via, told' = told, out' = out, whole' = whole,
           LET s == conn[k].serving
           IN  s # None /\ via[s] # k => taken'[s] = taken[s]
    PROVE  Answers(k)'
<1> PICK s : s = conn[k].serving
  OBVIOUS
<1>1. s = None \/ ~conn[k].near => conn[k].down = << >>
  BY DEF Answers
<1>2. CASE s = None
  BY <1>1, <1>2 DEF Answers
<1>3. CASE s # None /\ via[s] = k
  <2>1. conn[k].near =>
            /\ out[s] = Len(told[s]) + Len(conn[k].down)
            /\ \A i \in 1 .. Len(conn[k].down) :
                  conn[k].down[i] = Part(s, Len(told[s]) + i - 1)
    BY <1>3 DEF Answers
  <2> QED
    BY <1>1, <1>3, <2>1, ZenonT(30) DEF Answers
<1>4. CASE s # None /\ via[s] # k
  <2>1. conn[k].near => /\ conn[k].down = << >>
                        /\ taken[s] = whole[s] /\ out[s] = AnswerEnd + 1
    BY <1>4 DEF Answers
  <2> QED
    BY <1>1, <1>4, <2>1 DEF Answers
<1> QED
  BY <1>2, <1>3, <1>4

\* A part of a request follows what its connection carries.
LEMMA PumpInv ==
    ASSUME IInv, Types', NEW e \in Exchanges, Pump(e)
    PROVE  IInv'
<1> PICK k \in Conns : k = via[e]
  BY PumpMeans DEF IInv
<1> PICK t \in Nat : t = taken[e]
  BY Lengths DEF IInv
<1>1. /\ pc[e] # "idle" /\ taken[e] < written[e] /\ k # None
      /\ taken' = [taken EXCEPT ![e] = @ + 1]
      /\ whole' = whole /\ page' = page /\ written' = written
      /\ caller' = caller /\ heard' = heard /\ out' = out
      /\ late' = late /\ told' = told /\ pc' = pc /\ via' = via
  BY RelayAssumption DEF Pump, MaySend, callers
<1>2. taken'[e] = t + 1 /\ \A f \in Exchanges : f # e => taken'[f] = taken[f]
  BY <1>1 DEF IInv, Types
<1>3. /\ \A l \in Conns : l # k => conn'[l] = conn[l]
      /\ conn'[k].near = conn[k].near /\ conn'[k].down = conn[k].down
      /\ conn'[k].serving = conn[k].serving
      /\ conn'[k].up = Append(conn[k].up, Part(e, t))
      /\ conn[k].up \in Seq(Parts) /\ Part(e, t) \in Parts
  BY PumpMeans DEF Ends, IInv
<1>4. /\ Len(conn'[k].up) = Len(conn[k].up) + 1
      /\ \A i \in 1 .. Len(conn[k].up) : conn'[k].up[i] = conn[k].up[i]
      /\ conn'[k].up[Len(conn[k].up) + 1] = Part(e, t)
  BY <1>3, AppendMeans
<1>5. conn[k].near /\ Progress(e)
  BY <1>1 DEF IInv, Progressing, Progress
<1>6. \A f \in Exchanges : via[f] = k => f = e
  BY <1>1 DEF IInv, OneOwner
<1>7. \A l \in Conns : l # k => ~In(l, e) /\ via[e] # l
  BY NotElsewhere
<1>8. About(e, k)
  BY <1>1, <1>2, <1>3, <1>7 DEF About, Moves, Kept
<1>9. /\ \A l \in Conns : l # k => Framing(l)'
      /\ \A f \in Exchanges : f # e => Progress(f)'
  BY <1>3, <1>5, <1>8, Elsewhere
<1>10. PICK next \in Exchanges \cup {None} :
           Carries(k, next) /\ (conn[k].near /\ next # None => via[next] = k)
  BY DEF IInv, Framed, Framing
<1>11. Answers(k)
  BY DEF IInv, Framed, Framing
<1> DEFINE s == conn[k].serving
<1>12. PICK r \in Nat : r = Rest(k)
  BY RestType DEF IInv
<1>13. /\ s \in Exchanges \cup {None} /\ Len(conn[k].up) \in Nat
       /\ Len(heard[e]) \in Nat
  BY Lengths DEF IInv
<1>14. next # None => next = e
  BY <1>5, <1>6, <1>10, RelayAssumption
\* The first part of a request follows what is there; the others continue it.
<1>15. ASSUME s = e PROVE Framing(k)'
  <2>1. next = None
    BY <1>1, <1>10, <1>15, RelayAssumption DEF Carries
  <2>2. r = t - Len(heard[e]) /\ Len(conn[k].up) = r
    BY <1>10, <1>12, <1>15, <2>1, RelayAssumption DEF Carries, Rest
  <2>3. Rest(k)' = r + 1
    <3>1. Rest(k)' = (t + 1) - Len(heard[e])
      BY <1>1, <1>2, <1>3, <1>15, RelayAssumption DEF Rest
    <3> QED
      BY <1>13, <2>2, <3>1
  <2>4. \A i \in 1 .. Len(conn'[k].up) :
            conn'[k].up[i] = Part(e, Len(heard[e]) + i - 1)
    <3>1. \A i \in 1 .. Len(conn[k].up) :
              conn[k].up[i] = Part(e, Len(heard[e]) + i - 1)
      BY <1>10, <1>12, <1>15, <2>2 DEF Carries
    <3>2. t = Len(heard[e]) + (r + 1) - 1
      BY <1>13, <2>2
    <3>3. conn'[k].up[r + 1] = Part(e, Len(heard[e]) + (r + 1) - 1)
      BY <1>4, <2>2, <3>2
    <3>4. \A i \in 1 .. Len(conn'[k].up) :
              i \in 1 .. Len(conn[k].up) \/ i = r + 1
      BY <1>4, <1>13, <2>2
    <3> QED
      BY <1>4, <3>1, <3>3, <3>4
  <2>5. Len(conn'[k].up) = r + 1
    BY <1>4, <2>2
  <2>6. heard[e] # << >> /\ e # None
    BY <1>10, <1>15, RelayAssumption DEF Carries
  <2>7. \A f \in Exchanges : via'[f] = k => f = e
    BY <1>1, <1>6
  <2>8. Carries(k, None)'
    <3>1. conn'[k].serving = e /\ heard'[e] = heard[e]
      BY <1>1, <1>3, <1>15
    <3>2. \A i \in 1 .. r + 1 : i <= r + 1
      OBVIOUS
    <3> QED
      BY <2>3, <2>4, <2>5, <2>6, <2>7, <3>1, <3>2 DEF Carries
  <2>9. Answers(k)'
    BY <1>1, <1>3, <1>11, <1>15, AnswersKept
  <2> QED
    BY <2>8, <2>9, FramingIs
<1>16. ASSUME s # e PROVE Framing(k)'
  <2>1. /\ Len(conn[k].up) = r + t /\ heard[e] = << >>
        /\ \A i \in 1 .. Len(conn[k].up) :
              conn[k].up[i] = IF i <= r THEN Part(s, Len(heard[s]) + i - 1)
                                        ELSE Part(e, i - r - 1)
        /\ s # None => /\ via[s] # k
                       /\ taken[s] = whole[s] /\ out[s] = AnswerEnd + 1
    <3>1. CASE next = e
      BY <1>1, <1>10, <1>12, <3>1, RelayAssumption DEF Carries
    <3>2. CASE next = None
      <4>1. t = 0
        BY <1>1, <1>10, <1>16, <3>2, RelayAssumption DEF Carries
      <4>2. heard[e] = << >>
        BY <1>5, <1>13, <4>1, Lengths DEF IInv, Progress
      <4>3. Len(conn[k].up) = r
        BY <1>10, <1>12, <3>2 DEF Carries
      <4>4. \A i \in 1 .. Len(conn[k].up) :
                i <= r /\ conn[k].up[i] = Part(s, Len(heard[s]) + i - 1)
        BY <1>10, <1>12, <4>3 DEF Carries
      <4>5. s # None => via[s] # k
        BY <1>6, <1>13, <1>16, RelayAssumption
      <4>6. s # None => taken[s] = whole[s] /\ out[s] = AnswerEnd + 1
        BY <1>5, <1>11, <4>5 DEF Answers
      <4> QED
        BY <4>1, <4>2, <4>3, <4>4, <4>5, <4>6
    <3> QED
      BY <1>14, <3>1, <3>2
  <2>2. s # None => s \in Exchanges /\ heard[s] # << >> /\ taken'[s] = taken[s]
    BY <1>2, <1>10, <1>13, <1>16 DEF Carries
  <2>3. Rest(k)' = r
    BY <1>1, <1>3, <1>12, <2>2 DEF Rest
  <2>4. /\ Len(conn'[k].up) = r + (t + 1) /\ Len(conn[k].up) + 1 = r + (t + 1)
        /\ (r + (t + 1)) - r - 1 = t /\ ~(r + (t + 1) <= r)
    BY <1>4, <2>1
  <2>5. \A i \in 1 .. Len(conn'[k].up) :
            conn'[k].up[i] = IF i <= r THEN Part(s, Len(heard[s]) + i - 1)
                                       ELSE Part(e, i - r - 1)
    <3>1. ASSUME NEW i \in 1 .. Len(conn[k].up)
          PROVE  conn'[k].up[i] = IF i <= r
                                  THEN Part(s, Len(heard[s]) + i - 1)
                                  ELSE Part(e, i - r - 1)
      BY <1>4, <2>1
    <3>2. conn'[k].up[r + (t + 1)] = Part(e, (r + (t + 1)) - r - 1)
      BY <1>4, <2>4
    <3>3. \A i \in 1 .. Len(conn'[k].up) :
              i \in 1 .. Len(conn[k].up) \/ i = r + (t + 1)
      <4>1. PICK l \in Nat, m \in Nat :
                l = Len(conn[k].up) /\ m = r + (t + 1)
        BY <1>13, <2>1
      <4>2. l + 1 = m
        BY <2>4, <4>1
      <4>3. \A i \in 1 .. m : i \in 1 .. l \/ i = m
        BY <4>2
      <4> QED
        BY <2>4, <4>1, <4>3
    <3> QED
      BY <2>4, <3>1, <3>2, <3>3
  <2>6. /\ taken'[e] > 0 /\ e # None /\ e # s
        /\ \A f \in Exchanges : via'[f] = k => f = e
    BY <1>1, <1>2, <1>6, <1>16, RelayAssumption
  <2>7. Carries(k, e)'
    BY <1>1, <1>2, <1>3, <2>1, <2>2, <2>3, <2>4, <2>5, <2>6, ZenonT(30)
    DEF Carries
  <2>8. Answers(k)'
    BY <1>1, <1>3, <1>11, <2>2, AnswersKept
  <2>9. via'[e] = k
    BY <1>1
  <2> QED
    BY <2>7, <2>8, <2>9, FramingIs
<1>17. Framing(k)'
  BY <1>15, <1>16
<1>18. Progress(e)'
  <2>1. /\ conn'[k].near /\ t + 1 > 0 /\ Len(heard[e]) <= t
        /\ Len(heard[e]) <= t + 1
    BY <1>3, <1>5, <1>13 DEF Progress
  <2> QED
    BY <1>1, <1>2, <1>5, <2>1 DEF Progress, Part, Promise!Part, Promise!NotFound
<1>19. Apart'
  <2>1. \A f \in Exchanges : In(k, f)' => In(k, f) \/ f = e
    <3> SUFFICES ASSUME NEW f \in Exchanges, In(k, f)', f # e PROVE In(k, f)
      OBVIOUS
    <3>1. CASE conn'[k].serving = f
      BY <1>3, <3>1 DEF In
    <3>2. ASSUME NEW i \in 1 .. Len(conn'[k].up), conn'[k].up[i].of = f
          PROVE  In(k, f)
      <4>1. i # Len(conn[k].up) + 1
        BY <1>4, <3>2, PartTypes
      <4>2. i \in 1 .. Len(conn[k].up)
        BY <1>4, <1>13, <4>1
      <4> QED
        BY <1>4, <3>2, <4>2 DEF In
    <3> QED
      BY <3>1, <3>2 DEF In
  <2>2. \A l \in Conns, f \in Exchanges :
            l # k /\ In(l, f)' => In(l, f) /\ f # e
    BY <1>3, <1>7, SameInIt
  <2> QED
    BY <2>1, <2>2 DEF IInv, Apart
<1>20. OneOwner'
  BY <1>1, NoNewOwner
<1>21. \A l \in Conns : Framing(l)'
  BY <1>9, <1>17
<1>22. \A f \in Exchanges : Progress(f)'
  BY <1>9, <1>18
<1> QED
  BY <1>19, <1>20, <1>21, <1>22 DEF IInv, Progressing, Framed

-----------------------------------------------------------------------------
(* Misskey reads, and writes *)

\* A sequence without its first element.
LEMMA TailMeans ==
    ASSUME NEW S, NEW q \in Seq(S), q # << >>
    PROVE  /\ Tail(q) \in Seq(S) /\ Len(Tail(q)) \in Nat
           /\ Len(Tail(q)) = Len(q) - 1 /\ Len(q) > 0
           /\ \A i \in 1 .. Len(Tail(q)) :
                 i + 1 \in 1 .. Len(q) /\ Tail(q)[i] = q[i + 1]
  OBVIOUS

\* What Misskey reads is the next part of a request, and it has been sent.
HandsOver(e) ==
    /\ e \in Exchanges /\ Len(heard[e]) < taken[e]
    /\ heard' = [heard EXCEPT ![e] = Append(@, Part(e, Len(heard[e])))]

\* Misskey reads: what it takes for the rest of a request is that, and where
\* a request ends the next one begins.
LEMMA ReadsInv ==
    ASSUME IInv, Types', NEW k \in Conns, MisskeyReads(k)
    PROVE  IInv' /\ HandsOver(Reader(k))
<1> PICK e \in Exchanges : e = Reader(k)
  BY ReadsMeans DEF IInv
<1> PICK old \in Exchanges \cup {None} : old = conn[k].serving
  BY Lengths DEF IInv
<1> PICK q \in Seq(Parts) : q = conn[k].up
  BY Lengths DEF IInv
<1> PICK h \in Nat : h = Len(heard[e])
  BY Lengths DEF IInv
<1>1. /\ \A l \in Conns : l # k => conn'[l] = conn[l]
      /\ conn'[k].near = conn[k].near /\ conn'[k].down = conn[k].down
      /\ conn'[k].serving = e /\ conn'[k].up = Tail(q)
      /\ q # << >> /\ q[1] \in Parts
      /\ heard' = [heard EXCEPT ![e] = Append(@, q[1])]
  BY ReadsMeans DEF Ends, IInv
<1>2. /\ whole' = whole /\ page' = page /\ written' = written
      /\ caller' = caller /\ taken' = taken /\ out' = out /\ late' = late
      /\ told' = told /\ pc' = pc /\ via' = via
  BY DEF MisskeyReads, callers
<1>3. /\ Len(heard'[e]) = h + 1 /\ heard'[e] # << >>
      /\ \A f \in Exchanges : f # e => heard'[f] = heard[f]
  BY <1>1, AppendMeans, SMTT(30) DEF IInv, Types
<1>4. /\ Len(Tail(q)) = Len(q) - 1 /\ Len(q) > 0 /\ Len(q) \in Nat
      /\ Len(Tail(q)) \in Nat
      /\ \A i \in 1 .. Len(Tail(q)) :
            i + 1 \in 1 .. Len(q) /\ Tail(q)[i] = q[i + 1]
  BY <1>1, TailMeans
<1>5. PICK next \in Exchanges \cup {None} :
          Carries(k, next) /\ (conn[k].near /\ next # None => via[next] = k)
  BY DEF IInv, Framed, Framing
<1>6. Answers(k) /\ Progress(e)
  BY DEF IInv, Framed, Framing, Progressing
<1>7. PICK r \in Nat : r = Rest(k)
  BY RestType DEF IInv
<1>8. /\ Len(q) = r + IF next = None THEN 0 ELSE taken[next]
      /\ \A i \in 1 .. Len(q) :
            q[i] = IF i <= r THEN Part(old, Len(heard[old]) + i - 1)
                             ELSE Part(next, i - r - 1)
      /\ old # None => heard[old] # << >>
      /\ next # None =>
            /\ taken[next] > 0 /\ heard[next] = << >> /\ next # old
            /\ old # None =>
                  /\ via[old] # k
                  /\ taken[old] = whole[old] /\ out[old] = AnswerEnd + 1
      /\ \A f \in Exchanges : via[f] = k /\ taken[f] > 0 => f = old \/ f = next
  BY <1>5, <1>7 DEF Carries
<1>9. e = IF old = None \/ Len(heard[old]) = whole[old]
          THEN q[1].of ELSE old
  <2>1. Head(q) = q[1]
    BY <1>1
  <2> QED
    BY <2>1, Zenon DEF Reader
<1>10. old # None => /\ r = taken[old] - Len(heard[old])
                     /\ taken[old] <= whole[old]
                     /\ Len(heard[old]) <= taken[old]
                     /\ taken[old] \in Nat /\ whole[old] \in Nat
                     /\ Len(heard[old]) \in Nat
  BY <1>7, Lengths DEF Rest, IInv, Progressing, Progress
<1>11. old = None => r = 0
  BY <1>7 DEF Rest
<1>12. 1 \in 1 .. Len(q)
  BY <1>4
\* It reads on in the request that it serves, or takes up the next.
<1>13. ASSUME old # None, Len(heard[old]) # whole[old]
       PROVE  e = old /\ r > 0 /\ q[1] = Part(e, h)
  <2>1. e = old /\ h = Len(heard[old])
    BY <1>9, <1>13
  <2>2. r > 0
    <3>1. CASE next = None
      BY <1>4, <1>8, <3>1
    <3>2. CASE next # None
      <4>1. taken[old] = whole[old]
        BY <1>8, <1>13, <3>2
      <4> QED
        BY <1>10, <1>13, <4>1
    <3> QED
      BY <3>1, <3>2
  <2>3. q[1] = Part(old, Len(heard[old]) + 1 - 1)
    BY <1>8, <1>12, <2>2
  <2>4. h + 1 - 1 = h
    OBVIOUS
  <2> QED
    BY <2>1, <2>2, <2>3, <2>4
<1>14. ASSUME old = None \/ Len(heard[old]) = whole[old]
       PROVE  /\ r = 0 /\ next # None /\ e = next /\ e # old
              /\ h = 0 /\ q[1] = Part(e, h)
  <2>1. r = 0
    BY <1>10, <1>11, <1>14
  <2>2. next # None
    BY <1>4, <1>8, <2>1
  <2>3. q[1] = Part(next, 1 - 0 - 1)
    BY <1>8, <1>12, <2>1
  <2>4. e = next
    BY <1>9, <1>14, <2>3, PartTypes
  <2>5. e # old /\ h = 0
    BY <1>8, <2>2, <2>4, Lengths DEF IInv
  <2> QED
    BY <2>1, <2>2, <2>3, <2>4, <2>5
<1>15. In(k, e)
  <2>1. CASE old # None /\ Len(heard[old]) # whole[old]
    BY <1>13, <2>1 DEF In
  <2>2. CASE old = None \/ Len(heard[old]) = whole[old]
    BY <1>12, <1>14, <2>2, PartTypes DEF In
  <2> QED
    BY <2>1, <2>2
<1>16. About(e, k)
  <2>1. \A l \in Conns : l # k => ~In(l, e) /\ via[e] # l
    BY <1>15, NotElsewhere
  <2> QED
    BY <1>1, <1>2, <1>3, <2>1 DEF About, Moves, Kept
<1>17. \A f \in Exchanges : via[f] = k => conn[k].near
  BY RelayAssumption DEF IInv, Progressing, Progress
<1>18. /\ \A l \in Conns : l # k => Framing(l)'
       /\ \A f \in Exchanges : f # e => Progress(f)'
  BY <1>1, <1>16, <1>17, Elsewhere
<1>19. ~late[e] /\ h + 1 <= taken[e]
  <2>1. /\ late[e] => Len(heard[e]) = whole[e] /\ out[e] > 0
        /\ out[e] > 0 => heard[e] # << >>
    BY <1>6 DEF Progress
  <2>2. CASE old # None /\ Len(heard[old]) # whole[old]
    <3>1. e = old /\ r > 0
      BY <1>13, <2>2
    <3>2. ~late[e]
      BY <2>1, <2>2, <3>1
    <3>3. PICK w, b, d \in Nat : w = taken[e] /\ b = h /\ d = r
      BY <1>10, <2>2, <3>1
    <3>4. d = w - b /\ d > 0
      BY <1>10, <2>2, <3>1, <3>3
    <3>5. b + 1 <= w
      BY <3>4
    <3> QED
      BY <3>2, <3>3, <3>5
  <2>3. CASE old = None \/ Len(heard[old]) = whole[old]
    BY <1>8, <1>14, <2>1, <2>3, Lengths DEF IInv
  <2> QED
    BY <2>2, <2>3
<1>20. ASSUME old # None, Len(heard[old]) # whole[old] PROVE Framing(k)'
  <2>1. e = old /\ r > 0 /\ r - 1 \in Nat /\ e # None
    BY <1>13, <1>20
  <2>2. Rest(k)' = r - 1
    <3>1. Rest(k)' = taken[e] - (h + 1)
      BY <1>1, <1>2, <1>3, <2>1 DEF Rest
    <3>2. PICK w \in Nat : w = taken[e]
      BY <1>10, <2>1
    <3>3. r = w - h
      BY <1>10, <2>1, <3>2
    <3>4. w - (h + 1) = r - 1
      BY <3>3
    <3> QED
      BY <3>1, <3>2, <3>4
  <2>3. Len(Tail(q)) = (r - 1) + IF next = None THEN 0 ELSE taken[next]
    <3>1. (IF next = None THEN 0 ELSE taken[next]) \in Nat
      BY Lengths DEF IInv
    <3> QED
      BY <1>4, <1>8, <2>1, <3>1
  <2>4. \A i \in 1 .. Len(Tail(q)) :
            Tail(q)[i] = IF i <= r - 1 THEN Part(e, (h + 1) + i - 1)
                                       ELSE Part(next, i - (r - 1) - 1)
    <3> SUFFICES ASSUME NEW i \in 1 .. Len(Tail(q))
                 PROVE  Tail(q)[i] = IF i <= r - 1
                                     THEN Part(e, (h + 1) + i - 1)
                                     ELSE Part(next, i - (r - 1) - 1)
      OBVIOUS
    <3>1. i + 1 \in 1 .. Len(q) /\ Tail(q)[i] = q[i + 1] /\ i \in Nat
      BY <1>4
    <3>2. q[i + 1] = IF i + 1 <= r THEN Part(e, h + (i + 1) - 1)
                                   ELSE Part(next, (i + 1) - r - 1)
      BY <1>8, <2>1, <3>1
    <3>3. /\ h + (i + 1) - 1 = (h + 1) + i - 1
          /\ (i + 1) - r - 1 = i - (r - 1) - 1
          /\ i + 1 <= r <=> i <= r - 1
      BY <3>1
    <3> QED
      BY <3>1, <3>2, <3>3
  <2>5. /\ next # None =>
              /\ taken[next] > 0 /\ heard'[next] = << >> /\ next # e
              /\ via[e] # k /\ taken[e] = whole[e] /\ out[e] = AnswerEnd + 1
        /\ \A f \in Exchanges :
              via[f] = k /\ taken[f] > 0 => f = e \/ f = next
    BY <1>3, <1>8, <2>1
  <2>6. Carries(k, next)'
    BY <1>1, <1>2, <1>3, <2>1, <2>2, <2>3, <2>4, <2>5 DEF Carries
  <2>7. Answers(k)'
    BY <1>1, <1>2, <1>6, <2>1, AnswersKept
  <2> QED
    BY <1>1, <1>2, <1>5, <2>6, <2>7 DEF Framing
<1>21. ASSUME old = None \/ Len(heard[old]) = whole[old] PROVE Framing(k)'
  <2>1. /\ r = 0 /\ next = e /\ e # old /\ h = 0 /\ e # None
        /\ heard[e] = << >> /\ taken[e] \in Nat /\ taken[e] > 0
        /\ Len(q) = taken[e]
    BY <1>8, <1>14, <1>21, Lengths, RelayAssumption DEF IInv
  <2>2. Rest(k)' = taken[e] - 1
    BY <1>1, <1>2, <1>3, <2>1 DEF Rest
  <2>3. \A i \in 1 .. Len(Tail(q)) :
            i <= taken[e] - 1 /\ Tail(q)[i] = Part(e, 1 + i - 1)
    <3> SUFFICES ASSUME NEW i \in 1 .. Len(Tail(q))
                 PROVE  /\ i <= taken[e] - 1
                        /\ Tail(q)[i] = Part(e, 1 + i - 1)
      OBVIOUS
    <3>1. i + 1 \in 1 .. Len(q) /\ Tail(q)[i] = q[i + 1] /\ i \in Nat
      BY <1>4
    <3>2. ~(i + 1 <= r)
      BY <2>1, <3>1
    <3>3. q[i + 1] = Part(e, (i + 1) - r - 1)
      BY <1>8, <2>1, <3>1, <3>2
    <3>4. (i + 1) - r - 1 = 1 + i - 1 /\ i <= taken[e] - 1
      BY <2>1, <3>1
    <3> QED
      BY <3>1, <3>3, <3>4
  <2>4. \A f \in Exchanges : via[f] = k /\ taken[f] > 0 => f = e
    BY <1>8, <2>1, RelayAssumption
  <2>5. Len(Tail(q)) = taken[e] - 1 /\ Len(heard'[e]) = 1
    BY <1>3, <1>4, <2>1
  <2>6. Carries(k, None)'
    BY <1>1, <1>2, <1>3, <2>1, <2>2, <2>3, <2>4, <2>5 DEF Carries
  <2>7. conn[k].down = << >>
    BY <1>6, <1>8, <2>1 DEF Answers
  <2>8. out[e] = 0
    BY <1>6, <2>1, Lengths DEF IInv, Progress
  <2>9. conn[k].near => via[e] = k /\ told[e] = << >>
    BY <1>5, <1>6, <2>1, RelayAssumption DEF Progress
  <2>10. Len(<< >>) = 0
    OBVIOUS
  <2>11. Answers(k)'
    BY <1>1, <1>2, <2>1, <2>7, <2>8, <2>9, <2>10 DEF Answers
  <2> QED
    BY <2>6, <2>11, FramingIs
<1>22. Framing(k)'
  BY <1>20, <1>21
<1>23. Progress(e)'
  <2>1. via[e] # None => conn'[via[e]].near
    BY <1>1, <1>6, Lengths DEF IInv, Progress
  <2> QED
    BY <1>2, <1>3, <1>6, <1>19, <2>1
    DEF Progress, Part, Promise!Part, Promise!NotFound
<1>24. Apart'
  <2>1. ASSUME NEW f \in Exchanges, In(k, f)' PROVE In(k, f)
    <3>1. CASE conn'[k].serving = f
      BY <1>1, <1>15, <3>1
    <3>2. ASSUME NEW i \in 1 .. Len(conn'[k].up), conn'[k].up[i].of = f
          PROVE  In(k, f)
      BY <1>1, <1>4, <3>2 DEF In
    <3> QED
      BY <2>1, <3>1, <3>2 DEF In
  <2> QED
    BY <1>1, <2>1, SameInIt, StaysApart
<1>25. OneOwner'
  BY <1>2, NoNewOwner
<1>26. \A l \in Conns : Framing(l)'
  BY <1>18, <1>22
<1>27. \A f \in Exchanges : Progress(f)'
  BY <1>18, <1>23
<1>28. HandsOver(e)
  <2>1. q[1] = Part(e, h) /\ h < taken[e]
    BY <1>13, <1>14, <1>19, Lengths DEF IInv
  <2> QED
    BY <1>1, <2>1 DEF HandsOver
<1> QED
  BY <1>24, <1>25, <1>26, <1>27, <1>28 DEF IInv, Progressing, Framed

\* Misskey answers: what it writes follows what it wrote before.
LEMMA WritesInv ==
    ASSUME IInv, Types', NEW k \in Conns, MisskeyWrites(k)
    PROVE  IInv'
<1> PICK e \in Exchanges : e = conn[k].serving
  BY WritesMeans DEF IInv
<1> PICK q \in Seq(Parts) : q = conn[k].down
  BY Lengths DEF IInv
<1> PICK o \in Nat : o = out[e]
  BY Lengths DEF IInv
<1> PICK n \in Nat : n = Len(told[e])
  BY Lengths DEF IInv
<1>1. /\ conn[k].near /\ o <= AnswerEnd /\ AnswerEnd \in Nat /\ e # None
      /\ out' = [out EXCEPT ![e] = @ + 1]
      /\ late' = [late EXCEPT ![e] =
                     @ \/ (out[e] = 0 /\ Len(heard[e]) = whole[e])]
      /\ whole' = whole /\ page' = page /\ written' = written
      /\ caller' = caller /\ taken' = taken /\ heard' = heard
      /\ told' = told /\ pc' = pc /\ via' = via
  BY RelayAssumption DEF MisskeyWrites, callers
<1>2. /\ out'[e] = o + 1
      /\ late'[e] => late[e] \/ (o = 0 /\ Len(heard[e]) = whole[e])
      /\ \A f \in Exchanges : f # e => out'[f] = out[f] /\ late'[f] = late[f]
  BY <1>1 DEF IInv, Types, TypeOK
<1>3. /\ \A l \in Conns : l # k => conn'[l] = conn[l]
      /\ conn'[k].near = conn[k].near /\ conn'[k].up = conn[k].up
      /\ conn'[k].serving = e /\ conn'[k].down = Append(q, Part(e, o))
      /\ Part(e, o) \in Parts
  BY WritesMeans DEF Ends, IInv
<1>4. /\ Len(conn'[k].down) = Len(q) + 1 /\ Len(q) \in Nat
      /\ \A i \in 1 .. Len(q) : conn'[k].down[i] = q[i]
      /\ conn'[k].down[Len(q) + 1] = Part(e, o)
  BY <1>3, AppendMeans
<1>5. PICK next \in Exchanges \cup {None} :
          Carries(k, next) /\ (conn[k].near /\ next # None => via[next] = k)
  BY DEF IInv, Framed, Framing
<1>6. Answers(k) /\ Progress(e)
  BY DEF IInv, Framed, Framing, Progressing
<1>7. via[e] = k
  BY <1>1, <1>6 DEF Answers
<1>8. /\ o = n + Len(q)
      /\ \A i \in 1 .. Len(q) : q[i] = Part(e, n + i - 1)
  BY <1>1, <1>6, <1>7 DEF Answers
<1>9. next = None /\ heard[e] # << >>
  BY <1>1, <1>5, <1>7 DEF Carries
<1>10. \A f \in Exchanges : via[f] = k => f = e
  BY <1>1, <1>7, RelayAssumption DEF IInv, OneOwner
<1>11. About(e, k)
  <2>1. \A l \in Conns : l # k => ~In(l, e) /\ via[e] # l
    BY <1>7, NotElsewhere
  <2> QED
    BY <1>1, <1>2, <1>3, <2>1 DEF About, Moves, Kept
<1>12. /\ \A l \in Conns : l # k => Framing(l)'
       /\ \A f \in Exchanges : f # e => Progress(f)'
  BY <1>1, <1>3, <1>11, Elsewhere
<1>13. Carries(k, None)'
  <2>1. Rest(k)' = Rest(k)
    BY <1>1, <1>3 DEF Rest
  <2> QED
    BY <1>1, <1>3, <1>5, <1>9, <2>1 DEF Carries, Part, Promise!Part
<1>14. Answers(k)'
  <2>1. /\ o + 1 = n + Len(conn'[k].down)
        /\ \A i \in 1 .. Len(conn'[k].down) :
              conn'[k].down[i] = Part(e, n + i - 1)
    <3>1. PICK a, b, l \in Nat : a = o /\ b = n /\ l = Len(q)
      BY <1>4
    <3>2. PICK w : w = conn'[k].down
      OBVIOUS
    <3>3. /\ Len(w) = l + 1 /\ w[l + 1] = Part(e, a)
          /\ \A i \in 1 .. l : w[i] = q[i]
          /\ \A i \in 1 .. l : q[i] = Part(e, b + i - 1)
      BY <1>4, <1>8, <3>1, <3>2
    <3>4. a = b + l
      BY <1>8, <3>1
    <3>5. a + 1 = b + (l + 1) /\ a = b + (l + 1) - 1
      BY <3>4
    <3>6. \A i \in 1 .. l + 1 : i \in 1 .. l \/ i = l + 1
      OBVIOUS
    <3>7. \A i \in 1 .. l + 1 : w[i] = Part(e, b + i - 1)
      BY <3>3, <3>5, <3>6
    <3> QED
      BY <3>1, <3>2, <3>3, <3>5, <3>7
  <2>2. /\ conn'[k].near /\ conn'[k].serving = e /\ via'[e] = k
        /\ out'[e] = Len(told'[e]) + Len(conn'[k].down)
        /\ \A i \in 1 .. Len(conn'[k].down) :
              conn'[k].down[i] = Part(e, Len(told'[e]) + i - 1)
    <3>1. conn'[k].near /\ conn'[k].serving = e /\ via'[e] = k
      BY <1>1, <1>3, <1>7
    <3>2. out'[e] = o + 1 /\ n = Len(told'[e])
      BY <1>1, <1>2
    <3> QED
      BY <2>1, <3>1, <3>2, Zenon
  <2> QED
    BY <1>1, <2>2 DEF Answers
<1>15. Framing(k)'
  BY <1>13, <1>14, FramingIs
<1>16. Progress(e)'
  <2>1. o = 0 => told[e] = << >>
    <3>1. told[e] = << >> <=> n = 0
      BY Lengths DEF IInv
    <3>2. \A l \in Nat : 0 = n + l => n = 0
      OBVIOUS
    <3> QED
      BY <1>4, <1>8, <3>1, <3>2
  <2>2. conn'[k].near /\ k # None /\ o + 1 > 0
    BY <1>1, <1>3, RelayAssumption
  <2>3. late'[e] /\ ~late[e] => told[e] = << >> /\ Len(heard[e]) = whole[e]
    BY <1>2, <2>1
  <2>4. late[e] => Len(heard[e]) = whole[e]
    BY <1>6 DEF Progress
  <2> QED
    BY <1>1, <1>2, <1>6, <1>7, <1>9, <2>2, <2>3, <2>4
    DEF Progress, Part, Promise!Part, Promise!NotFound
<1>17. Apart'
  BY <1>3, SameInIt, StaysApart
<1>18. OneOwner'
  BY <1>1, NoNewOwner
<1>19. \A l \in Conns : Framing(l)'
  BY <1>12, <1>15
<1>20. \A f \in Exchanges : Progress(f)'
  BY <1>12, <1>16
<1> QED
  BY <1>17, <1>18, <1>19, <1>20 DEF IInv, Progressing, Framed

-----------------------------------------------------------------------------
(* forward's steps *)

\* Before the caller was told anything of an answer to a request that was
\* read to its end, the answer is still there to be read, and nothing is on
\* its way to Misskey.
LEMMA LateMeans ==
    ASSUME IInv, NEW e \in Exchanges, late[e], pc[e] = "asking"
    PROVE  /\ via[e] # None /\ taken[e] > 0 /\ taken[e] = whole[e]
           /\ conn[via[e]].up = << >> /\ conn[via[e]].down # << >>
<1>1. Progress(e)
  BY DEF IInv, Progressing
<1>2. /\ Len(heard[e]) = whole[e] /\ out[e] > 0 /\ told[e] = << >>
      /\ heard[e] # << >>
  BY <1>1 DEF Progress
<1>3. taken[e] > 0 /\ taken[e] = whole[e]
  BY <1>1, <1>2, Lengths DEF IInv, Progress
<1>4. via[e] # None
  BY <1>1, <1>3 DEF Progress
<1>5. PICK k \in Conns : k = via[e]
  BY <1>4, Lengths DEF IInv
<1>6. PICK next \in Exchanges \cup {None} : Carries(k, next)
  BY DEF IInv, Framed, Framing
<1>7. conn[k].serving = e
  BY <1>2, <1>3, <1>5, <1>6, RelayAssumption DEF Carries
<1>8. next = None /\ Rest(k) = 0
  <2>1. e # None /\ Len(heard[e]) = taken[e] /\ taken[e] \in Nat
    BY <1>2, <1>3, Lengths, RelayAssumption DEF IInv
  <2>2. Rest(k) = 0
    BY <1>7, <2>1 DEF Rest
  <2> QED
    BY <1>5, <1>6, <1>7, <2>1, <2>2 DEF Carries
<1>9. Len(conn[k].up) = 0
  BY <1>6, <1>8 DEF Carries
<1>10. /\ conn[k].up \in Seq(Parts) /\ conn[k].down \in Seq(Parts)
       /\ conn[k].near
  BY <1>1, <1>4, <1>5 DEF IInv, Types, Pipes, Progress
<1>11. out[e] = Len(told[e]) + Len(conn[k].down)
  BY <1>5, <1>7, <1>10, RelayAssumption DEF IInv, Framed, Framing, Answers
<1>12. Len(conn[k].down) > 0
  <2>1. out[e] = 0 + Len(conn[k].down)
    BY <1>2, <1>11
  <2> QED
    BY <1>2, <1>10, <2>1
<1> QED
  BY <1>3, <1>4, <1>5, <1>9, <1>10, <1>12, Empty

\* What the first thing that a caller is told changes.
LEMMA BeginMeans ==
    ASSUME IInv, NEW e \in Exchanges, NEW first, Begin(e, first)
    PROVE  /\ told' = [told EXCEPT ![e] = told'[e]]
           /\ \A f \in Exchanges : f # e => told'[f] = told[f]
           /\ \/ told'[e] = <<first>>
              \/ taken[e] < whole[e] /\ told'[e] = <<Promise!Reset>>
  BY DEF Begin, IInv, Types

\* Nothing of the request that is retried was sent.
LEMMA RetryInv ==
    ASSUME IInv, Types', NEW e \in Exchanges, Retry(e)
    PROVE  IInv'
<1>1. /\ told' = [told EXCEPT ![e] = told'[e]] /\ told' = told
      /\ pc[e] = "asking" /\ taken[e] = 0 /\ pc' = pc /\ GivesUp(e)
      /\ UNCHANGED <<callers, heard, taken, out, late>>
  BY DEF Retry, Canceled, IInv, Types
<1>2. told'[e] = << >>
  BY <1>1 DEF IInv, Progressing, Progress
<1> QED
  BY <1>1, <1>2, GivesUpInv

\* A request does not fail whose answer came late.
LEMMA UpstreamFailsInv ==
    ASSUME IInv, Types', NEW e \in Exchanges, UpstreamFails(e)
    PROVE  IInv'
<1>1. /\ told' = [told EXCEPT ![e] = told'[e]] /\ GivesUp(e)
      /\ pc[e] = "asking" /\ pc' = [pc EXCEPT ![e] = "over"]
      /\ UNCHANGED <<callers, heard, taken, out, late>>
  BY BeginMeans DEF UpstreamFails
<1>2. ~late[e]
  BY <1>1, LateMeans, Lengths
  DEF UpstreamFails, DialFails, Broken, Canceled, IInv
<1> QED
  BY <1>1, <1>2, GivesUpInv

\* A page is the answer to the request that gets a 404 for it.
LEMMA UpstreamSendsPageInv ==
    ASSUME IInv, Types', NEW e \in Exchanges, UpstreamSendsPage(e)
    PROVE  IInv'
<1>1. /\ told' = [told EXCEPT ![e] = told'[e]] /\ GivesUp(e)
      /\ pc[e] = "asking" /\ pc' = [pc EXCEPT ![e] = "over"]
      /\ UNCHANGED <<callers, heard, taken, out, late>>
  BY BeginMeans DEF UpstreamSendsPage, DropPage
<1>2. late[e] => told'[e] = <<Promise!NotFound>>
  BY <1>1, LateMeans, BeginMeans, Lengths DEF UpstreamSendsPage, IInv
<1>3. late[e] => told'[e][1] = Promise!NotFound
  BY <1>2
<1> QED
  BY <1>1, <1>3, GivesUpInv

\* What an answer begins with: its head, unless that is lost.
LEMMA AnswerBegins ==
    ASSUME IInv, NEW e \in Exchanges, UpstreamAnswers(e)
    PROVE  /\ told[e] = << >> /\ NextPart(e) = Part(e, 0) /\ ~page[e]
           /\ heard[e] # << >> /\ Answered(e)
           /\ Part(e, 0) # Promise!Reset /\ <<Part(e, 0)>> # <<Promise!Reset>>
           /\ \/ /\ told'[e] = <<Part(e, 0)>> /\ Took(e) /\ via' = via
                 /\ pc' = [pc EXCEPT ![e] = "relaying"]
              \/ /\ told'[e] = <<Promise!Reset>> /\ taken[e] < whole[e]
                 /\ GivesUp(e) /\ pc' = [pc EXCEPT ![e] = "over"]
<1>1. told[e] = << >>
  BY DEF UpstreamAnswers, IInv, Progressing, Progress
<1>2. Answered(e) /\ NextPart(e) = Part(e, Len(told[e])) /\ heard[e] # << >>
  BY NextIsOwn DEF UpstreamAnswers
<1>3. NextPart(e) = Part(e, 0)
  BY <1>1, <1>2
<1>4. ~page[e]
  BY <1>3, PartTypes DEF UpstreamAnswers
<1>5. Part(e, 0).of # Promise!Reset.of
  BY RelayAssumption DEF Part, Promise!Part, Promise!Reset
<1>6. <<Part(e, 0)>>[1] # <<Promise!Reset>>[1]
  BY <1>5
<1>7. \/ told'[e] = <<Part(e, 0)>>
      \/ taken[e] < whole[e] /\ told'[e] = <<Promise!Reset>>
  BY <1>3, BeginMeans DEF UpstreamAnswers
<1> QED
  BY <1>1, <1>2, <1>3, <1>4, <1>5, <1>6, <1>7 DEF UpstreamAnswers

\* The head of an answer is passed on, or lost to a reset.
LEMMA UpstreamAnswersInv ==
    ASSUME IInv, Types', NEW e \in Exchanges, UpstreamAnswers(e)
    PROVE  IInv'
<1>1. /\ told' = [told EXCEPT ![e] = told'[e]] /\ pc[e] = "asking"
      /\ UNCHANGED <<callers, heard, taken, out, late>>
  BY BeginMeans DEF UpstreamAnswers
<1>2. CASE told'[e] = <<Promise!Reset>>
  <2>1. /\ taken[e] < whole[e] /\ GivesUp(e)
        /\ pc' = [pc EXCEPT ![e] = "over"]
    BY <1>2, AnswerBegins
  <2>2. ~late[e]
    BY <1>1, <2>1, LateMeans, Lengths DEF IInv
  <2> QED
    BY <1>1, <2>1, <2>2, GivesUpInv
<1>3. CASE told'[e] # <<Promise!Reset>>
  <2>1. /\ told[e] = << >> /\ ~page[e] /\ Answered(e) /\ Took(e) /\ via' = via
        /\ told'[e] = <<NextPart(e)>>
        /\ pc' = [pc EXCEPT ![e] = "relaying"]
    BY <1>3, AnswerBegins
  <2>2. Append(told[e], NextPart(e)) = <<NextPart(e)>>
    BY <2>1
  <2>3. told' = [told EXCEPT ![e] = Append(told[e], NextPart(e))]
    BY <1>1, <2>1, <2>2
  <2>4. Len(told[e]) # AnswerEnd
    BY <2>1, RelayAssumption
  <2>5. pc' = [pc EXCEPT ![e] = IF Len(told[e]) = AnswerEnd
                                THEN "over" ELSE "relaying"]
    BY <2>1, <2>4
  <2> QED
    BY <1>1, <2>1, <2>3, <2>5, TookInv
<1> QED
  BY <1>2, <1>3

\* The part of an answer that is passed on is the next one.
LEMMA RelayPartInv ==
    ASSUME IInv, Types', NEW e \in Exchanges, RelayPart(e)
    PROVE  IInv'
<1>1. /\ pc[e] = "relaying" /\ Answered(e) /\ Took(e)
      /\ told' = [told EXCEPT ![e] = Append(told[e], NextPart(e))]
      /\ UNCHANGED <<callers, heard, via, taken, out, late>>
  BY DEF RelayPart
<1>2. ~page[e]
  BY <1>1 DEF IInv, Progressing, Progress
<1>3. NextPart(e).n = Len(told[e])
  <2>1. NextPart(e) = Part(e, Len(told[e]))
    BY <1>1, NextIsOwn
  <2> QED
    BY <2>1 DEF Part, Promise!Part
<1>4. pc' = [pc EXCEPT ![e] = IF Len(told[e]) = AnswerEnd
                              THEN "over" ELSE "relaying"]
  BY <1>1, <1>3 DEF RelayPart, IInv, Types, TypeOK
<1> QED
  BY <1>1, <1>2, <1>4, TookInv

\* An answer is cut off after its head.
LEMMA TruncateInv ==
    ASSUME IInv, Types', NEW e \in Exchanges, Truncate(e)
    PROVE  IInv'
<1>1. /\ pc[e] = "relaying" /\ via[e] # None /\ GivesUp(e)
      /\ told'[e] = Append(told[e], Promise!Cut)
      /\ told' = [told EXCEPT ![e] = told'[e]]
      /\ pc' = [pc EXCEPT ![e] = "over"]
      /\ UNCHANGED <<callers, heard, taken, out, late>>
  BY DEF Truncate, Broken, IInv, Types
<1>2. told[e] \in Seq(Given) /\ Promise!Cut \in Given
  BY PartTypes DEF IInv, Types
<1>3. /\ Len(told[e]) \in 1 .. AnswerEnd /\ told[e] # << >>
      /\ late[e] => told[e][1] \in {Part(e, 0), Promise!NotFound}
  <2>1. Progress(e) /\ Len(told[e]) \in 1 .. AnswerEnd
    BY <1>1 DEF IInv, Progressing, Progress
  <2>2. told[e] # << >>
    BY <2>1
  <2> QED
    BY <2>1, <2>2 DEF Progress
<1>4. told'[e][1] = told[e][1]
  <2>1. 1 \in 1 .. Len(told[e])
    BY <1>3, RelayAssumption
  <2> QED
    BY <1>1, <1>2, <2>1, AppendMeans
<1> QED
  BY <1>1, <1>3, <1>4, GivesUpInv

\* The caller is gone.
LEMMA CallerGoneInv ==
    ASSUME IInv, Types', NEW e \in Exchanges, CallerGone(e)
    PROVE  IInv'
<1>1. /\ pc[e] \in {"asking", "relaying"} /\ told' = told
      /\ told' = [told EXCEPT ![e] = told'[e]]
      /\ pc' = [pc EXCEPT ![e] = "over"]
      /\ UNCHANGED <<callers, heard, taken, out, late>>
      /\ IF taken[e] = 0
         THEN via' = [via EXCEPT ![e] = None] /\ UNCHANGED conn
         ELSE GivesUp(e)
  BY DEF CallerGone, IInv, Types
<1>2. Progress(e)
  BY DEF IInv, Progressing
<1>3. CASE taken[e] = 0
  BY <1>1, <1>3, LetsGoInv
<1>4. CASE taken[e] # 0
  <2>1. late[e] /\ told'[e] # << >> =>
           told'[e][1] \in {Part(e, 0), Promise!NotFound}
    BY <1>1, <1>2 DEF Progress
  <2>2. pc[e] = "asking" \/ (pc[e] # "idle" /\ via[e] # None)
    BY <1>1, <1>2 DEF Progress
  <2> QED
    BY <1>1, <1>4, <2>1, <2>2, GivesUpInv
<1> QED
  BY <1>3, <1>4

\* The exchange is over, and its connection carries nothing more of it back.
LEMMA ReleaseInv ==
    ASSUME IInv, Types', NEW e \in Exchanges, Release(e)
    PROVE  IInv'
<1>1. pc' = [pc EXCEPT ![e] = "over"]
  BY DEF Release, IInv, Types, TypeOK
<1> QED
  BY <1>1, LetsGoInv DEF Release

\* The rest of a request's body is abandoned with the connection.
LEMMA AbandonBodyInv ==
    ASSUME IInv, Types', NEW e \in Exchanges, AbandonBody(e)
    PROVE  IInv'
<1>1. /\ pc[e] = "over" /\ via[e] # None /\ GivesUp(e) /\ told' = told
      /\ told' = [told EXCEPT ![e] = told'[e]]
      /\ pc' = [pc EXCEPT ![e] = "over"]
      /\ UNCHANGED <<callers, heard, taken, out, late>>
  BY DEF AbandonBody, IInv, Types, TypeOK
<1>2. late[e] /\ told'[e] # << >> =>
         told'[e][1] \in {Part(e, 0), Promise!NotFound}
  BY <1>1 DEF IInv, Progressing, Progress
<1> QED
  BY <1>1, <1>2, GivesUpInv

-----------------------------------------------------------------------------
(* The invariant *)

\* The invariant holds at first, when no connection is there,
LEMMA InitInv == Init => IInv
<1> SUFFICES ASSUME Init PROVE IInv
  OBVIOUS
<1> USE RelayAssumption
<1>1. Types
  BY InitTypes
<1>2. \A k \in Conns : /\ conn[k].up = << >> /\ conn[k].down = << >>
                       /\ conn[k].serving = None
  BY FreshPipes DEF Init
<1>3. Len(<< >>) = 0 /\ \A i \in 1 .. 0 : FALSE
  OBVIOUS
<1>4. Progressing
  <2> SUFFICES ASSUME NEW e \in Exchanges PROVE Progress(e)
    BY DEF Progressing
  <2>1. /\ pc[e] = "idle" /\ caller[e] = "waiting" /\ via[e] = None
        /\ written[e] = 0 /\ taken[e] = 0 /\ out[e] = 0 /\ late[e] = FALSE
        /\ heard[e] = << >> /\ told[e] = << >>
    BY DEF Init
  <2> QED
    BY <1>3, <2>1 DEF Progress
<1>5. OneOwner
  BY DEF Init, OneOwner
<1>6. Framed
  <2> SUFFICES ASSUME NEW k \in Conns PROVE Framing(k)
    BY DEF Framed
  <2>1. Carries(k, None)
    BY <1>2, <1>3 DEF Init, Carries, Rest
  <2>2. Answers(k)
    BY <1>2 DEF Answers
  <2> QED
    BY <2>1, <2>2 DEF Framing
<1>7. Apart
  BY <1>2, <1>3 DEF Apart, In
<1> QED
  BY <1>1, <1>4, <1>5, <1>6, <1>7 DEF IInv

\* every step keeps it,
LEMMA NextInv == IInv /\ [Next]_vars => IInv'
<1> SUFFICES ASSUME IInv, [Next]_vars PROVE IInv'
  OBVIOUS
<1>1. Types'
  BY TypesKept DEF IInv
<1>2. ASSUME NEW e \in Exchanges, Caller(e) \/ Proxy(e) PROVE IInv'
  <2>1. CASE Caller(e)
    BY <1>1, <2>1, CallerInv
  <2>2. ASSUME NEW k \in Conns, Checkout(e, k) \/ Dial(e, k) PROVE IInv'
    BY <1>1, <2>2, CheckoutInv, DialInv
  <2>3. CASE Pump(e)
    BY <1>1, <2>3, PumpInv
  <2>4. CASE Retry(e)
    BY <1>1, <2>4, RetryInv
  <2>5. CASE UpstreamFails(e)
    BY <1>1, <2>5, UpstreamFailsInv
  <2>6. CASE UpstreamSendsPage(e)
    BY <1>1, <2>6, UpstreamSendsPageInv
  <2>7. CASE UpstreamAnswers(e)
    BY <1>1, <2>7, UpstreamAnswersInv
  <2>8. CASE RelayPart(e)
    BY <1>1, <2>8, RelayPartInv
  <2>9. CASE Truncate(e)
    BY <1>1, <2>9, TruncateInv
  <2>10. CASE CallerGone(e)
    BY <1>1, <2>10, CallerGoneInv
  <2>11. CASE Release(e)
    BY <1>1, <2>11, ReleaseInv
  <2>12. CASE AbandonBody(e)
    BY <1>1, <2>12, AbandonBodyInv
  <2> QED
    BY <1>2, <2>1, <2>2, <2>3, <2>4, <2>5, <2>6, <2>7, <2>8, <2>9, <2>10,
       <2>11, <2>12 DEF Proxy
<1>3. ASSUME NEW k \in Conns, Expire(k) \/ Misskey(k) PROVE IInv'
  BY <1>1, <1>3, ConnectionClosesInv, ReadsInv, WritesInv DEF Misskey
<1>4. ASSUME UNCHANGED vars PROVE IInv'
  <2>1. UNCHANGED <<whole, page, written, caller, heard, told, pc, via, taken,
                    out, late, conn>>
    BY <1>4 DEF vars, callers
  <2>2. \A e \in Exchanges : Progress(e)'
    BY <2>1, KeptProgress DEF IInv, Progressing, Progress, Kept
  <2>3. \A k \in Conns : Framing(k)'
    BY <1>1, <2>1, SameFraming DEF IInv, Framed
  <2>4. Apart' /\ OneOwner'
    BY <2>1 DEF IInv, Apart, OneOwner, In
  <2> QED
    BY <1>1, <2>2, <2>3, <2>4 DEF IInv, Progressing, Framed
<1> QED
  BY <1>2, <1>3, <1>4 DEF Next

\* and so it holds throughout: what is on its way in a connection is the rest
\* of the request that Misskey serves there and the beginning of at most one
\* other, what comes back continues what its caller was told, and no exchange
\* is in two connections.
THEOREM InvHolds == Spec => []IInv
  BY InitInv, NextInv, PTL DEF Spec

\* Type correctness of the relay.
THEOREM TypeCorrect == Spec => []TypeOK
<1>1. IInv => TypeOK
  BY DEF IInv, Types
<1> QED
  BY <1>1, InvHolds, PTL

\* An answer that Misskey begins after it has read a request to its end is not
\* replaced by a 502, nor lost to a reset of the caller's connection: only an
\* early answer may be (proxy.rs:61-67).
THEOREM NoLateAnswerIsLost == Spec => []LateAnswersArrive
<1>1. IInv => LateAnswersArrive
  BY DEF IInv, Progressing, Progress, LateAnswersArrive
<1> QED
  BY <1>1, InvHolds, PTL

-----------------------------------------------------------------------------
(* Relay implements Delivery *)

\* What the caller of a relayed answer has been told is a beginning of it.
LEMMA ToldIsBeginning ==
    ASSUME IInv, NEW e \in Exchanges, via[e] # None
    PROVE  told[e] = Promise!Parts(e, Len(told[e]))
<1>1. /\ told[e] \in Seq(Given)
      /\ \A i \in 1 .. Len(told[e]) : told[e][i] = Part(e, i - 1)
  BY DEF IInv, Types, Progressing, Progress
<1>2. told[e] = [i \in 1 .. Len(told[e]) |-> told[e][i]]
  BY <1>1
<1> QED
  BY <1>1, <1>2 DEF Promise!Parts, Part

\* A first thing that the caller is told.
LEMMA BeginsIs ==
    ASSUME IInv, NEW e \in Exchanges, pc[e] = "asking",
           NEW first \in {Part(e, 0), Promise!NotFound, Promise!BadGateway},
           first = Part(e, 0) => heard[e] # << >> /\ ~page[e],
           first = Promise!NotFound => heard[e] # << >> /\ page[e],
           Begin(e, first), UNCHANGED <<whole, page, written, heard>>
    PROVE  Promise!Begins(e)
<1>1. Progress(e)
  BY DEF IInv, Progressing
<1>2. told[e] = << >> /\ written[e] > 0
  BY <1>1, Lengths DEF IInv, Progress
<1>3. CASE told' = [told EXCEPT ![e] = <<first>>]
  <2>1. first = Promise!Reset => Len(heard[e]) < whole[e]
    BY RelayAssumption
    DEF Part, Promise!Part, Promise!Reset, Promise!NotFound,
        Promise!BadGateway
  <2> QED
    BY <1>2, <1>3, <2>1 DEF Promise!Begins, Part
<1>4. CASE taken[e] < whole[e] /\ told' = [told EXCEPT ![e] = <<Promise!Reset>>]
  <2>1. Len(heard[e]) < whole[e]
    BY <1>1, <1>4, Lengths DEF IInv, Progress
  <2>2. /\ Promise!Reset # Part(e, 0) /\ Promise!Reset # Promise!NotFound
    BY RelayAssumption
    DEF Part, Promise!Part, Promise!Reset, Promise!NotFound
  <2> QED
    BY <1>2, <1>4, <2>1, <2>2 DEF Promise!Begins, Part
<1> QED
  BY <1>3, <1>4 DEF Begin

\* What the proxy does is a step of Delivery's or none that it tells apart,
LEMMA ProxyImplements ==
    ASSUME IInv, NEW e \in Exchanges, Proxy(e)
    PROVE  Promise!DNext \/ UNCHANGED Promise!dVars
<1> USE DEF Promise!dVars, callers
<1>1. CASE \/ \E k \in Conns : Checkout(e, k) \/ Dial(e, k)
           \/ Pump(e) \/ Retry(e) \/ CallerGone(e) \/ Release(e)
           \/ AbandonBody(e)
  BY <1>1 DEF Checkout, Dial, Pump, Retry, CallerGone, Release, AbandonBody
<1>2. CASE UpstreamFails(e)
  <2>1. /\ Promise!BadGateway # Part(e, 0)
        /\ Promise!BadGateway # Promise!NotFound
    BY RelayAssumption
    DEF Part, Promise!Part, Promise!BadGateway, Promise!NotFound
  <2>2. Promise!Begins(e)
    BY <1>2, <2>1, BeginsIs DEF UpstreamFails
  <2> QED
    BY <2>2 DEF Promise!DNext
<1>3. CASE UpstreamSendsPage(e)
  <2>1. Answered(e) /\ pc[e] = "asking" /\ page[NextPart(e).of]
    BY <1>3 DEF UpstreamSendsPage
  <2>2. NextPart(e) = Part(e, Len(told[e])) /\ heard[e] # << >>
    BY <2>1, NextIsOwn
  <2>3. page[e]
    BY <2>1, <2>2 DEF Part, Promise!Part
  <2>4. Promise!NotFound # Part(e, 0)
    BY RelayAssumption DEF Part, Promise!Part, Promise!NotFound
  <2>5. Promise!Begins(e)
    BY <1>3, <2>1, <2>2, <2>3, <2>4, BeginsIs DEF UpstreamSendsPage
  <2> QED
    BY <2>5 DEF Promise!DNext
<1>4. CASE UpstreamAnswers(e)
  <2>1. heard[e] # << >> /\ ~page[e] /\ NextPart(e) = Part(e, 0)
    BY <1>4, AnswerBegins
  <2>2. Promise!NotFound # Part(e, 0)
    BY RelayAssumption DEF Part, Promise!Part, Promise!NotFound
  <2>3. Promise!Begins(e)
    BY <1>4, <2>1, <2>2, BeginsIs DEF UpstreamAnswers
  <2> QED
    BY <2>3 DEF Promise!DNext
<1>5. CASE RelayPart(e) \/ Truncate(e)
  <2>1. /\ pc[e] = "relaying" /\ Len(told[e]) \in 1 .. AnswerEnd
        /\ via[e] # None
    BY <1>5 DEF RelayPart, Truncate, IInv, Progressing, Progress
  <2>2. told[e] # << >> /\ Len(told[e]) <= AnswerEnd
    BY <2>1, RelayAssumption
  <2>3. told[e] = Promise!Parts(e, Len(told[e]))
    BY <2>1, ToldIsBeginning
  <2>4. \E next \in {Promise!Part(e, Len(told[e])), Promise!Cut} :
           told' = [told EXCEPT ![e] = Append(@, next)]
    <3>1. CASE RelayPart(e)
      <4>1. NextPart(e) = Promise!Part(e, Len(told[e]))
        BY <3>1, NextIsOwn DEF RelayPart, Part
      <4> QED
        BY <3>1, <4>1 DEF RelayPart
    <3>2. CASE Truncate(e)
      BY <3>2 DEF Truncate
    <3> QED
      BY <1>5, <3>1, <3>2
  <2>5. UNCHANGED <<whole, page, written, heard>>
    BY <1>5 DEF RelayPart, Truncate
  <2> QED
    BY <2>2, <2>3, <2>4, <2>5 DEF Promise!DNext, Promise!Continues
<1> QED
  BY <1>1, <1>2, <1>3, <1>4, <1>5 DEF Proxy

\* so is what a caller does,
LEMMA CallerImplements ==
    ASSUME IInv, NEW e \in Exchanges, Caller(e)
    PROVE  Promise!DNext \/ UNCHANGED Promise!dVars
<1>1. CASE Arrive(e)
  <2>1. written[e] = 0 /\ whole[e] > 1
    BY <1>1, Lengths DEF Arrive, IInv, Progressing, Progress
  <2>2. written[e] < whole[e] /\ written' = [written EXCEPT ![e] = @ + 1]
    BY <1>1, <2>1, Lengths DEF Arrive, IInv
  <2> QED
    BY <1>1, <2>2 DEF Arrive, Promise!DNext, Promise!CallerWrites
<1>2. CASE Write(e)
  BY <1>2 DEF Write, Promise!DNext, Promise!CallerWrites
<1>3. CASE Leave(e)
  BY <1>3 DEF Leave, Promise!dVars
<1> QED
  BY <1>1, <1>2, <1>3 DEF Caller

\* and what becomes of a connection.
LEMMA ConnectionImplements ==
    ASSUME IInv, Types', NEW k \in Conns, Expire(k) \/ Misskey(k)
    PROVE  Promise!DNext \/ UNCHANGED Promise!dVars
<1>1. CASE MisskeyReads(k)
  <2>1. PICK e \in Exchanges : HandsOver(e)
    BY <1>1, ReadsInv DEF HandsOver
  <2>2. /\ Len(heard[e]) < written[e]
        /\ heard' = [heard EXCEPT ![e] = Append(@, Part(e, Len(@)))]
    BY <2>1, Lengths DEF HandsOver, IInv
  <2>3. UNCHANGED <<whole, page, written, told>>
    BY <1>1 DEF MisskeyReads, callers
  <2> QED
    BY <2>2, <2>3 DEF Promise!DNext, Promise!MisskeyHears, Part
<1>2. CASE Expire(k) \/ MisskeyWrites(k) \/ MisskeyCloses(k)
  BY <1>2 DEF Expire, MisskeyWrites, MisskeyCloses, callers, Promise!dVars
<1> QED
  BY <1>1, <1>2 DEF Misskey

\* Whatever connections come and go, Misskey is handed each request once, in
\* order and unaltered, and each caller its own answer, whole or visibly not:
\* every step of the relay is one that Delivery allows (proxy.rs, forward).
THEOREM ImplementsDelivery == Spec => PromiseKept
<1>1. Init => Promise!DInit
  <2> SUFFICES ASSUME Init PROVE Promise!DInit
    OBVIOUS
  <2>1. whole \in [Exchanges -> Nat \ {0}]
    BY InitTypes DEF Types, TypeOK
  <2> QED
    BY <2>1 DEF Init, Promise!DInit
<1>2. IInv /\ [Next]_vars => [Promise!DNext]_(Promise!dVars)
  <2> SUFFICES ASSUME IInv, [Next]_vars
               PROVE  Promise!DNext \/ UNCHANGED Promise!dVars
    OBVIOUS
  <2>1. Types'
    BY TypesKept DEF IInv
  <2>2. UNCHANGED vars => UNCHANGED Promise!dVars
    BY DEF vars, callers, Promise!dVars
  <2> QED
    BY <2>1, <2>2, CallerImplements, ProxyImplements, ConnectionImplements
    DEF Next
<1> QED
  BY <1>1, <1>2, InvHolds, PTL DEF Spec, PromiseKept, Promise!DSpec
=============================================================================
