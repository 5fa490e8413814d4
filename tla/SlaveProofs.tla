------------------------------ MODULE SlaveProofs ------------------------------
(***************************************************************************)
(* Theorems about Slave, for any number of connections, descriptors and    *)
(* workers, any capacity of the queue and any choice of requests: every    *)
(* open descriptor has one holder, what a client is sent was made for it   *)
(* and comes once, its header fits what follows it, and every descriptor   *)
(* has the life of ConnectionLife.                                         *)
(***************************************************************************)
EXTENDS Slave, SequenceTheorems, TLAPS

-----------------------------------------------------------------------------
(* Types.                                                                  *)
Commands == {"UNKNOW", "GET", "HEAD", "POST", "OPTIONS"}

WorkerType == [at : States, fd : Fd \cup {None}, event : {"NONE", "READ", "OOB"}]
Piece == Conn \cup {None} \cup ({"target"} \X Conn)
HttpType == [from : Conn \cup {None}, cmd : Commands, url : BOOLEAN, shake : BOOLEAN,
             kept : SUBSET Conn, status : Nat, reason : Nat, body : Seq(Piece), length : Int]

Types ==
  /\ kind \in Asked
  /\ sent \in [Conn -> 0 .. 3] /\ read \in [Conn -> 0 .. 3]
  /\ line \in [Conn -> {"new", "open", "fin", "reset"}]
  /\ conn \in [Fd -> Conn \cup {None}]
  /\ watched \subseteq Fd
  /\ dispatch \in {Idle} \cup ({"accepted", "READ", "OOB", "CLOSE"} \X Fd)
  /\ queue \in Seq(Fd \X {"READ", "OOB"}) /\ Len(queue) <= Capacity
  /\ worker \in [Worker -> WorkerType]
  /\ \A w \in Worker : worker[w].at = "wait" <=> worker[w].fd = None
  /\ http \in [Worker -> HttpType]

(* Who holds a descriptor. *)
InTable(f)      == f \in watched
AtDispatcher(f) == dispatch[2] = f
InQueue(f)      == \E i \in DOMAIN queue : queue[i][1] = f
AtWorker(f)     == \E w \in Worker : worker[w].fd = f

(* Exactly one party holds an open descriptor, none a closed one. *)
Holding ==
  /\ \A f \in Fd :
       /\ conn[f] # None <=> InTable(f) \/ AtDispatcher(f) \/ InQueue(f) \/ AtWorker(f)
       /\ InTable(f) => ~AtDispatcher(f) /\ ~InQueue(f) /\ ~AtWorker(f)
       /\ AtDispatcher(f) => ~InQueue(f) /\ ~AtWorker(f)
       /\ InQueue(f) => ~AtWorker(f)
  /\ \A i, j \in DOMAIN queue : queue[i][1] = queue[j][1] => i = j
  /\ \A v, w \in Worker : worker[v].fd = worker[w].fd /\ worker[v].fd # None => v = w

IInv == Types /\ Holding

LEMMA HeldOnceFollows == IInv => HeldOnce
<1> SUFFICES ASSUME IInv, NEW f \in Fd
             PROVE  IF conn[f] = None THEN Holders(f) = {}
                    ELSE \E h \in Holders(f) : Holders(f) = {h}
  BY DEF HeldOnce
<1> USE DEF IInv, Types, Holding, InTable, AtDispatcher, InQueue, AtWorker
<1>1. CASE conn[f] = None
  BY <1>1 DEF Holders
<1>2. CASE f \in watched
  <2>1. Holders(f) = {<<"table">>}
    BY <1>2 DEF Holders
  <2> QED
    BY <1>2, <2>1
<1>3. CASE dispatch[2] = f
  <2>1. Holders(f) = {<<"dispatcher">>}
    BY <1>3 DEF Holders
  <2> QED
    BY <1>3, <2>1
<1>4. CASE InQueue(f)
  <2>1. PICK i \in DOMAIN queue : queue[i][1] = f
    BY <1>4
  <2>2. Holders(f) = {<<"queue", i>>}
    BY <1>4, <2>1 DEF Holders
  <2> QED
    BY <1>4, <2>2
<1>5. CASE AtWorker(f)
  <2>1. PICK w \in Worker : worker[w].fd = f
    BY <1>5
  <2>2. f # None
    BY SlaveAssumption
  <2>3. Holders(f) = {<<"worker", w>>}
    BY <1>5, <2>1, <2>2 DEF Holders
  <2> QED
    BY <1>5, <2>3
<1> QED
  BY <1>1, <1>2, <1>3, <1>4, <1>5

LEMMA InitInv == Init => IInv
<1> SUFFICES ASSUME Init PROVE IInv
  OBVIOUS
<1>0. None \notin Fd /\ Capacity \in Nat
  BY SlaveAssumption
<1>1. FreshHttp \in HttpType
  BY DEF FreshHttp, HttpType, Commands, Piece
<1>2. http \in [Worker -> HttpType]
  BY <1>1 DEF Init
<1>3. worker \in [Worker -> WorkerType] /\ \A w \in Worker : worker[w].at = "wait" /\ worker[w].fd = None
  BY DEF Init, WorkerType, States
<1>4. Types
  BY <1>0, <1>2, <1>3 DEF Init, Types, Idle
<1>5. Holding
  BY <1>0, <1>3 DEF Init, Holding, InTable, AtDispatcher, InQueue, AtWorker, Idle
<1> QED
  BY <1>4, <1>5 DEF IInv

-----------------------------------------------------------------------------
(* The steps of a worker that neither take nor close a descriptor, seen    *)
(* from outside: they change its own state and context, what it has read   *)
(* and what it has sent.                                                   *)
Inner(w) ==
  \/ IsOob(w) \/ BeginParse(w) \/ Header(w) \/ Body(w) \/ Shake(w)
  \/ ExecService(w) \/ GetFile(w) \/ Reply(w) \/ ErrorReply(w) \/ Pack(w)

GoesOn(w) ==
  \/ worker' = worker
  \/ \E s \in States \ {"wait"} : Goto(w, s)

Quiet(w) ==
  /\ worker[w].at # "wait"
  /\ GoesOn(w)
  /\ read' \in [Conn -> 0 .. 3]
  /\ http' \in [Worker -> HttpType]
  /\ \A v \in Worker \ {w} : http'[v] = http[v]
  /\ UNCHANGED <<clientVars, conn, tableVars>>

LEMMA AtOne ==
  ASSUME NEW w \in Worker, NEW s \in States \ {"wait"}, At(w, {s})
  PROVE  worker[w].at # "wait"
BY DEF At

(* A worker that is not waiting has an open descriptor. *)
LEMMA PeerConnected ==
  ASSUME IInv, NEW w \in Worker, worker[w].at # "wait"
  PROVE  worker[w].fd \in Fd /\ Peer(w) \in Conn
<1>1. worker[w].fd \in Fd
  BY DEF IInv, Types, WorkerType
<1>2. conn[worker[w].fd] # None
  BY <1>1 DEF IInv, Holding, AtWorker
<1> QED
  BY <1>1, <1>2 DEF IInv, Types, Peer

(* Receiving keeps the counts of parts in their range. *)
LEMMA ReadTyped ==
  ASSUME Types, NEW c \in Conn, ReceiveData(c)
  PROVE  read' \in [Conn -> 0 .. 3]
<1>1. PICK n \in read[c] + 1 .. sent[c] : read' = [read EXCEPT ![c] = n]
  BY DEF ReceiveData
<1>2. read[c] \in 0 .. 3 /\ sent[c] \in 0 .. 3
  BY DEF Types
<1>3. n \in 0 .. 3
  BY <1>1, <1>2
<1> QED
  BY <1>1, <1>3 DEF Types

(* Replacing one context by a context. *)
LEMMA HttpTyped ==
  ASSUME Types, NEW w \in Worker, NEW h \in HttpType, http' = [http EXCEPT ![w] = h]
  PROVE  http' \in [Worker -> HttpType] /\ \A v \in Worker \ {w} : http'[v] = http[v]
BY DEF Types

(* What the steps make of a context is a context. *)
LEMMA FailedTyped ==
  ASSUME NEW g \in HttpType, NEW n \in Nat
  PROVE  Failed(g, n) \in HttpType
BY DEF HttpType, Failed

LEMMA CleanedTyped ==
  ASSUME NEW g \in HttpType
  PROVE  Cleaned(g) \in HttpType
<1>1. "UNKNOW" \in Commands /\ None \in Conn \cup {None} /\ -1 \in Int /\ FALSE \in BOOLEAN /\ 0 \in Nat
  BY DEF Commands
<1>2. <<>> \in Seq(Piece)
  OBVIOUS
<1> QED
  BY <1>1, <1>2 DEF HttpType, Cleaned

LEMMA MeasuredTyped ==
  ASSUME NEW g \in HttpType
  PROVE  Measured(g) \in HttpType
BY DEF HttpType, Measured

LEMMA WithPageTyped ==
  ASSUME NEW g \in HttpType
  PROVE  WithPage(g) \in HttpType
<1>1. g.from \in Piece
  BY DEF HttpType, Piece
<1>2. <<g.from>> \in Seq(Piece)
  BY <1>1
<1> QED
  BY <1>2 DEF HttpType, WithPage

(* Parameters and fragment of a request change nothing else. *)
LEMMA TargetTyped ==
  ASSUME NEW g \in HttpType, NEW c \in Conn, NEW k \in Begun(g, c) \cup {WithTarget(g, c)}
  PROVE  /\ k \in HttpType /\ g.kept \subseteq k.kept
         /\ k.from = g.from /\ k.status = g.status /\ k.reason = g.reason
         /\ k.body = g.body /\ k.length = g.length
<1>1. k = g \/ k = WithTarget(g, c)
  BY DEF Begun
<1>2. g.kept \cup (Targeted \cap {c}) \in SUBSET Conn
  BY DEF HttpType
<1>3. WithTarget(g, c) \in HttpType
  BY <1>2 DEF HttpType, WithTarget
<1> QED
  BY <1>1, <1>3 DEF HttpType, WithTarget

(* What a service may leave for a body is a sequence of pieces. *)
LEMMA BodiesTyped ==
  ASSUME NEW g \in HttpType, NEW b \in Bodies(g)
  PROVE  b \in Seq(Piece)
<1>1. g.from \in Piece /\ g.body \in Seq(Piece)
  BY DEF HttpType, Piece
<1>2. \A c \in g.kept : <<"target", c>> \in Piece
  BY DEF HttpType, Piece
<1>3. <<g.from>> \in Seq(Piece) /\ \A c \in g.kept : <<<<"target", c>>>> \in Seq(Piece)
  BY <1>1, <1>2
<1> QED
  BY <1>1, <1>3 DEF Bodies

LEMMA KindTyped ==
  ASSUME Types, NEW c \in Conn
  PROVE  kind[c] \in {"GET", "HEAD", "POST", "chunked", "expect", "expect body", "OPTIONS", "bad"}
         /\ Command(kind[c]) \in Commands
<1>1. kind \in [Conn -> {"GET", "HEAD", "POST", "chunked", "expect", "expect body", "OPTIONS", "bad"}]
  BY SlaveAssumption DEF Types
<1> QED
  BY <1>1 DEF Command, Commands

LEMMA HeaderDoneQuiet ==
  ASSUME IInv, NEW w \in Worker, At(w, {"header"}), HeaderDone(w, Peer(w))
  PROVE  /\ GoesOn(w)
         /\ http' \in [Worker -> HttpType]
         /\ \A v \in Worker \ {w} : http'[v] = http[v]
<1> DEFINE c == Peer(w)
           h == [WithTarget(http[w], c) EXCEPT !.cmd = Command(kind[c]), !.url = TRUE]
           shaken == [h EXCEPT !.shake = TRUE, !.status = 100, !.reason = 100]
<1>1. worker[w].at # "wait" /\ c \in Conn /\ Types
  BY AtOne, PeerConnected DEF IInv, At
<1>2. http[w] \in HttpType
  BY <1>1 DEF Types
<1>3. h \in HttpType
  <2>1. WithTarget(http[w], c) \in HttpType /\ Command(kind[c]) \in Commands
    BY <1>1, <1>2, TargetTyped, KindTyped
  <2> QED
    BY <2>1 DEF HttpType
<1> HIDE DEF h
<1>4. shaken \in HttpType
  BY <1>3 DEF HttpType
<1>4a. [shaken EXCEPT !.status = 400] \in HttpType
  <2> HIDE DEF shaken
  <2> QED
    BY <1>4 DEF HttpType
<1>5. Failed(h, 400) \in HttpType
  BY <1>3, FailedTyped
<1>6. CASE kind[c] = "bad"
  <2>1. http' = [http EXCEPT ![w] = Failed(h, 400)] /\ Goto(w, "error")
    BY <1>6 DEF HeaderDone, h
  <2> QED
    BY <1>1, <1>5, <2>1, HttpTyped DEF GoesOn, States
<1>7. CASE kind[c] = "expect"
  <2>1. http' = [http EXCEPT ![w] = shaken] /\ Goto(w, "shake")
    BY <1>7 DEF HeaderDone, h
  <2> HIDE DEF shaken
  <2> QED
    BY <1>1, <1>4, <2>1, HttpTyped DEF GoesOn, States
<1>8. CASE kind[c] = "expect body"
  <2>1. http' = [http EXCEPT ![w] = [shaken EXCEPT !.status = 400]] /\ Goto(w, "error")
    BY <1>8 DEF HeaderDone, h
  <2> HIDE DEF shaken
  <2> QED
    BY <1>1, <1>4a, <2>1, HttpTyped DEF GoesOn, States
<1>9. CASE kind[c] \notin {"bad", "expect", "expect body"}
  <2>1. http' = [http EXCEPT ![w] = h] /\ (Goto(w, "body") \/ Goto(w, "exec"))
    BY <1>9 DEF HeaderDone, h
  <2> QED
    BY <1>1, <1>3, <2>1, HttpTyped DEF GoesOn, States
<1> QED
  BY <1>6, <1>7, <1>8, <1>9

LEMMA InnerQuiet ==
  ASSUME IInv, NEW w \in Worker, Inner(w)
  PROVE  Quiet(w)
<1> DEFINE c == Peer(w)
           h == http[w]
<1>0. worker[w].at # "wait"
  BY DEF Inner, At, IsOob, BeginParse, Header, Body, Shake, ExecService, GetFile, Reply,
         ErrorReply, Pack
<1>1. Types /\ c \in Conn /\ h \in HttpType /\ read \in [Conn -> 0 .. 3]
  BY <1>0, PeerConnected DEF IInv, Types
<1>2. http \in [Worker -> HttpType]
  BY <1>1 DEF Types
<1>3. CASE IsOob(w)
  BY <1>0, <1>1, <1>2, <1>3 DEF IsOob, Quiet, GoesOn, States
<1>4. CASE BeginParse(w)
  <2>1. [h EXCEPT !.shake = FALSE, !.from = c] \in HttpType
    BY <1>1 DEF HttpType
  <2>2. http' = [http EXCEPT ![w] = [h EXCEPT !.shake = FALSE, !.from = c]]
    BY <1>4 DEF BeginParse
  <2>3. http' \in [Worker -> HttpType] /\ \A v \in Worker \ {w} : http'[v] = http[v]
    BY <1>1, <2>1, <2>2, HttpTyped
  <2> QED
    BY <1>0, <1>1, <1>4, <2>3 DEF BeginParse, Quiet, GoesOn, States
<1>5. CASE Header(w)
  <2>0. UNCHANGED <<clientVars, out, conn, tableVars>> /\ At(w, {"header"})
    BY <1>5 DEF Header
  <2>1. CASE ReceiveData(c) /\ IF read'[c] < 2 THEN UNCHANGED <<worker, http>> ELSE HeaderDone(w, c)
    <3>1. read' \in [Conn -> 0 .. 3]
      BY <1>1, <2>1, ReadTyped
    <3>2. GoesOn(w) /\ http' \in [Worker -> HttpType] /\ \A v \in Worker \ {w} : http'[v] = http[v]
      BY <1>2, <2>0, <2>1, HeaderDoneQuiet DEF GoesOn
    <3> QED
      BY <1>0, <2>0, <3>1, <3>2 DEF Quiet
  <2>2. CASE /\ StreamEnded(c) /\ UNCHANGED read
             /\ Goto(w, "exec")
             /\ \E cmd \in {"UNKNOW"} \cup (IF read[c] = 0 THEN {} ELSE {Command(kind[c])}),
                   url \in BOOLEAN, g \in Begun(http[w], c) :
                  http' = [http EXCEPT ![w] = [g EXCEPT !.cmd = cmd, !.url = (cmd # "UNKNOW" /\ url)]]
    <3>1. PICK cmd \in Commands, b \in BOOLEAN, g \in Begun(h, c) :
            http' = [http EXCEPT ![w] = [g EXCEPT !.cmd = cmd, !.url = b]]
      BY <1>1, <2>2, KindTyped DEF Commands
    <3>2. g \in HttpType
      BY <1>1, TargetTyped
    <3>3. [g EXCEPT !.cmd = cmd, !.url = b] \in HttpType
      BY <3>2 DEF HttpType
    <3>4. http' \in [Worker -> HttpType] /\ \A v \in Worker \ {w} : http'[v] = http[v]
      BY <1>1, <3>1, <3>3, HttpTyped
    <3> QED
      BY <1>0, <1>1, <2>0, <2>2, <3>4 DEF Quiet, GoesOn, States
  <2>3. CASE /\ ReceiveFails(c) /\ UNCHANGED read
             /\ \E g \in Begun(http[w], c) : http' = [http EXCEPT ![w] = Failed(g, 408)]
             /\ Goto(w, "error")
    <3>1. PICK g \in Begun(h, c) : http' = [http EXCEPT ![w] = Failed(g, 408)]
      BY <2>3
    <3>1a. Failed(g, 408) \in HttpType
      BY <1>1, TargetTyped, FailedTyped
    <3>2. http' \in [Worker -> HttpType] /\ \A v \in Worker \ {w} : http'[v] = http[v]
      BY <1>1, <3>1, <3>1a, HttpTyped
    <3> QED
      BY <1>0, <1>1, <2>0, <2>3, <3>2 DEF Quiet, GoesOn, States
  <2> QED
    BY <1>5, <2>1, <2>2, <2>3 DEF Header
<1>6. CASE Body(w)
  <2>0. UNCHANGED <<clientVars, out, conn, tableVars>>
    BY <1>6 DEF Body
  <2>1. read' \in [Conn -> 0 .. 3]
    BY <1>1, <1>6, ReadTyped DEF Body
  <2>2. \/ http' = http /\ (Goto(w, "exec") \/ UNCHANGED worker)
        \/ http' = [http EXCEPT ![w] = Failed(h, 408)] /\ Goto(w, "error")
    BY <1>6 DEF Body
  <2>3. Failed(h, 408) \in HttpType
    BY <1>1, FailedTyped
  <2>4. http' \in [Worker -> HttpType] /\ \A v \in Worker \ {w} : http'[v] = http[v]
    BY <1>1, <1>2, <2>2, <2>3, HttpTyped
  <2> QED
    BY <1>0, <2>0, <2>1, <2>2, <2>4 DEF Quiet, GoesOn, States
<1>7. CASE Shake(w)
  <2> DEFINE again == [h EXCEPT !.status = 0]
  <2>1. again \in HttpType /\ h.body \in Seq(Piece) /\ c \in Piece
    BY <1>1 DEF HttpType, Piece
  <2>2. Append(h.body, c) \in Seq(Piece)
    BY <2>1
  <2>3. [h EXCEPT !.status = 0, !.body = Append(@, c)] \in HttpType
    BY <1>1, <2>2 DEF HttpType
  <2>4. again.body = h.body
    BY <1>1 DEF HttpType
  <2>5. [again EXCEPT !.body = Append(@, c)] \in HttpType
    <3> HIDE DEF again
    <3> QED
      BY <2>1, <2>2, <2>4 DEF HttpType
  <2>6. read' \in [Conn -> 0 .. 3]
    BY <1>1, <1>7, ReadTyped DEF Shake
  <2>7. \/ http' = [http EXCEPT ![w] = again]
        \/ http' = [http EXCEPT ![w] = [again EXCEPT !.body = Append(@, c)]]
    BY <1>7 DEF Shake
  <2>8. http' \in [Worker -> HttpType] /\ \A v \in Worker \ {w} : http'[v] = http[v]
    <3> HIDE DEF again
    <3> QED
      BY <1>1, <2>1, <2>5, <2>7, HttpTyped
  <2>9. Goto(w, "exec") \/ Goto(w, "close")
    BY <1>7 DEF Shake
  <2> QED
    BY <1>0, <1>7, <2>6, <2>8, <2>9 DEF Shake, Quiet, GoesOn, States
<1>8. CASE ExecService(w)
  <2> DEFINE Set(s, b) == [h EXCEPT !.status = s, !.body = b]
  <2>1. \A b \in Bodies(h) : b \in Seq(Piece)
    BY <1>1, BodiesTyped
  <2>2. \A s \in ServiceStatus : Meant(s) \in Nat /\ Branch(Meant(s)) \in {"error", "reply"}
    <3>1. \A s \in ServiceStatus : Meant(s) \in Nat
      BY SlaveAssumption DEF Meant
    <3>2. \A n : Branch(n) \in {"error", "reply"}
      BY ZenonT(40) DEF Branch
    <3> HIDE DEF Meant, Branch
    <3> QED
      BY <3>1, <3>2
  <2>3. \/ \E s \in ServiceStatus, b \in Bodies(h) : Answer(w, Meant(s), b, Branch(Meant(s)))
        \/ \E s \in {200, 404, 405, 406, 500}, b \in Bodies(h), state \in {"error", "file"} :
             Answer(w, s, b, state)
    BY <1>8 DEF ExecService, Bodies
  <2>4. PICK s \in Nat, b \in Bodies(h), state \in {"error", "reply", "file"} :
          Answer(w, s, b, state)
    BY <2>2, <2>3
  <2>5. Set(s, b) \in HttpType
    BY <1>1, <2>1 DEF HttpType
  <2>6. http' = [http EXCEPT ![w] = Set(s, b)]
    BY <1>2, <2>4 DEF Answer
  <2>7. http' \in [Worker -> HttpType] /\ \A v \in Worker \ {w} : http'[v] = http[v]
    <3> HIDE DEF Set
    <3> QED
      BY <1>1, <2>5, <2>6, HttpTyped
  <2> QED
    BY <1>0, <1>1, <1>8, <2>4, <2>7 DEF ExecService, Answer, Quiet, GoesOn, States
<1>9. CASE GetFile(w)
  <2> DEFINE Set(s, b) == [h EXCEPT !.status = s, !.body = b]
  <2>1. h.body \in Seq(Piece) /\ Append(h.body, h.from) \in Seq(Piece)
    <3>1. h.body \in Seq(Piece) /\ h.from \in Piece
      BY <1>1 DEF HttpType, Piece
    <3> QED
      BY <3>1
  <2>2. PICK s \in Nat, b \in {h.body, Append(h.body, h.from)}, state \in {"error", "reply"} :
          Answer(w, s, b, state)
    BY <1>9 DEF GetFile
  <2>3. Set(s, b) \in HttpType
    BY <1>1, <2>1 DEF HttpType
  <2>4. http' = [http EXCEPT ![w] = Set(s, b)]
    BY <1>2, <2>2 DEF Answer
  <2>5. http' \in [Worker -> HttpType] /\ \A v \in Worker \ {w} : http'[v] = http[v]
    <3> HIDE DEF Set
    <3> QED
      BY <1>1, <2>3, <2>4, HttpTyped
  <2> QED
    BY <1>0, <1>1, <1>9, <2>2, <2>5 DEF GetFile, Answer, Quiet, GoesOn, States
<1>10. CASE Reply(w)
  <2>1. http' = [http EXCEPT ![w] = Measured(h)] /\ Measured(h) \in HttpType
    BY <1>1, <1>10, MeasuredTyped DEF Reply
  <2>2. http' \in [Worker -> HttpType] /\ \A v \in Worker \ {w} : http'[v] = http[v]
    BY <1>1, <2>1, HttpTyped
  <2> QED
    BY <1>0, <1>1, <1>10, <2>2 DEF Reply, Quiet, GoesOn, States
<1>11. CASE ErrorReply(w)
  <2>1. http' = [http EXCEPT ![w] = Measured(WithPage(h))] /\ Measured(WithPage(h)) \in HttpType
    BY <1>1, <1>11, WithPageTyped, MeasuredTyped DEF ErrorReply
  <2>2. http' \in [Worker -> HttpType] /\ \A v \in Worker \ {w} : http'[v] = http[v]
    BY <1>1, <2>1, HttpTyped
  <2> QED
    BY <1>0, <1>1, <1>11, <2>2 DEF ErrorReply, Quiet, GoesOn, States
<1>12. CASE Pack(w)
  BY <1>0, <1>1, <1>2, <1>12 DEF Pack, Quiet, GoesOn, States
<1> QED
  BY <1>3, <1>4, <1>5, <1>6, <1>7, <1>8, <1>9, <1>10, <1>11, <1>12 DEF Inner

(* A step of that kind leaves every descriptor where it is. *)
LEMMA QuietInv ==
  ASSUME IInv, NEW w \in Worker, Quiet(w)
  PROVE  /\ IInv'
         /\ \A v \in Worker : worker'[v].fd = worker[v].fd
         /\ \A v \in Worker \ {w} : worker'[v] = worker[v]
<1>1. worker \in [Worker -> WorkerType] /\ worker[w].fd # None
  BY DEF IInv, Types, Quiet
<1>2. /\ worker' \in [Worker -> WorkerType]
      /\ \A v \in Worker : worker'[v].fd = worker[v].fd
      /\ \A v \in Worker \ {w} : worker'[v] = worker[v]
      /\ worker'[w].at # "wait"
  <2>1. CASE worker' = worker
    BY <1>1, <2>1 DEF Quiet
  <2>2. CASE \E s \in States \ {"wait"} : Goto(w, s)
    <3>1. PICK s \in States \ {"wait"} : worker' = [worker EXCEPT ![w] = [worker[w] EXCEPT !.at = s]]
      BY <2>2 DEF Goto
    <3>2. [worker[w] EXCEPT !.at = s] \in WorkerType /\ [worker[w] EXCEPT !.at = s].fd = worker[w].fd
          /\ [worker[w] EXCEPT !.at = s].at = s
      BY <1>1 DEF WorkerType
    <3> QED
      BY <1>1, <3>1, <3>2
  <2> QED
    BY <2>1, <2>2 DEF Quiet, GoesOn
<1>3. Types'
  BY <1>1, <1>2 DEF IInv, Types, Quiet, clientVars, tableVars
<1>4. Holding'
  BY <1>2 DEF IInv, Holding, InTable, AtDispatcher, InQueue, AtWorker, Quiet, tableVars
<1> QED
  BY <1>2, <1>3, <1>4 DEF IInv

-----------------------------------------------------------------------------
(* The steps that hand a descriptor on.                                    *)
LEMMA GetWaitInv ==
  ASSUME IInv, NEW w \in Worker, GetWait(w)
  PROVE  IInv'
<1> DEFINE f == queue[1][1]
           e == queue[1][2]
           new == [at |-> FirstState(e), fd |-> f, event |-> e]
<1>1. /\ queue \in Seq(Fd \X {"READ", "OOB"}) /\ queue # <<>> /\ Len(queue) <= Capacity
      /\ worker \in [Worker -> WorkerType] /\ worker[w].fd = None
  BY DEF IInv, Types, GetWait, At
<1>2. Len(queue) \in Nat \ {0} /\ 1 \in DOMAIN queue /\ queue[1] \in Fd \X {"READ", "OOB"}
  BY <1>1
<1>3. f \in Fd /\ e \in {"READ", "OOB"} /\ f # None
  BY <1>2, SlaveAssumption
<1>4. new \in WorkerType /\ new.fd = f /\ new.at # "wait"
  BY <1>3 DEF WorkerType, States, FirstState
<1>5. worker' = [worker EXCEPT ![w] = new] /\ queue' = Tail(queue)
  <2>1. Head(queue) = queue[1]
    BY <1>1
  <2> QED
    BY <2>1 DEF GetWait
<1> HIDE DEF new
<1>6. /\ worker' \in [Worker -> WorkerType] /\ worker'[w] = new
      /\ \A v \in Worker \ {w} : worker'[v] = worker[v]
  BY <1>1, <1>4, <1>5
<1>7. /\ queue' \in Seq(Fd \X {"READ", "OOB"}) /\ Len(queue') = Len(queue) - 1
      /\ DOMAIN queue' = 1 .. Len(queue) - 1
      /\ \A i \in 1 .. Len(queue) - 1 : queue'[i] = queue[i + 1]
  BY <1>1, <1>2, <1>5
<1>8. Types'
  <2>0. Capacity \in Nat
    BY SlaveAssumption
  <2>1. Len(queue') <= Capacity
    BY <1>1, <1>2, <1>7, <2>0
  <2>2. \A v \in Worker : worker'[v].at = "wait" <=> worker'[v].fd = None
    BY <1>3, <1>4, <1>6 DEF IInv, Types
  <2> QED
    BY <1>6, <1>7, <2>1, <2>2 DEF IInv, Types, GetWait, clientVars
<1>9. \A g \in Fd : InQueue(g)' <=> InQueue(g) /\ g # f
  <2>1. SUFFICES ASSUME NEW g \in Fd PROVE InQueue(g)' <=> InQueue(g) /\ g # f
    OBVIOUS
  <2>2. ASSUME InQueue(g)' PROVE InQueue(g) /\ g # f
    <3>1. PICK i \in 1 .. Len(queue) - 1 : queue[i + 1][1] = g
      BY <1>7, <2>2 DEF InQueue
    <3>2. i + 1 \in DOMAIN queue /\ i + 1 # 1
      BY <1>1, <1>2
    <3> QED
      BY <1>2, <3>1, <3>2 DEF InQueue, IInv, Holding
  <2>3. ASSUME InQueue(g), g # f PROVE InQueue(g)'
    <3>1. PICK i \in DOMAIN queue : queue[i][1] = g
      BY <2>3 DEF InQueue
    <3>2. i - 1 \in 1 .. Len(queue) - 1 /\ queue'[i - 1] = queue[i]
      BY <1>1, <1>7, <2>3, <3>1
    <3> QED
      BY <1>7, <3>1, <3>2 DEF InQueue
  <2> QED
    BY <2>2, <2>3
<1>10. \A g \in Fd : AtWorker(g)' <=> AtWorker(g) \/ g = f
  BY <1>1, <1>3, <1>4, <1>6, SlaveAssumption DEF AtWorker
<1>11. InQueue(f)
  BY <1>2 DEF InQueue
<1>12. \A i, j \in DOMAIN queue' : queue'[i][1] = queue'[j][1] => i = j
  <2>1. \A i \in DOMAIN queue' : i \in Int /\ i + 1 \in DOMAIN queue
    BY <1>1, <1>7
  <2> QED
    BY <1>7, <2>1 DEF IInv, Holding
<1>13. \A u, v \in Worker : worker'[u].fd = worker'[v].fd /\ worker'[u].fd # None => u = v
  BY <1>3, <1>4, <1>6, <1>11 DEF IInv, Holding, AtWorker
<1>14. UNCHANGED <<conn, watched, dispatch>>
  BY DEF GetWait
<1>15. Holding'
  BY <1>3, <1>9, <1>10, <1>11, <1>12, <1>13, <1>14 DEF IInv, Holding, InTable, AtDispatcher
<1> QED
  BY <1>8, <1>15 DEF IInv

LEMMA CloseInv ==
  ASSUME IInv, NEW w \in Worker, Close(w)
  PROVE  /\ IInv'
         /\ \A v \in Worker \ {w} : worker'[v] = worker[v] /\ http'[v] = http[v]
<1> DEFINE f == worker[w].fd
           new == [at |-> "wait", fd |-> None, event |-> "NONE"]
<1>1. worker[w].at # "wait" /\ f \in Fd /\ Types
  BY PeerConnected DEF Close, At, IInv
<1>2. f # None
  BY <1>1, SlaveAssumption
<1>3. new \in WorkerType /\ new.fd = None /\ new.at = "wait"
  BY DEF WorkerType, States
<1>4. worker' = [worker EXCEPT ![w] = new]
  BY DEF Close
<1> HIDE DEF new
<1>5. /\ worker' \in [Worker -> WorkerType] /\ worker'[w] = new
      /\ \A v \in Worker \ {w} : worker'[v] = worker[v]
  BY <1>1, <1>3, <1>4 DEF Types
<1>6. conn' \in [Fd -> Conn \cup {None}] /\ conn'[f] = None /\ \A g \in Fd \ {f} : conn'[g] = conn[g]
  BY <1>1 DEF Types, Close, Closed
<1>7. http' \in [Worker -> HttpType] /\ \A v \in Worker \ {w} : http'[v] = http[v]
  <2>1. http' = [http EXCEPT ![w] = Cleaned(http[w])] /\ Cleaned(http[w]) \in HttpType
    BY <1>1, CleanedTyped DEF Close, Types
  <2> QED
    BY <1>1, <2>1, HttpTyped
<1>8. UNCHANGED <<clientVars, read, tableVars>>
  BY DEF Close
<1>9. Types'
  <2>1. \A v \in Worker : worker'[v].at = "wait" <=> worker'[v].fd = None
    BY <1>1, <1>3, <1>5 DEF Types
  <2> QED
    BY <1>1, <1>5, <1>6, <1>7, <1>8, <2>1 DEF Types, clientVars, tableVars
<1>10. \A g \in Fd : AtWorker(g)' <=> AtWorker(g) /\ g # f
  <2>1. \A v \in Worker \ {w} : worker[v].fd # f
    BY <1>2 DEF IInv, Holding
  <2> QED
    BY <1>3, <1>5, <2>1, SlaveAssumption DEF AtWorker
<1>11. AtWorker(f)
  BY DEF AtWorker
<1>12. \A u, v \in Worker : worker'[u].fd = worker'[v].fd /\ worker'[u].fd # None => u = v
  BY <1>3, <1>5 DEF IInv, Holding
<1>13. Holding'
  BY <1>1, <1>2, <1>6, <1>8, <1>10, <1>11, <1>12
     DEF IInv, Holding, InTable, AtDispatcher, InQueue, tableVars
<1> QED
  BY <1>5, <1>7, <1>9, <1>13 DEF IInv

LEMMA HandOutInv ==
  ASSUME IInv, HandOut
  PROVE  IInv'
<1> DEFINE f == dispatch[2]
           n == Len(queue)
<1>1. /\ queue \in Seq(Fd \X {"READ", "OOB"}) /\ n \in Nat
      /\ f \in Fd /\ dispatch[1] \in {"READ", "OOB"}
  BY DEF IInv, Types, HandOut, Idle
<1>2. /\ queue' \in Seq(Fd \X {"READ", "OOB"}) /\ Len(queue') = n + 1
      /\ DOMAIN queue = 1 .. n /\ DOMAIN queue' = 1 .. n + 1
      /\ \A i \in 1 .. n : queue'[i] = queue[i]
      /\ queue'[n + 1] = <<f, dispatch[1]>>
  BY <1>1 DEF HandOut
<1>3. dispatch' = Idle /\ dispatch'[2] = None /\ None \notin Fd
  BY SlaveAssumption DEF HandOut, Idle
<1>4. UNCHANGED <<clientVars, read, conn, watched, worker, http>> /\ n < Capacity /\ Capacity \in Nat
  BY SlaveAssumption DEF HandOut
<1>5. Types'
  BY <1>1, <1>2, <1>3, <1>4 DEF IInv, Types, clientVars
<1>6. \A g \in Fd : InQueue(g)' <=> InQueue(g) \/ g = f
  BY <1>1, <1>2 DEF InQueue
<1>7. AtDispatcher(f) /\ ~InQueue(f)
  BY <1>1 DEF AtDispatcher, IInv, Holding
<1>8. \A i, j \in DOMAIN queue' : queue'[i][1] = queue'[j][1] => i = j
  <2>1. \A i \in 1 .. n : queue'[i][1] # queue'[n + 1][1]
    BY <1>2, <1>7 DEF InQueue
  <2>2. \A i \in 1 .. n + 1 : i \in 1 .. n \/ i = n + 1
    BY <1>1
  <2> QED
    BY <1>2, <2>1, <2>2 DEF IInv, Holding
<1>9. Holding'
  BY <1>1, <1>3, <1>4, <1>6, <1>7, <1>8 DEF IInv, Holding, InTable, AtDispatcher, AtWorker
<1> QED
  BY <1>5, <1>9 DEF IInv

(* What the dispatcher has in hand. *)
LEMMA InHandTyped ==
  ASSUME Types
  PROVE  /\ dispatch[1] # "idle" => dispatch[2] \in Fd
         /\ dispatch = Idle => dispatch[2] = None
         /\ dispatch' = Idle => dispatch'[2] = None
         /\ None \notin Fd /\ None \notin Conn
<1>1. None \notin Fd /\ None \notin Conn
  BY SlaveAssumption
<1>2. ASSUME dispatch[1] # "idle" PROVE dispatch[2] \in Fd
  <2>1. dispatch # Idle
    BY <1>2 DEF Idle
  <2>2. dispatch \in {"accepted", "READ", "OOB", "CLOSE"} \X Fd
    BY <2>1 DEF Types
  <2> QED
    BY <2>2
<1>3. Idle[2] = None
  BY DEF Idle
<1> QED
  BY <1>1, <1>2, <1>3

LEMMA DispatchInv == IInv /\ Dispatch => IInv'
<1> SUFFICES ASSUME IInv, Dispatch PROVE IInv'
  OBVIOUS
<1> USE InHandTyped DEF IInv
<1>1. ASSUME NEW c \in Conn, NEW f \in Fd, Accept(c, f) PROVE IInv'
  <2>1. Types'
    BY <1>1 DEF Types, Accept, Idle
  <2>2. dispatch'[2] = f /\ dispatch[2] = None /\ conn'[f] = c /\ \A g \in Fd \ {f} : conn'[g] = conn[g]
    BY <1>1 DEF Accept, Idle, Types
  <2>3. UNCHANGED <<watched, queue, worker>> /\ conn[f] = None
    BY <1>1 DEF Accept
  <2>4. Holding'
    BY <2>2, <2>3 DEF Holding, InTable, AtDispatcher, InQueue, AtWorker
  <2> QED
    BY <2>1, <2>4
<1>2. CASE Watch
  <2>1. dispatch' = Idle /\ dispatch'[2] = None /\ dispatch[2] \in Fd
    BY <1>2 DEF Watch
  <2>2. Types'
    BY <1>2, <2>1 DEF Watch, Closed, Types, clientVars
  <2>3. UNCHANGED <<queue, worker>>
    BY <1>2 DEF Watch
  <2>4. CASE watched' = watched \cup {dispatch[2]} /\ UNCHANGED conn
    <3>1. Holding'
      BY <2>1, <2>3, <2>4 DEF Holding, InTable, AtDispatcher, InQueue, AtWorker
    <3> QED
      BY <2>2, <3>1
  <2>5. CASE Closed(dispatch[2]) /\ UNCHANGED watched
    <3>1. conn'[dispatch[2]] = None /\ \A g \in Fd \ {dispatch[2]} : conn'[g] = conn[g]
      BY <2>1, <2>5 DEF Closed, Types
    <3>2. Holding'
      BY <2>1, <2>3, <2>5, <3>1 DEF Holding, InTable, AtDispatcher, InQueue, AtWorker
    <3> QED
      BY <2>2, <3>2
  <2> QED
    BY <1>2, <2>4, <2>5 DEF Watch
<1>3. CASE HandOut
  BY <1>3, HandOutInv
<1>4. CASE CloseAtOnce
  <2>1. dispatch' = Idle /\ dispatch'[2] = None /\ dispatch[2] \in Fd
    BY <1>4 DEF CloseAtOnce
  <2>2. Types'
    BY <1>4, <2>1 DEF CloseAtOnce, Closed, Types, clientVars
  <2>3. conn'[dispatch[2]] = None /\ \A g \in Fd \ {dispatch[2]} : conn'[g] = conn[g]
    BY <1>4, <2>1 DEF CloseAtOnce, Closed, Types
  <2>4. Holding'
    BY <1>4, <2>1, <2>3 DEF CloseAtOnce, Holding, InTable, AtDispatcher, InQueue, AtWorker
  <2> QED
    BY <2>2, <2>4
<1>5. ASSUME NEW f \in Fd, Ready(f) PROVE IInv'
  <2>1. dispatch = Idle /\ dispatch[2] = None /\ dispatch'[2] = f
        /\ dispatch' \in {"accepted", "READ", "OOB", "CLOSE"} \X Fd
    <3>1. PICK e \in {"READ", "OOB", "CLOSE"} : dispatch' = <<e, f>>
      BY <1>5 DEF Ready
    <3> QED
      BY <1>5, <3>1 DEF Ready
  <2>2. Types'
    BY <1>5, <2>1 DEF Ready, Types, clientVars
  <2>3. Holding'
    BY <1>5, <2>1 DEF Ready, Holding, InTable, AtDispatcher, InQueue, AtWorker
  <2> QED
    BY <2>2, <2>3
<1>6. ASSUME NEW f \in Fd, Expire(f) PROVE IInv'
  <2>1. Types'
    BY <1>6 DEF Expire, Closed, Types, clientVars
  <2>2. conn'[f] = None /\ \A g \in Fd \ {f} : conn'[g] = conn[g]
    BY <1>6 DEF Expire, Closed, Types
  <2>3. dispatch' = dispatch /\ dispatch[2] = None
    BY <1>6 DEF Expire
  <2>4. Holding'
    BY <1>6, <2>2, <2>3 DEF Expire, Holding, InTable, AtDispatcher, InQueue, AtWorker
  <2> QED
    BY <2>1, <2>4
<1> QED
  BY <1>1, <1>2, <1>3, <1>4, <1>5, <1>6 DEF Dispatch

LEMMA NextInv == IInv /\ [Next]_vars => IInv'
<1> SUFFICES ASSUME IInv, [Next]_vars PROVE IInv'
  OBVIOUS
<1>1. ASSUME NEW c \in Conn, Send(c) PROVE IInv'
  <2>1. sent[c] \in 0 .. 3 /\ sent[c] < 3
    <3>1. sent[c] \in 0 .. 3
      BY DEF IInv, Types
    <3>2. sent[c] < 3 \/ sent[c] < 2
      BY <1>1 DEF Send
    <3> QED
      BY <3>1, <3>2
  <2>2. sent' \in [Conn -> 0 .. 3]
    BY <1>1, <2>1 DEF Send, IInv, Types
  <2>3. Types'
    BY <1>1, <2>2 DEF Send, IInv, Types, tableVars
  <2>4. Holding'
    BY <1>1 DEF Send, IInv, Holding, InTable, AtDispatcher, InQueue, AtWorker, tableVars
  <2> QED
    BY <2>3, <2>4 DEF IInv
<1>2. ASSUME NEW c \in Conn, HangUp(c) PROVE IInv'
  BY <1>2 DEF HangUp, IInv, Types, Holding, InTable, AtDispatcher, InQueue, AtWorker, tableVars
<1>3. CASE Dispatch
  BY <1>3, DispatchInv
<1>4. ASSUME NEW w \in Worker, Step(w) PROVE IInv'
  BY <1>4, GetWaitInv, InnerQuiet, QuietInv, CloseInv DEF Step, Inner
<1>5. CASE UNCHANGED vars
  BY <1>5 DEF vars, IInv, Types, Holding, InTable, AtDispatcher, InQueue, AtWorker
<1> QED
  BY <1>1, <1>2, <1>3, <1>4, <1>5 DEF Next

LEMMA InvHolds == Spec => []IInv
BY InitInv, NextInv, PTL DEF Spec

(* Types of eris_slave_handler's state and context.                        *)
THEOREM TypeCorrect == Spec => []TypeOK
<1>1. IInv => TypeOK
  BY DEF IInv, Types, TypeOK, WorkerType, HttpType
<1> QED
  BY <1>1, InvHolds, PTL

(* Table, dispatcher, queue and workers never hold the same descriptor,    *)
(* and no open one is lost, although numbers are reused at once.           *)
THEOREM HeldByOne == Spec => []HeldOnce
BY HeldOnceFollows, InvHolds, PTL

-----------------------------------------------------------------------------
(* Whose answer it is.  The body of a context is empty until a request is  *)
(* parsed into it; from then on the context is its client's, and so is     *)
(* every piece of the body that is not copied of parameters or fragment.   *)
Owned(c, k) == {c} \cup ({"target"} \X k)

Own(w) ==
  /\ worker[w].at \in {"wait", "oob", "parse"} => http[w].body = <<>>
  /\ worker[w].at \notin {"wait", "oob", "parse", "close"} => http[w].from = Peer(w)
  /\ worker[w].at # "wait" => http[w].body \in Seq(Owned(Peer(w), http[w].kept))

AllOwn == \A w \in Worker : Own(w)

(* No other party changes who is at the end of a worker's descriptor.      *)
LEMMA PeersKept ==
  ASSUME IInv, Dispatch
  PROVE  /\ UNCHANGED <<worker, http, out, kind>>
         /\ \A w \in Worker : worker[w].at # "wait" => Peer(w)' = Peer(w)
<1>1. UNCHANGED <<worker, http, out, kind>>
  BY DEF Dispatch, Accept, Watch, HandOut, CloseAtOnce, Ready, Expire, clientVars
<1>2. ASSUME NEW w \in Worker, worker[w].at # "wait" PROVE Peer(w)' = Peer(w)
  <2> DEFINE f == worker[w].fd
  <2>1. f \in Fd /\ conn[f] # None /\ f \notin watched /\ f # dispatch[2]
    BY <1>2, PeerConnected, SlaveAssumption DEF IInv, Holding, AtWorker, InTable, AtDispatcher, Peer
  <2>2. conn'[f] = conn[f]
    BY <2>1 DEF IInv, Types, Dispatch, Accept, Watch, HandOut, CloseAtOnce, Ready, Expire, Closed
  <2> QED
    BY <1>1, <2>2 DEF Peer
<1> QED
  BY <1>1, <1>2

(* A worker that does nothing keeps what is its own.                       *)
LEMMA OwnKept ==
  ASSUME IInv, NEW w \in Worker, Own(w), worker'[w] = worker[w], http'[w] = http[w],
         worker[w].at # "wait" => Peer(w)' = Peer(w)
  PROVE  Own(w)'
BY DEF Own

LEMMA InnerOwn ==
  ASSUME IInv, NEW w \in Worker, Own(w), Inner(w)
  PROVE  Own(w)'
<1> DEFINE c == Peer(w)
           h == http[w]
<1>1. /\ worker[w].at # "wait" /\ c \in Conn /\ h \in HttpType
      /\ worker \in [Worker -> WorkerType] /\ http \in [Worker -> HttpType]
  BY InnerQuiet, PeerConnected DEF IInv, Types, Quiet
<1>2. Peer(w)' = c
  BY InnerQuiet, QuietInv DEF Quiet, Peer
<1> DEFINE Mine == Seq(Owned(c, h.kept))
<1>3. h.body \in Mine /\ Append(h.body, c) \in Mine /\ <<c>> \in Mine
  <2> DEFINE S == Owned(c, h.kept)
  <2>1. h.body \in Seq(S) /\ c \in S
    BY <1>1 DEF Own, Owned
  <2> HIDE DEF S
  <2>2. Append(h.body, c) \in Seq(S) /\ <<c>> \in Seq(S)
    BY <2>1
  <2> QED
    BY <2>1, <2>2 DEF S
<1>3a. \A k \in h.kept : <<<<"target", k>>>> \in Mine
  <2> DEFINE S == Owned(c, h.kept)
  <2>1. \A k \in h.kept : <<"target", k>> \in S
    BY DEF Owned
  <2> HIDE DEF S
  <2>2. \A x \in S : <<x>> \in Seq(S)
    OBVIOUS
  <2> QED
    BY <2>1, <2>2 DEF S
<1>4. \A s \in States : Goto(w, s) => worker'[w].at = s
  BY <1>1 DEF Goto, WorkerType
<1>5. SUFFICES /\ worker'[w].at # "wait"
               /\ worker'[w].at \in {"oob", "parse"} => http'[w].body = <<>>
               /\ worker'[w].at \notin {"oob", "parse", "close"} => http'[w].from = c
               /\ http'[w].body \in Mine
               /\ h.kept \subseteq http'[w].kept
  <2>1. ASSUME http'[w].body \in Mine, h.kept \subseteq http'[w].kept
        PROVE  http'[w].body \in Seq(Owned(c, http'[w].kept))
    <3>1. Owned(c, h.kept) \subseteq Owned(c, http'[w].kept)
      BY <2>1 DEF Owned
    <3> QED
      BY <2>1, <3>1
  <2> QED
    BY <1>2, <2>1 DEF Own
<1> HIDE DEF Mine
<1> USE DEF At, States
<1>6. CASE IsOob(w)
  BY <1>1, <1>3, <1>4, <1>6 DEF IsOob, Own
<1>7. CASE BeginParse(w)
  BY <1>1, <1>3, <1>4, <1>7 DEF BeginParse, HttpType
<1>8. CASE Header(w)
  <2>1. CASE UNCHANGED <<worker, http>>
    BY <1>1, <1>2, <1>3, <1>8, <2>1 DEF Header, Own
  <2>0. h.from = c
    BY <1>8 DEF Header, Own
  <2>2. CASE HeaderDone(w, c)
    <3> DEFINE Same(k) == k.from = c /\ k.body = h.body /\ h.kept \subseteq k.kept
               g == [WithTarget(h, c) EXCEPT !.cmd = Command(kind[c]), !.url = TRUE]
               shaken == [g EXCEPT !.shake = TRUE, !.status = 100, !.reason = 100]
               refused == [shaken EXCEPT !.status = 400]
    <3>1. g \in HttpType /\ Same(g)
      <4>1. Command(kind[c]) \in Commands
        BY <1>1, KindTyped DEF IInv
      <4>2. WithTarget(h, c) \in HttpType /\ Same(WithTarget(h, c))
        BY <1>1, <2>0, TargetTyped
      <4> QED
        BY <4>1, <4>2 DEF HttpType
    <3> HIDE DEF g
    <3>2. shaken \in HttpType /\ Same(shaken)
      BY <3>1 DEF HttpType
    <3> HIDE DEF shaken
    <3>3. Same(refused)
      BY <3>2 DEF HttpType
    <3>4. Same(Failed(g, 400))
      BY <3>1 DEF HttpType, Failed
    <3> HIDE DEF refused
    <3>5. \/ http' = [http EXCEPT ![w] = Failed(g, 400)] /\ Goto(w, "error")
          \/ http' = [http EXCEPT ![w] = shaken] /\ Goto(w, "shake")
          \/ http' = [http EXCEPT ![w] = refused] /\ Goto(w, "error")
          \/ http' = [http EXCEPT ![w] = g] /\ (Goto(w, "body") \/ Goto(w, "exec"))
      BY <2>2 DEF HeaderDone, g, shaken, refused
    <3>6. Same(http'[w])
      BY <1>1, <3>1, <3>2, <3>3, <3>4, <3>5
    <3> QED
      BY <1>3, <1>4, <3>5, <3>6
  <2>3. CASE Goto(w, "exec") /\ \E x \in Commands, b \in BOOLEAN, g \in Begun(h, c) :
                                  http' = [http EXCEPT ![w] = [g EXCEPT !.cmd = x, !.url = b]]
    <3>1. PICK x \in Commands, b \in BOOLEAN, g \in Begun(h, c) :
            http' = [http EXCEPT ![w] = [g EXCEPT !.cmd = x, !.url = b]]
      BY <2>3
    <3>2. g \in HttpType /\ g.from = h.from /\ g.body = h.body /\ h.kept \subseteq g.kept
      BY <1>1, TargetTyped
    <3>3. http'[w].from = c /\ http'[w].body = h.body /\ h.kept \subseteq http'[w].kept
      BY <1>1, <2>0, <3>1, <3>2 DEF HttpType
    <3> QED
      BY <1>3, <1>4, <2>3, <3>3
  <2>4. CASE Goto(w, "error") /\ \E g \in Begun(h, c) : http' = [http EXCEPT ![w] = Failed(g, 408)]
    <3>1. PICK g \in Begun(h, c) : http' = [http EXCEPT ![w] = Failed(g, 408)]
      BY <2>4
    <3>2. g \in HttpType /\ g.from = h.from /\ g.body = h.body /\ h.kept \subseteq g.kept
      BY <1>1, TargetTyped
    <3>3. /\ Failed(g, 408).from = h.from /\ Failed(g, 408).body = h.body
          /\ h.kept \subseteq Failed(g, 408).kept
      BY <3>2 DEF Failed, HttpType
    <3>4. http'[w] = Failed(g, 408)
      BY <1>1, <3>1
    <3> QED
      BY <1>3, <1>4, <2>0, <2>4, <3>3, <3>4
  <2>5. Command(kind[c]) \in Commands /\ "UNKNOW" \in Commands
    BY <1>1, KindTyped DEF Commands, IInv
  <2> QED
    BY <1>1, <1>8, <2>1, <2>2, <2>3, <2>4, <2>5 DEF Header
<1>9. CASE Body(w)
  <2>1. \/ http' = http /\ (Goto(w, "exec") \/ UNCHANGED worker)
        \/ http' = [http EXCEPT ![w] = Failed(h, 408)] /\ Goto(w, "error")
    BY <1>9 DEF Body
  <2>2. Failed(h, 408).from = h.from /\ Failed(h, 408).body = h.body /\ Failed(h, 408).kept = h.kept
    BY <1>1 DEF Failed, HttpType
  <2>3. worker[w].at = "body" /\ h.from = c
    BY <1>9 DEF Body, Own
  <2>4. http'[w].from = h.from /\ http'[w].body = h.body /\ http'[w].kept = h.kept
    BY <1>1, <2>1, <2>2
  <2> QED
    BY <1>3, <1>4, <2>1, <2>3, <2>4
<1>10. CASE Shake(w)
  BY <1>1, <1>3, <1>4, <1>10 DEF Shake, Own, HttpType
<1>11. CASE ExecService(w)
  <2>1. h.from = c
    BY <1>11 DEF ExecService, Own
  <2>2. \A s \in ServiceStatus : Meant(s) \in Nat /\ Branch(Meant(s)) \in {"error", "reply"}
    <3>1. \A s \in ServiceStatus : Meant(s) \in Nat
      BY SlaveAssumption DEF Meant
    <3>2. \A n : Branch(n) \in {"error", "reply"}
      BY ZenonT(40) DEF Branch
    <3> HIDE DEF Meant, Branch
    <3> QED
      BY <3>1, <3>2
  <2>3. \/ \E s \in ServiceStatus, b \in Bodies(h) : Answer(w, Meant(s), b, Branch(Meant(s)))
        \/ \E s \in {200, 404, 405, 406, 500}, b \in Bodies(h), state \in {"error", "file"} :
             Answer(w, s, b, state)
    BY <1>11 DEF ExecService, Bodies
  <2>4. PICK n \in Nat, b \in Bodies(h), state \in {"error", "reply", "file"} : Answer(w, n, b, state)
    BY <2>2, <2>3
  <2>5. b \in Mine
    BY <1>3, <1>3a, <2>1 DEF Bodies
  <2> QED
    BY <1>1, <1>4, <2>1, <2>4, <2>5 DEF Answer, HttpType
<1>12. CASE GetFile(w)
  <2>1. h.from = c
    BY <1>12 DEF GetFile, Own
  <2>2. PICK n \in Nat, b \in {h.body, Append(h.body, h.from)}, state \in {"error", "reply"} :
          Answer(w, n, b, state)
    BY <1>12 DEF GetFile
  <2> QED
    BY <1>1, <1>3, <1>4, <2>1, <2>2 DEF Answer, HttpType
<1>13. CASE Reply(w)
  BY <1>1, <1>3, <1>4, <1>13 DEF Reply, Own, HttpType, Measured
<1>14. CASE ErrorReply(w)
  <2> DEFINE p == WithPage(h)
  <2>1. h.from = c
    BY <1>14 DEF ErrorReply, Own
  <2>2. p \in HttpType /\ p.from = c /\ p.body \in Mine /\ p.kept = h.kept
    BY <1>1, <1>3, <2>1, WithPageTyped DEF WithPage, HttpType
  <2>3. http' = [http EXCEPT ![w] = Measured(p)] /\ Goto(w, "pack")
    BY <1>14 DEF ErrorReply
  <2> HIDE DEF p
  <2>4. Measured(p).from = c /\ Measured(p).body = p.body /\ Measured(p).kept = h.kept
    BY <2>2 DEF Measured, HttpType
  <2> QED
    BY <1>1, <1>4, <2>2, <2>3, <2>4
<1>15. CASE Pack(w)
  BY <1>1, <1>3, <1>4, <1>15 DEF Pack, Own
<1> QED
  BY <1>6, <1>7, <1>8, <1>9, <1>10, <1>11, <1>12, <1>13, <1>14, <1>15 DEF Inner

LEMMA AllOwnInit == Init => AllOwn
BY DEF Init, AllOwn, Own, FreshHttp

LEMMA AllOwnStep == IInv /\ AllOwn /\ [Next]_vars => AllOwn'
<1> SUFFICES ASSUME IInv, AllOwn, [Next]_vars PROVE AllOwn'
  OBVIOUS
<1>1. ASSUME NEW c \in Conn, Send(c) \/ HangUp(c) PROVE AllOwn'
  BY <1>1 DEF Send, HangUp, AllOwn, Own, Peer
<1>2. CASE Dispatch
  BY <1>2, PeersKept, OwnKept DEF AllOwn
<1>3. ASSUME NEW w \in Worker, GetWait(w) PROVE AllOwn'
  <2>1. queue[1][2] \in {"READ", "OOB"} /\ Head(queue) = queue[1]
    <3>1. queue \in Seq(Fd \X {"READ", "OOB"}) /\ queue # <<>>
      BY <1>3 DEF IInv, Types, GetWait
    <3> QED
      BY <3>1
  <2>2. FirstState(queue[1][2]) \in {"oob", "parse"}
    BY <2>1 DEF FirstState
  <2>3. worker'[w].at \in {"oob", "parse"} /\ \A v \in Worker \ {w} : worker'[v] = worker[v]
    BY <1>3, <2>1, <2>2 DEF GetWait, IInv, Types
  <2>4. UNCHANGED <<http, conn>> /\ http[w].body = <<>>
    BY <1>3 DEF GetWait, At, AllOwn, Own
  <2>5. <<>> \in Seq(Owned(Peer(w)', http'[w].kept))
    OBVIOUS
  <2>6. Own(w)'
    BY <2>3, <2>4, <2>5 DEF Own
  <2>7. \A v \in Worker \ {w} : Own(v)'
    BY <2>3, <2>4 DEF AllOwn, Own, Peer
  <2> QED
    BY <2>6, <2>7 DEF AllOwn
<1>4. ASSUME NEW w \in Worker, Inner(w) PROVE AllOwn'
  <2>1. /\ UNCHANGED conn
        /\ \A v \in Worker \ {w} : worker'[v] = worker[v] /\ http'[v] = http[v]
    BY <1>4, InnerQuiet, QuietInv DEF Quiet
  <2>2. \A v \in Worker \ {w} : Own(v)'
    BY <2>1, OwnKept DEF AllOwn, Peer
  <2> QED
    BY <1>4, <2>2, InnerOwn DEF AllOwn
<1>5. ASSUME NEW w \in Worker, Close(w) PROVE AllOwn'
  <2>1. \A v \in Worker \ {w} : worker'[v] = worker[v] /\ http'[v] = http[v]
    BY <1>5, CloseInv
  <2>2. ASSUME NEW v \in Worker \ {w}, worker[v].at # "wait" PROVE Peer(v)' = Peer(v)
    <3>1. worker[v].fd \in Fd /\ worker[v].fd # None
      BY <2>2, PeerConnected, SlaveAssumption
    <3>2. worker[v].fd # worker[w].fd
      BY <3>1 DEF IInv, Holding
    <3> QED
      BY <1>5, <2>1, <3>1, <3>2 DEF Close, Closed, Peer, IInv, Types
  <2>3. \A v \in Worker \ {w} : Own(v)'
    BY <2>1, <2>2, OwnKept DEF AllOwn
  <2>4. worker'[w].at = "wait" /\ http'[w].body = <<>>
    BY <1>5 DEF Close, Cleaned, IInv, Types, HttpType
  <2> QED
    BY <2>3, <2>4 DEF AllOwn, Own
<1>6. CASE UNCHANGED vars
  BY <1>6 DEF vars, AllOwn, Own, Peer
<1> QED
  BY <1>1, <1>2, <1>3, <1>4, <1>5, <1>6 DEF Next, Step, Inner

(* Every piece of what is sent was made for the connection it is sent to,  *)
(* or was copied by a service from parameters and fragment, where those of *)
(* earlier requests stay; nothing else of an earlier request is left.      *)
THEOREM AnswersAreOwn == Spec => []OwnAnswer
<1>1. IInv /\ AllOwn => OwnAnswer
  <2> SUFFICES ASSUME AllOwn, NEW w \in Worker, Sending(w)
               PROVE  \A i \in DOMAIN Message(http[w]).body :
                        Message(http[w]).body[i] \in Owned(Peer(w), http[w].kept)
    BY DEF OwnAnswer, Owned
  <2> DEFINE S == Owned(Peer(w), http[w].kept)
  <2>1. http[w].body \in Seq(S)
    BY DEF AllOwn, Own, Sending, At
  <2> HIDE DEF S
  <2>2. Message(http[w]).body \in Seq(S)
    BY <2>1 DEF Message
  <2>3. \A i \in DOMAIN Message(http[w]).body : Message(http[w]).body[i] \in S
    BY <2>2
  <2> QED
    BY <2>3 DEF S
<1> QED
  BY <1>1, InvHolds, AllOwnInit, AllOwnStep, PTL DEF Spec

-----------------------------------------------------------------------------
(* What a client has been sent.  A connection is at one descriptor; before *)
(* it reaches a worker, and until that worker answers, nothing was sent.   *)
Before(c) == {<<>>} \cup IF kind[c] = "expect" THEN {<<"continue">>} ELSE {}
Whole(c)  == {<<>>, <<"answer">>} \cup
               IF kind[c] = "expect" THEN {<<"continue">>, <<"continue", "answer">>} ELSE {}

AtMostWorker(w) ==
  LET c == Peer(w)
  IN  /\ worker[w].at \in {"oob", "parse", "header", "body", "shake"} => out[c] = <<>>
      /\ worker[w].at = "shake" => kind[c] = "expect"
      /\ worker[w].at \in {"exec", "file", "reply", "error", "pack"} => out[c] \in Before(c)

Order ==
  /\ out \in [Conn -> Seq({"continue", "answer"})]
  /\ \A c \in Conn : out[c] \in Whole(c)
  /\ \A c \in Conn : line[c] = "new" => out[c] = <<>> /\ ~Connected(c)
  /\ \A f, g \in Fd : conn[f] = conn[g] /\ conn[f] # None => f = g
  /\ \A f \in Fd : conn[f] # None /\ ~AtWorker(f) => out[conn[f]] = <<>>
  /\ \A w \in Worker : worker[w].at # "wait" => AtMostWorker(w)

LEMMA OrderInit == Init => Order
<1> SUFFICES ASSUME Init PROVE Order
  OBVIOUS
<1>1. out \in [Conn -> Seq({"continue", "answer"})]
  BY DEF Init
<1> QED
  BY <1>1, SlaveAssumption DEF Init, Order, Whole, Connected

LEMMA OrderDispatch == IInv /\ Order /\ Dispatch => Order'
<1> SUFFICES ASSUME IInv, Order, Dispatch PROVE Order'
  OBVIOUS
<1>1. /\ UNCHANGED <<worker, out, kind>>
      /\ \A w \in Worker : worker[w].at # "wait" => Peer(w)' = Peer(w)
  BY PeersKept
<1>2. \A w \in Worker : worker'[w].at # "wait" => AtMostWorker(w)'
  BY <1>1 DEF Order, AtMostWorker, Before
<1>3. \A f \in Fd : AtWorker(f)' <=> AtWorker(f)
  BY <1>1 DEF AtWorker
<1>4. conn \in [Fd -> Conn \cup {None}] /\ line \in [Conn -> {"new", "open", "fin", "reset"}]
      /\ None \notin Conn
  BY SlaveAssumption DEF IInv, Types
<1>5. ASSUME NEW c \in Conn, NEW f \in Fd, Accept(c, f) PROVE Order'
  <2>1. /\ line[c] = "new" /\ line'[c] = "open" /\ \A d \in Conn \ {c} : line'[d] = line[d]
        /\ conn[f] = None /\ conn'[f] = c /\ \A g \in Fd \ {f} : conn'[g] = conn[g]
    BY <1>4, <1>5 DEF Accept
  <2>2. out[c] = <<>> /\ \A g \in Fd : conn[g] # c
    BY <2>1 DEF Order, Connected
  <2>3. \A d \in Conn : line'[d] = "new" => out'[d] = <<>> /\ ~Connected(d)'
    BY <1>1, <2>1 DEF Order, Connected
  <2>4. \A g, h \in Fd : conn'[g] = conn'[h] /\ conn'[g] # None => g = h
    BY <2>1, <2>2 DEF Order
  <2>5. \A g \in Fd : conn'[g] # None /\ ~AtWorker(g)' => out'[conn'[g]] = <<>>
    BY <1>1, <1>3, <2>1, <2>2 DEF Order
  <2> QED
    BY <1>1, <1>2, <2>3, <2>4, <2>5 DEF Order, Whole
<1>6. CASE UNCHANGED line /\ \A g \in Fd : conn'[g] = conn[g] \/ conn'[g] = None
  BY <1>1, <1>2, <1>3, <1>4, <1>6 DEF Order, Whole, Connected
<1>7. \A f \in Fd : Closed(f) => \A g \in Fd : conn'[g] = conn[g] \/ conn'[g] = None
  BY <1>4 DEF Closed
<1>8. CASE Watch \/ HandOut \/ CloseAtOnce \/ \E f \in Fd : Ready(f) \/ Expire(f)
  <2>1. UNCHANGED line
    BY <1>8 DEF Watch, HandOut, CloseAtOnce, Ready, Expire, clientVars
  <2>2. (Watch \/ CloseAtOnce) => dispatch[2] \in Fd
    BY InHandTyped DEF Watch, CloseAtOnce, IInv
  <2>3. \A g \in Fd : conn'[g] = conn[g] \/ conn'[g] = None
    BY <1>7, <1>8, <2>2 DEF Watch, HandOut, CloseAtOnce, Ready, Expire
  <2> QED
    BY <1>6, <2>1, <2>3
<1> QED
  BY <1>5, <1>8 DEF Dispatch

(* How a worker's states follow each other, as far as answers are counted. *)
Early == {"oob", "parse", "header", "body"}
Late  == {"exec", "file", "reply", "error", "pack"}

LEMMA InnerOrder ==
  ASSUME IInv, Order, NEW w \in Worker, Inner(w)
  PROVE  LET c == Peer(w)
         IN  /\ worker'[w].at \in Early => worker[w].at \in Early
             /\ worker'[w].at = "shake" => worker[w].at \in Early /\ kind[c] = "expect"
             /\ out' \in [Conn -> Seq({"continue", "answer"})]
             /\ \A d \in Conn \ {c} : out'[d] = out[d]
             /\ out'[c] \in Whole(c)
             /\ worker'[w].at \in Early \cup {"shake"} => out'[c] = <<>>
             /\ worker'[w].at \in Late => out'[c] \in Before(c)
<1> DEFINE c == Peer(w)
<1>1. /\ worker[w].at # "wait" /\ c \in Conn /\ worker \in [Worker -> WorkerType]
      /\ out \in [Conn -> Seq({"continue", "answer"})] /\ out[c] \in Whole(c)
      /\ AtMostWorker(w)
  BY InnerQuiet, PeerConnected DEF IInv, Types, Quiet, Order
<1>2. \A s \in States : Goto(w, s) => worker'[w].at = s
  BY <1>1 DEF Goto, WorkerType
<1>3. \A s : Deliver(w, s) => out' = out \/ out' = [out EXCEPT ![c] = Append(out[c], s)]
  BY DEF Deliver
<1> USE DEF At, States, Early, Late
<1>4. CASE IsOob(w)
  BY <1>1, <1>2, <1>4 DEF IsOob, AtMostWorker, Before
<1>5. CASE BeginParse(w)
  BY <1>1, <1>2, <1>5 DEF BeginParse, AtMostWorker, Before
<1>6. CASE Header(w)
  <2>1. worker[w].at = "header" /\ out' = out
    BY <1>6 DEF Header
  <2>2. \/ worker' = worker
        \/ Goto(w, "error") \/ Goto(w, "body") \/ Goto(w, "exec")
        \/ Goto(w, "shake") /\ kind[c] = "expect"
    BY <1>6 DEF Header, HeaderDone
  <2> QED
    BY <1>1, <1>2, <2>1, <2>2 DEF AtMostWorker, Before
<1>7. CASE Body(w)
  <2>1. worker[w].at = "body" /\ out' = out
    BY <1>7 DEF Body
  <2>2. worker' = worker \/ Goto(w, "error") \/ Goto(w, "exec")
    BY <1>7 DEF Body
  <2> QED
    BY <1>1, <1>2, <2>1, <2>2 DEF AtMostWorker, Before
<1>8. CASE Shake(w)
  <2>1. worker[w].at = "shake" /\ out[c] = <<>> /\ kind[c] = "expect"
    BY <1>1, <1>8 DEF Shake, AtMostWorker
  <2>2. worker'[w].at \in {"exec", "close"}
    BY <1>2, <1>8 DEF Shake
  <2>3. out' = out \/ out' = [out EXCEPT ![c] = Append(out[c], "continue")]
    BY <1>3, <1>8 DEF Shake
  <2>4. Append(out[c], "continue") = <<"continue">>
    BY <2>1
  <2>5. <<"continue">> \in Seq({"continue", "answer"})
    OBVIOUS
  <2>6. out'[c] \in {<<>>, <<"continue">>} /\ out' \in [Conn -> Seq({"continue", "answer"})]
        /\ \A d \in Conn \ {c} : out'[d] = out[d]
    BY <1>1, <2>1, <2>3, <2>4, <2>5
  <2> QED
    BY <2>1, <2>2, <2>6 DEF Whole, Before
<1>9. CASE ExecService(w)
  <2>1. worker[w].at = "exec" /\ out' = out
    BY <1>9 DEF ExecService
  <2>2. \E state \in {"error", "reply", "file"} : Goto(w, state)
    BY <1>9 DEF ExecService, Answer, Branch
  <2> QED
    BY <1>1, <1>2, <2>1, <2>2 DEF AtMostWorker
<1>10. CASE GetFile(w)
  <2>1. worker[w].at = "file" /\ out' = out
    BY <1>10 DEF GetFile
  <2>2. \E state \in {"error", "reply"} : Goto(w, state)
    BY <1>10 DEF GetFile, Answer
  <2> QED
    BY <1>1, <1>2, <2>1, <2>2 DEF AtMostWorker
<1>11. CASE Reply(w) \/ ErrorReply(w)
  BY <1>1, <1>2, <1>11 DEF Reply, ErrorReply, AtMostWorker
<1>12. CASE Pack(w)
  <2>1. worker[w].at = "pack" /\ out[c] \in Before(c) /\ worker'[w].at = "close"
    BY <1>1, <1>2, <1>12 DEF Pack, AtMostWorker
  <2>2. out' = out \/ out' = [out EXCEPT ![c] = Append(out[c], "answer")]
    BY <1>3, <1>12 DEF Pack
  <2>3. Append(out[c], "answer") \in Whole(c)
    <3>1. CASE out[c] = <<>>
      BY <3>1 DEF Whole
    <3>2. CASE out[c] = <<"continue">> /\ kind[c] = "expect"
      <4> DEFINE a == Append(<<"continue">>, "answer")
                 b == <<"continue", "answer">>
      <4> DEFINE S == {"continue", "answer"}
      <4>0. <<"continue">> \in Seq(S) /\ Len(<<"continue">>) = 1 /\ <<"continue">>[1] = "continue"
        OBVIOUS
      <4>2. a \in Seq(S) /\ Len(a) = 2 /\ a[1] = "continue" /\ a[2] = "answer"
        <5>1. "answer" \in S
          OBVIOUS
        <5> HIDE DEF S
        <5> QED
          BY <4>0, <5>1, AppendProperties
      <4>3. b \in Seq(S) /\ Len(b) = 2 /\ b[1] = "continue" /\ b[2] = "answer"
        OBVIOUS
      <4>1. a = b
        <5> HIDE DEF a, b, S
        <5> QED
          BY <4>2, <4>3, SeqEqual
      <4> QED
        BY <3>2, <4>1 DEF Whole
    <3> QED
      BY <2>1, <3>1, <3>2 DEF Before
  <2>4. Append(out[c], "answer") \in Seq({"continue", "answer"})
    BY <1>1
  <2> QED
    BY <1>1, <2>1, <2>2, <2>3, <2>4
<1> QED
  BY <1>4, <1>5, <1>6, <1>7, <1>8, <1>9, <1>10, <1>11, <1>12 DEF Inner

(* Two workers serve two connections. *)
LEMMA PeersDiffer ==
  ASSUME IInv, Order, NEW v \in Worker, NEW w \in Worker, v # w,
         worker[v].at # "wait", worker[w].at # "wait"
  PROVE  worker[v].fd # worker[w].fd /\ Peer(v) # Peer(w)
<1>1. worker[v].fd \in Fd /\ worker[w].fd \in Fd /\ None \notin Fd /\ Peer(v) \in Conn /\ None \notin Conn
  BY PeerConnected, SlaveAssumption
<1>2. worker[v].fd # worker[w].fd
  BY <1>1 DEF IInv, Holding
<1> QED
  BY <1>1, <1>2 DEF Order, Peer

LEMMA OrderStep == IInv /\ Order /\ [Next]_vars => Order'
<1> SUFFICES ASSUME IInv, Order, [Next]_vars PROVE Order'
  OBVIOUS
<1>0. None \notin Conn /\ None \notin Fd /\ conn \in [Fd -> Conn \cup {None}]
      /\ line \in [Conn -> {"new", "open", "fin", "reset"}]
      /\ worker \in [Worker -> WorkerType]
  BY SlaveAssumption DEF IInv, Types
<1>1. ASSUME NEW c \in Conn, Send(c) \/ HangUp(c) PROVE Order'
  <2>1. UNCHANGED <<kind, out, conn, worker>>
    BY <1>1 DEF Send, HangUp
  <2>2. \A d \in Conn : line'[d] = "new" => line[d] = "new"
    BY <1>0, <1>1 DEF Send, HangUp
  <2> QED
    BY <2>1, <2>2 DEF Order, Whole, Connected, AtWorker, AtMostWorker, Before, Peer
<1>2. CASE Dispatch
  BY <1>2, OrderDispatch
<1>3. ASSUME NEW w \in Worker, GetWait(w) PROVE Order'
  <2> DEFINE f == queue[1][1]
  <2>1. /\ queue \in Seq(Fd \X {"READ", "OOB"}) /\ queue # <<>> /\ Head(queue) = queue[1]
        /\ 1 \in DOMAIN queue /\ f \in Fd /\ queue[1][2] \in {"READ", "OOB"}
    <3>1. queue \in Seq(Fd \X {"READ", "OOB"}) /\ queue # <<>>
      BY <1>3 DEF IInv, Types, GetWait
    <3> QED
      BY <3>1
  <2>2. conn[f] # None /\ ~AtWorker(f)
    BY <2>1 DEF IInv, Holding, InQueue
  <2>3. out[conn[f]] = <<>>
    BY <2>1, <2>2 DEF Order
  <2>4. /\ worker'[w].fd = f /\ worker'[w].at \in {"oob", "parse"}
        /\ \A v \in Worker \ {w} : worker'[v] = worker[v]
        /\ worker[w].at = "wait" /\ worker[w].fd = None
    BY <1>0, <1>3, <2>1 DEF GetWait, FirstState, At, IInv, Types
  <2>5. UNCHANGED <<clientVars, out, conn>>
    BY <1>3 DEF GetWait
  <2>6. AtMostWorker(w)'
    BY <2>3, <2>4, <2>5 DEF AtMostWorker, Peer
  <2>7. \A v \in Worker \ {w} : worker'[v].at # "wait" => AtMostWorker(v)'
    BY <2>4, <2>5 DEF Order, AtMostWorker, Peer, Before, clientVars
  <2>8. \A g \in Fd : AtWorker(g) => AtWorker(g)'
    BY <1>0, <2>4 DEF AtWorker
  <2> QED
    BY <2>5, <2>6, <2>7, <2>8 DEF Order, Whole, Connected, clientVars
<1>4. ASSUME NEW w \in Worker, Inner(w) PROVE Order'
  <2> DEFINE c == Peer(w)
  <2>1. /\ UNCHANGED <<kind, line, conn>> /\ worker[w].at # "wait" /\ worker'[w].at \in States
        /\ \A v \in Worker : worker'[v].fd = worker[v].fd
        /\ \A v \in Worker \ {w} : worker'[v] = worker[v]
    BY <1>4, InnerQuiet, QuietInv DEF Quiet, clientVars, IInv, Types, WorkerType
  <2>2. c \in Conn /\ worker[w].fd \in Fd /\ conn[worker[w].fd] = c
    BY <2>1, PeerConnected DEF Peer
  <2>3. /\ worker'[w].at \in Early \cup {"shake"} => out'[c] = <<>>
        /\ worker'[w].at = "shake" => kind[c] = "expect"
        /\ worker'[w].at \in Late => out'[c] \in Before(c)
        /\ out' \in [Conn -> Seq({"continue", "answer"})]
        /\ \A d \in Conn \ {c} : out'[d] = out[d]
        /\ out'[c] \in Whole(c)
    BY <1>4, InnerOrder
  <2>4. AtMostWorker(w)'
    BY <2>1, <2>3 DEF AtMostWorker, Peer, Before, Early, Late
  <2>5. ASSUME NEW v \in Worker \ {w}, worker'[v].at # "wait" PROVE AtMostWorker(v)'
    <3>1. Peer(v) # c /\ Peer(v) \in Conn
      BY <2>1, <2>5, PeersDiffer, PeerConnected
    <3> QED
      BY <2>1, <2>3, <2>5, <3>1 DEF Order, AtMostWorker, Peer, Before
  <2>6. \A g \in Fd : AtWorker(g)' <=> AtWorker(g)
    BY <2>1 DEF AtWorker
  <2>7. \A g \in Fd : conn[g] # None /\ ~AtWorker(g) => conn[g] # c
    BY <1>0, <2>2 DEF Order, AtWorker
  <2>8. line[c] # "new"
    BY <2>2 DEF Order, Connected
  <2>9. \A d \in Conn : out'[d] \in Whole(d)' /\ (line'[d] = "new" => out'[d] = <<>> /\ ~Connected(d)')
    BY <2>1, <2>3, <2>8 DEF Order, Whole, Connected
  <2>10. \A g \in Fd : conn'[g] # None /\ ~AtWorker(g)' => out'[conn'[g]] = <<>>
    BY <1>0, <2>1, <2>3, <2>6, <2>7 DEF Order
  <2> QED
    BY <2>1, <2>3, <2>4, <2>5, <2>9, <2>10 DEF Order
<1>5. ASSUME NEW w \in Worker, Close(w) PROVE Order'
  <2> DEFINE f == worker[w].fd
  <2>1. worker[w].at # "wait" /\ f \in Fd
    BY <1>5, PeerConnected DEF Close, At
  <2>2. /\ conn'[f] = None /\ \A g \in Fd \ {f} : conn'[g] = conn[g]
        /\ UNCHANGED <<kind, line, out>>
    BY <1>0, <1>5, <2>1 DEF Close, Closed, clientVars
  <2>3. worker'[w].at = "wait" /\ \A v \in Worker \ {w} : worker'[v] = worker[v]
    BY <1>0, <1>5 DEF Close
  <2>4. ASSUME NEW v \in Worker, worker'[v].at # "wait" PROVE AtMostWorker(v)'
    <3>1. v # w /\ worker'[v] = worker[v]
      BY <2>3, <2>4
    <3>2. worker[v].fd # f /\ worker[v].fd \in Fd
      BY <2>1, <2>4, <3>1, PeersDiffer, PeerConnected
    <3> QED
      BY <2>2, <2>4, <3>1, <3>2 DEF Order, AtMostWorker, Peer, Before
  <2>5. \A g \in Fd \ {f} : AtWorker(g) => AtWorker(g)'
    BY <2>3 DEF AtWorker
  <2>6. \A g \in Fd : conn'[g] # None => g # f /\ conn'[g] = conn[g]
    BY <2>2
  <2>7. \A g, h \in Fd : conn'[g] = conn'[h] /\ conn'[g] # None => g = h
    BY <2>6 DEF Order
  <2>8. \A d \in Conn : line'[d] = "new" => out'[d] = <<>> /\ ~Connected(d)'
    BY <1>0, <2>2, <2>6 DEF Order, Connected
  <2>9. \A g \in Fd : conn'[g] # None /\ ~AtWorker(g)' => out'[conn'[g]] = <<>>
    BY <2>2, <2>5, <2>6 DEF Order
  <2> QED
    BY <2>2, <2>4, <2>7, <2>8, <2>9 DEF Order, Whole
<1>6. CASE UNCHANGED vars
  BY <1>6 DEF vars, Order, Whole, Connected, AtWorker, AtMostWorker, Before, Peer
<1> QED
  BY <1>1, <1>2, <1>3, <1>4, <1>5, <1>6 DEF Next, Step, Inner

(* Each client is sent its answer once, after 100 Continue if it asked for *)
(* that, whatever errors, descriptors reused and workers in between.       *)
THEOREM AnswersComeInOrder == Spec => []AnswersInOrder
<1>1. Order => AnswersInOrder
  BY DEF Order, Whole, AnswersInOrder
<1> QED
  BY <1>1, InvHolds, OrderInit, OrderStep, PTL DEF Spec

-----------------------------------------------------------------------------
(* A step that moves one descriptor from x to y is the abstract move.      *)
LEMMA MoveOne ==
  ASSUME NEW f \in Fd, NEW x, NEW y,
         Where(f) = x, Where(f)' = y,
         \A g \in Fd \ {f} : Where(g)' = Where(g)
  PROVE  Life!Move(f, x, y)
<1>1. [g \in Fd |-> Where(g)]' = [[g \in Fd |-> Where(g)] EXCEPT ![f] = y]
  OBVIOUS
<1> QED
  BY <1>1 DEF Life!Move

LEMMA MoveNone ==
  ASSUME \A g \in Fd : Where(g)' = Where(g)
  PROVE  UNCHANGED [g \in Fd |-> Where(g)]
OBVIOUS

LEMMA LifeDispatch == IInv /\ Dispatch => Life!Next \/ UNCHANGED [f \in Fd |-> Where(f)]
<1> SUFFICES ASSUME IInv, Dispatch
             PROVE  Life!Next \/ UNCHANGED [f \in Fd |-> Where(f)]
  OBVIOUS
<1>0. /\ None \notin Fd /\ None \notin Conn /\ Idle[1] = "idle" /\ Idle[2] = None
      /\ conn \in [Fd -> Conn \cup {None}] /\ watched \subseteq Fd
      /\ \A f \in watched : conn[f] # None
      /\ dispatch[1] # "idle" => dispatch[2] \in Fd /\ dispatch[2] \notin watched
                                 /\ conn[dispatch[2]] # None
  <2>1. dispatch[1] # "idle" => dispatch[2] \in Fd
    BY InHandTyped DEF IInv
  <2> QED
    BY <2>1, SlaveAssumption DEF IInv, Types, Holding, InTable, AtDispatcher, Idle
<1>1. ASSUME NEW c \in Conn, NEW f \in Fd, Accept(c, f) PROVE Life!Next
  <2>1. /\ dispatch = Idle /\ dispatch'[1] = "accepted" /\ dispatch'[2] = f /\ watched' = watched
        /\ conn[f] = None /\ conn'[f] = c /\ \A g \in Fd \ {f} : conn'[g] = conn[g]
    BY <1>0, <1>1 DEF Accept
  <2>2. Where(f) = "closed" /\ Where(f)' = "accepted" /\ \A g \in Fd \ {f} : Where(g)' = Where(g)
    BY <1>0, <2>1 DEF Where
  <2> QED
    BY <2>2, MoveOne DEF Life!Next, Life!Accept
<1>2. CASE Watch
  <2>0. PICK f \in Fd : f = dispatch[2]
    BY <1>0, <1>2 DEF Watch
  <2>1. dispatch[1] = "accepted" /\ f \in Fd /\ dispatch' = Idle /\ f \notin watched /\ conn[f] # None
    BY <1>0, <1>2, <2>0 DEF Watch
  <2>2. Where(f) = "accepted"
    BY <2>0, <2>1 DEF Where
  <2>3. CASE watched' = watched \cup {f} /\ UNCHANGED conn
    <3>1. Where(f)' = "watched" /\ \A g \in Fd \ {f} : Where(g)' = Where(g)
      BY <1>0, <2>0, <2>1, <2>3 DEF Where
    <3> QED
      BY <2>1, <2>2, <3>1, MoveOne DEF Life!Next, Life!Watch
  <2>4. CASE Closed(f) /\ UNCHANGED watched
    <3>1. Where(f)' = "closed" /\ \A g \in Fd \ {f} : Where(g)' = Where(g)
      BY <1>0, <2>0, <2>1, <2>4 DEF Where, Closed
    <3> QED
      BY <2>1, <2>2, <3>1, MoveOne DEF Life!Next, Life!Refuse
  <2> QED
    BY <1>2, <2>0, <2>3, <2>4 DEF Watch
<1>3. CASE HandOut
  <2>0. PICK f \in Fd : f = dispatch[2]
    BY <1>0, <1>3 DEF HandOut
  <2>1. dispatch[1] \in {"READ", "OOB"} /\ f \in Fd /\ dispatch' = Idle /\ UNCHANGED <<conn, watched>>
    BY <1>0, <1>3, <2>0 DEF HandOut
  <2>2. /\ Where(f) = "delivering" /\ Where(f)' = "out"
        /\ \A g \in Fd \ {f} : Where(g)' = Where(g)
    BY <1>0, <2>0, <2>1 DEF Where
  <2> QED
    BY <2>1, <2>2, MoveOne DEF Life!Next, Life!HandOut
<1>4. CASE CloseAtOnce
  <2>0. PICK f \in Fd : f = dispatch[2]
    BY <1>0, <1>4 DEF CloseAtOnce
  <2>1. dispatch[1] = "CLOSE" /\ f \in Fd /\ dispatch' = Idle /\ Closed(f) /\ UNCHANGED watched
    BY <1>0, <1>4, <2>0 DEF CloseAtOnce
  <2>2. /\ Where(f) = "delivering" /\ Where(f)' = "closed"
        /\ \A g \in Fd \ {f} : Where(g)' = Where(g)
    BY <1>0, <2>0, <2>1 DEF Where, Closed
  <2> QED
    BY <2>1, <2>2, MoveOne DEF Life!Next, Life!HangUp
<1>5. ASSUME NEW f \in Fd, Ready(f) PROVE Life!Next
  <2>1. /\ dispatch = Idle /\ dispatch'[1] # "accepted" /\ dispatch'[2] = f
        /\ f \in watched /\ watched' = watched \ {f} /\ UNCHANGED conn
    BY <1>5 DEF Ready
  <2>2. /\ Where(f) = "watched" /\ Where(f)' = "delivering"
        /\ \A g \in Fd \ {f} : Where(g)' = Where(g)
    BY <1>0, <2>1 DEF Where
  <2> QED
    BY <2>2, MoveOne DEF Life!Next, Life!Unwatch
<1>6. ASSUME NEW f \in Fd, Expire(f) PROVE Life!Next
  <2>1. /\ f \in watched /\ watched' = watched \ {f} /\ UNCHANGED dispatch
        /\ conn'[f] = None /\ \A g \in Fd \ {f} : conn'[g] = conn[g]
    BY <1>0, <1>6 DEF Expire, Closed
  <2>2. /\ Where(f) = "watched" /\ Where(f)' = "closed"
        /\ \A g \in Fd \ {f} : Where(g)' = Where(g)
    BY <1>0, <2>1 DEF Where
  <2>3. Life!Expire({f})
    BY <2>2 DEF Life!Expire
  <2> QED
    BY <2>3 DEF Life!Next
<1> QED
  BY <1>1, <1>2, <1>3, <1>4, <1>5, <1>6 DEF Dispatch

LEMMA LifeStep == IInv /\ [Next]_vars => [Life!Next]_[f \in Fd |-> Where(f)]
<1> SUFFICES ASSUME IInv, [Next]_vars
             PROVE  Life!Next \/ UNCHANGED [f \in Fd |-> Where(f)]
  OBVIOUS
<1>1. CASE UNCHANGED <<conn, watched, dispatch>>
  BY <1>1, MoveNone DEF Where
<1>2. CASE \E c \in Conn : Send(c) \/ HangUp(c)
  BY <1>1, <1>2 DEF Send, HangUp, tableVars
<1>3. CASE Dispatch
  BY <1>3, LifeDispatch
<1>4. ASSUME NEW w \in Worker, GetWait(w) \/ Inner(w)
      PROVE  UNCHANGED <<conn, watched, dispatch>>
  BY <1>4, InnerQuiet DEF GetWait, Quiet, tableVars
<1>5. ASSUME NEW w \in Worker, Close(w) PROVE Life!Next
  <2>0. PICK f \in Fd : f = worker[w].fd
    BY <1>5, PeerConnected DEF Close, At
  <2>1. conn[f] # None /\ f \notin watched /\ f # dispatch[2]
    <3>1. AtWorker(f)
      BY <2>0 DEF AtWorker
    <3> QED
      BY <3>1 DEF IInv, Holding, InTable, AtDispatcher
  <2>2. /\ UNCHANGED <<watched, dispatch>>
        /\ conn'[f] = None /\ \A g \in Fd \ {f} : conn'[g] = conn[g]
    BY <1>5, <2>0 DEF Close, Closed, IInv, Types, tableVars
  <2>3. /\ Where(f) = "out" /\ Where(f)' = "closed"
        /\ \A g \in Fd \ {f} : Where(g)' = Where(g)
    BY <2>1, <2>2 DEF Where
  <2> QED
    BY <2>1, <2>3, MoveOne DEF Life!Next, Life!Finish
<1>6. CASE UNCHANGED vars
  BY <1>1, <1>6 DEF vars
<1> QED
  BY <1>1, <1>2, <1>3, <1>4, <1>5, <1>6 DEF Next, Step, Inner

(* Dispatcher, queue and workers give every descriptor the life that the   *)
(* event loop relies on: accepted, watched, handed out, closed once.       *)
THEOREM SlaveImplementsLife == Spec => ImplementsLife
<1>1. Init => Life!Init
  BY DEF Init, Life!Init, Where
<1> QED
  BY <1>1, InitInv, NextInv, LifeStep, PTL DEF Spec, ImplementsLife, Life!Spec

-----------------------------------------------------------------------------
(* Headers.  A context is empty until the parser notes something in it; the *)
(* phrase of 100 Continue stays, any other is the status's own; the length  *)
(* is taken last.                                                           *)
Empty(h) == h.status = 0 /\ h.reason = 0 /\ h.body = <<>> /\ h.length = -1
Continued(w) == http[w].reason = 100 /\ kind[Peer(w)] \in {"expect", "expect body"}

Fits(w) ==
  LET h == http[w]
  IN  /\ At(w, {"wait", "oob", "parse", "header", "body"}) => Empty(h)
      /\ At(w, {"shake"}) => /\ h.status = 100 /\ h.body = <<>> /\ h.length = -1
                             /\ Continued(w) /\ kind[Peer(w)] = "expect"
      /\ At(w, {"exec", "file", "reply"}) => h.reason = 0 \/ Continued(w)
      /\ At(w, {"error", "pack"}) => h.reason \in {0, h.status} \/ Continued(w)
      /\ At(w, {"pack"}) => h.length = Len(h.body)

AllFit == \A w \in Worker : Fits(w)

(* A worker that does nothing keeps its header. *)
LEMMA FitsKept ==
  ASSUME NEW w \in Worker, Fits(w), worker'[w] = worker[w], http'[w] = http[w],
         worker[w].at # "wait" => kind[Peer(w)]' = kind[Peer(w)]
  PROVE  Fits(w)'
BY DEF Fits, At, Continued, Empty

LEMMA InnerFits ==
  ASSUME IInv, NEW w \in Worker, Fits(w), Inner(w)
  PROVE  Fits(w)'
<1> DEFINE c == Peer(w)
           h == http[w]
<1>1. /\ worker[w].at # "wait" /\ c \in Conn /\ h \in HttpType
      /\ worker \in [Worker -> WorkerType] /\ http \in [Worker -> HttpType]
  BY InnerQuiet, PeerConnected DEF IInv, Types, Quiet
<1>2. Peer(w)' = c /\ kind' = kind
  BY InnerQuiet, QuietInv DEF Quiet, Peer, clientVars
<1>3. \A s \in States : Goto(w, s) => worker'[w].at = s
  BY <1>1 DEF Goto, WorkerType
<1> DEFINE g == http'[w]
           at == worker'[w].at
           Phrase100 == g.reason = 100 /\ kind[c] \in {"expect", "expect body"}
<1>4. SUFFICES
        /\ at \in {"wait", "oob", "parse", "header", "body"} => Empty(g)
        /\ at = "shake" => g.status = 100 /\ g.body = <<>> /\ g.length = -1
                           /\ Phrase100 /\ kind[c] = "expect"
        /\ at \in {"exec", "file", "reply"} => g.reason = 0 \/ Phrase100
        /\ at \in {"error", "pack"} => g.reason \in {0, g.status} \/ Phrase100
        /\ at = "pack" => g.length = Len(g.body)
  BY <1>2 DEF Fits, At, Continued, Empty
<1> USE DEF At, States
<1>5. CASE IsOob(w)
  BY <1>1, <1>3, <1>5 DEF IsOob, Fits, Empty
<1>6. CASE BeginParse(w)
  <2>1. at = "header" /\ Empty(h) /\ g = [h EXCEPT !.shake = FALSE, !.from = c]
    BY <1>1, <1>3, <1>6 DEF BeginParse, Fits
  <2>2. g.status = h.status /\ g.reason = h.reason /\ g.body = h.body /\ g.length = h.length
    BY <1>1, <2>1 DEF HttpType
  <2> QED
    BY <2>1, <2>2 DEF Empty
<1>7. ASSUME NEW n \in Nat, NEW k \in HttpType
      PROVE  Failed(k, n).reason = n /\ Failed(k, n).status = n
  BY DEF Failed, HttpType
<1>8. CASE Header(w)
  <2>1. worker[w].at = "header" /\ Empty(h)
    BY <1>8 DEF Header, Fits
  <2>2. CASE UNCHANGED <<worker, http>>
    BY <1>1, <2>1, <2>2 DEF Empty
  <2>3. CASE HeaderDone(w, c)
    <3> DEFINE k == [WithTarget(h, c) EXCEPT !.cmd = Command(kind[c]), !.url = TRUE]
               shaken == [k EXCEPT !.shake = TRUE, !.status = 100, !.reason = 100]
               refused == [shaken EXCEPT !.status = 400]
    <3>1. k \in HttpType /\ k.status = 0 /\ k.reason = 0 /\ k.body = <<>> /\ k.length = -1
      <4>1. Command(kind[c]) \in Commands
        BY <1>1, KindTyped DEF IInv
      <4>2. WithTarget(h, c) \in HttpType /\ Empty(WithTarget(h, c))
        BY <1>1, <2>1, TargetTyped DEF Empty
      <4> QED
        BY <4>1, <4>2 DEF HttpType, Empty
    <3> HIDE DEF k
    <3>2. shaken \in HttpType /\ shaken.status = 100 /\ shaken.reason = 100
          /\ shaken.body = <<>> /\ shaken.length = -1
      BY <3>1 DEF HttpType
    <3> HIDE DEF shaken
    <3>3. refused.reason = 100
      BY <3>2 DEF HttpType
    <3> HIDE DEF refused
    <3>4. CASE kind[c] = "bad"
      <4>1. http' = [http EXCEPT ![w] = Failed(k, 400)] /\ Goto(w, "error")
        BY <2>3, <3>4 DEF HeaderDone, k
      <4>2. at = "error" /\ g = Failed(k, 400)
        BY <1>1, <1>3, <4>1
      <4>3. g.reason = 400 /\ g.status = 400
        BY <1>7, <3>1, <4>2
      <4> QED
        BY <4>2, <4>3
    <3>5. CASE kind[c] = "expect"
      <4>1. http' = [http EXCEPT ![w] = shaken] /\ Goto(w, "shake")
        BY <2>3, <3>5 DEF HeaderDone, k, shaken
      <4>2. at = "shake" /\ g = shaken
        BY <1>1, <1>3, <4>1
      <4> QED
        BY <3>2, <3>5, <4>2
    <3>6. CASE kind[c] = "expect body"
      <4>1. http' = [http EXCEPT ![w] = refused] /\ Goto(w, "error")
        BY <2>3, <3>6 DEF HeaderDone, k, shaken, refused
      <4>2. at = "error" /\ g = refused
        BY <1>1, <1>3, <4>1
      <4> QED
        BY <3>3, <3>6, <4>2
    <3>7. CASE kind[c] \notin {"bad", "expect", "expect body"}
      <4>1. http' = [http EXCEPT ![w] = k] /\ (Goto(w, "body") \/ Goto(w, "exec"))
        BY <2>3, <3>7 DEF HeaderDone, k
      <4>2. at \in {"body", "exec"} /\ g = k
        BY <1>1, <1>3, <4>1
      <4> QED
        BY <3>1, <4>2 DEF Empty
    <3> QED
      BY <3>4, <3>5, <3>6, <3>7
  <2>4. CASE Goto(w, "exec") /\ \E x \in Commands, b \in BOOLEAN, k \in Begun(h, c) :
                                  http' = [http EXCEPT ![w] = [k EXCEPT !.cmd = x, !.url = b]]
    <3>1. PICK x \in Commands, b \in BOOLEAN, k \in Begun(h, c) :
            http' = [http EXCEPT ![w] = [k EXCEPT !.cmd = x, !.url = b]]
      BY <2>4
    <3>2. k \in HttpType /\ k.reason = h.reason
      BY <1>1, TargetTyped
    <3>3. g.reason = h.reason
      BY <1>1, <3>1, <3>2 DEF HttpType
    <3> QED
      BY <1>3, <2>1, <2>4, <3>3 DEF Empty
  <2>5. CASE Goto(w, "error") /\ \E k \in Begun(h, c) : http' = [http EXCEPT ![w] = Failed(k, 408)]
    <3>0. PICK k \in Begun(h, c) : http' = [http EXCEPT ![w] = Failed(k, 408)]
      BY <2>5
    <3>1. at = "error" /\ g = Failed(k, 408)
      BY <1>1, <1>3, <2>5, <3>0
    <3>2. g.reason = 408 /\ g.status = 408
      BY <1>1, <1>7, <3>1, TargetTyped
    <3> QED
      BY <3>1, <3>2
  <2>6. Command(kind[c]) \in Commands /\ "UNKNOW" \in Commands
    BY <1>1, KindTyped DEF Commands, IInv
  <2> QED
    BY <1>1, <1>8, <2>2, <2>3, <2>4, <2>5, <2>6 DEF Header
<1>9. CASE Body(w)
  <2>1. worker[w].at = "body" /\ Empty(h)
    BY <1>9 DEF Body, Fits
  <2>2. \/ http' = http /\ (Goto(w, "exec") \/ UNCHANGED worker)
        \/ http' = [http EXCEPT ![w] = Failed(h, 408)] /\ Goto(w, "error")
    BY <1>9 DEF Body
  <2>3. CASE http' = http /\ (Goto(w, "exec") \/ UNCHANGED worker)
    BY <1>3, <2>1, <2>3 DEF Empty
  <2>4. CASE http' = [http EXCEPT ![w] = Failed(h, 408)] /\ Goto(w, "error")
    <3>1. at = "error" /\ g = Failed(h, 408)
      BY <1>1, <1>3, <2>4
    <3>2. g.reason = 408 /\ g.status = 408
      BY <1>1, <1>7, <3>1
    <3> QED
      BY <3>1, <3>2
  <2> QED
    BY <2>2, <2>3, <2>4
<1>10. CASE Shake(w)
  <2> DEFINE again == [h EXCEPT !.status = 0]
  <2>1. worker[w].at = "shake" /\ h.reason = 100 /\ kind[c] = "expect"
    BY <1>10 DEF Shake, Fits, Continued
  <2>2. \/ http' = [http EXCEPT ![w] = again]
        \/ http' = [http EXCEPT ![w] = [again EXCEPT !.body = Append(@, c)]]
    BY <1>10 DEF Shake
  <2>3. again.reason = 100 /\ [again EXCEPT !.body = Append(@, c)].reason = 100
    BY <1>1, <2>1 DEF HttpType
  <2>4. at \in {"exec", "close"}
    BY <1>3, <1>10 DEF Shake
  <2> DEFINE longer == [again EXCEPT !.body = Append(@, c)]
  <2>5. g.reason = 100
    <3>1. again.reason = 100 /\ longer.reason = 100
      BY <2>3
    <3>2. http' = [http EXCEPT ![w] = again] \/ http' = [http EXCEPT ![w] = longer]
      BY <2>2
    <3>3. w \in DOMAIN http
      BY <1>1
    <3> HIDE DEF again, longer
    <3>4. g = again \/ g = longer
      BY <3>2, <3>3
    <3> QED
      BY <3>1, <3>4
  <2> QED
    BY <2>1, <2>4, <2>5
<1>11. ASSUME NEW n \in Nat, NEW b, NEW state \in {"error", "reply", "file"}, Answer(w, n, b, state),
              h.reason = 0 \/ Continued(w)
       PROVE  at = state /\ (g.reason = 0 \/ Phrase100)
  <2>1. at = state
    BY <1>3, <1>11 DEF Answer
  <2>2. g.reason = h.reason
    BY <1>1, <1>11 DEF Answer, HttpType
  <2> QED
    BY <1>11, <2>1, <2>2 DEF Continued
<1>12. CASE ExecService(w)
  <2>1. h.reason = 0 \/ Continued(w)
    BY <1>12 DEF ExecService, Fits
  <2>2. \A s \in ServiceStatus : Meant(s) \in Nat /\ Branch(Meant(s)) \in {"error", "reply"}
    <3>1. \A s \in ServiceStatus : Meant(s) \in Nat
      BY SlaveAssumption DEF Meant
    <3>2. \A n : Branch(n) \in {"error", "reply"}
      BY ZenonT(40) DEF Branch
    <3> HIDE DEF Meant, Branch
    <3> QED
      BY <3>1, <3>2
  <2>3. \/ \E s \in ServiceStatus, b \in Bodies(h) : Answer(w, Meant(s), b, Branch(Meant(s)))
        \/ \E s \in {200, 404, 405, 406, 500}, b \in Bodies(h), state \in {"error", "file"} :
             Answer(w, s, b, state)
    BY <1>12 DEF ExecService, Bodies
  <2>4. PICK n \in Nat, b \in Bodies(h), state \in {"error", "reply", "file"} : Answer(w, n, b, state)
    BY <2>2, <2>3
  <2> QED
    BY <1>11, <2>1, <2>4
<1>13. CASE GetFile(w)
  <2>1. h.reason = 0 \/ Continued(w)
    BY <1>13 DEF GetFile, Fits
  <2>2. \/ \E b \in {h.body, Append(h.body, h.from)} : Answer(w, 200, b, "reply")
        \/ \E n \in {404, 406} : Answer(w, n, h.body, "error")
        \/ \E b \in {h.body, Append(h.body, h.from)} : Answer(w, 500, b, "error")
    BY <1>13 DEF GetFile
  <2>3. PICK n \in Nat, b \in {h.body, Append(h.body, h.from)}, state \in {"error", "reply"} :
          Answer(w, n, b, state)
    BY <2>2
  <2> QED
    BY <1>11, <2>1, <2>3
<1>14. CASE Reply(w)
  <2>1. /\ at = "pack" /\ g = Measured(h) /\ (h.reason = 0 \/ Continued(w))
    BY <1>1, <1>3, <1>14 DEF Reply, Fits
  <2>2. g.reason = h.reason /\ g.length = Len(g.body)
    BY <1>1, <2>1 DEF Measured, HttpType
  <2> QED
    BY <2>1, <2>2 DEF Continued
<1>15. CASE ErrorReply(w)
  <2> DEFINE p == WithPage(h)
  <2>1. p \in HttpType /\ p.reason = h.reason /\ p.status = h.status
    BY <1>1, WithPageTyped DEF WithPage, HttpType
  <2>2. /\ http' = [http EXCEPT ![w] = Measured(p)] /\ Goto(w, "pack")
        /\ h.reason \in {0, h.status} \/ Continued(w)
    BY <1>15 DEF ErrorReply, Fits
  <2> HIDE DEF p
  <2>3. Measured(p).reason = p.reason /\ Measured(p).status = p.status
        /\ Measured(p).length = Len(Measured(p).body)
    BY <2>1 DEF Measured, HttpType
  <2>4. at = "pack" /\ g = Measured(p)
    BY <1>1, <1>3, <2>2
  <2> QED
    BY <2>1, <2>2, <2>3, <2>4 DEF Continued
<1>16. CASE Pack(w)
  BY <1>3, <1>16 DEF Pack
<1> QED
  BY <1>5, <1>6, <1>8, <1>9, <1>10, <1>12, <1>13, <1>14, <1>15, <1>16 DEF Inner

LEMMA AllFitInit == Init => AllFit
BY DEF Init, AllFit, Fits, At, Empty, FreshHttp

LEMMA AllFitStep == IInv /\ AllFit /\ [Next]_vars => AllFit'
<1> SUFFICES ASSUME IInv, AllFit, [Next]_vars PROVE AllFit'
  OBVIOUS
<1>1. ASSUME NEW c \in Conn, Send(c) \/ HangUp(c) PROVE AllFit'
  <2>1. UNCHANGED <<worker, http, kind, conn>>
    BY <1>1 DEF Send, HangUp
  <2> QED
    BY <2>1 DEF AllFit, Fits, At, Continued, Empty, Peer
<1>2. CASE Dispatch
  <2>1. UNCHANGED <<worker, http, kind>> /\ \A w \in Worker : worker[w].at # "wait" => Peer(w)' = Peer(w)
    BY <1>2, PeersKept
  <2> QED
    BY <2>1, FitsKept DEF AllFit
<1>3. ASSUME NEW w \in Worker, GetWait(w) PROVE AllFit'
  <2>1. queue[1][2] \in {"READ", "OOB"} /\ Head(queue) = queue[1]
    <3>1. queue \in Seq(Fd \X {"READ", "OOB"}) /\ queue # <<>>
      BY <1>3 DEF IInv, Types, GetWait
    <3> QED
      BY <3>1
  <2>2. worker'[w].at \in {"oob", "parse"} /\ \A v \in Worker \ {w} : worker'[v] = worker[v]
    BY <1>3, <2>1 DEF GetWait, FirstState, IInv, Types
  <2>3. UNCHANGED <<http, conn, kind>> /\ Empty(http[w])
    BY <1>3 DEF GetWait, At, AllFit, Fits, clientVars
  <2>4. Fits(w)'
    BY <2>2, <2>3 DEF Fits, At, Empty
  <2>5. \A v \in Worker \ {w} : Fits(v)'
    BY <2>2, <2>3, FitsKept DEF AllFit, Peer
  <2> QED
    BY <2>4, <2>5 DEF AllFit
<1>4. ASSUME NEW w \in Worker, Inner(w) PROVE AllFit'
  <2>1. /\ UNCHANGED <<conn, kind>>
        /\ \A v \in Worker \ {w} : worker'[v] = worker[v] /\ http'[v] = http[v]
    BY <1>4, InnerQuiet, QuietInv DEF Quiet, clientVars
  <2>2. \A v \in Worker \ {w} : Fits(v)'
    BY <2>1, FitsKept DEF AllFit, Peer
  <2> QED
    BY <1>4, <2>2, InnerFits DEF AllFit
<1>5. ASSUME NEW w \in Worker, Close(w) PROVE AllFit'
  <2>1. \A v \in Worker \ {w} : worker'[v] = worker[v] /\ http'[v] = http[v]
    BY <1>5, CloseInv
  <2>2. ASSUME NEW v \in Worker \ {w}, worker[v].at # "wait" PROVE Peer(v)' = Peer(v)
    <3>1. worker[v].fd \in Fd /\ worker[v].fd # None
      BY <2>2, PeerConnected, SlaveAssumption
    <3>2. worker[v].fd # worker[w].fd
      BY <3>1 DEF IInv, Holding
    <3> QED
      BY <1>5, <2>1, <3>1, <3>2 DEF Close, Closed, Peer, IInv, Types
  <2>3. UNCHANGED kind
    BY <1>5 DEF Close, clientVars
  <2>4. \A v \in Worker \ {w} : Fits(v)'
    BY <2>1, <2>2, <2>3, FitsKept DEF AllFit
  <2>5. worker'[w].at = "wait" /\ Empty(http'[w])
    BY <1>5 DEF Close, Cleaned, Empty, IInv, Types, HttpType
  <2> QED
    BY <2>4, <2>5 DEF AllFit, Fits, At, Empty
<1>6. CASE UNCHANGED vars
  BY <1>6 DEF vars, AllFit, Fits, At, Continued, Empty, Peer
<1> QED
  BY <1>1, <1>2, <1>3, <1>4, <1>5, <1>6 DEF Next, Step, Inner

(* Content-Length counts what follows the header, and the reason phrase is *)
(* that of the status but for the one of 100 Continue, which stays.        *)
THEOREM HeadersFit == Spec => []HeaderFits
<1>1. AllFit => HeaderFits
  BY DEF AllFit, Fits, At, Continued, HeaderFits, Sending, Message
<1> QED
  BY <1>1, InvHolds, AllFitInit, AllFitStep, PTL DEF Spec
=============================================================================
