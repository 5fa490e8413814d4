--------------------------------- MODULE Slave ---------------------------------
(***************************************************************************)
(* A slave process at work: the dispatcher (reduced to what EventLoop      *)
(* shows of it), the queue of ready sockets (the FIFO that EventQueue      *)
(* implements), the worker threads of src/eris/eris.slave.c with the HTTP  *)
(* context each of them reuses for one connection after the other, and the *)
(* clients: what they ask, how much of it has arrived, whether they hung   *)
(* up.  The kernel gives a closed descriptor to the next connection.       *)
(*                                                                         *)
(* A request arrives in three parts: some of the header (1), all of it     *)
(* (2), the body (3).  A body is a sequence of pieces: the connection it   *)
(* was made for, or <<"target", c>> for what a service copied of the       *)
(* parameters or the fragment of c.  A reason phrase is named by the       *)
(* status it belongs to.  Out of memory is not modelled.                   *)
(***************************************************************************)
EXTENDS Integers, Sequences

CONSTANTS Conn,      \* the connections, each made once
          Fd,        \* the descriptors of the process
          Worker,    \* the threads that run eris_slave_handler
          Capacity,  \* how many sockets the queue takes
          Asked,     \* what the clients may ask: functions from Conn to kinds
          Targeted,  \* those whose requests have parameters or a fragment
          ServiceStatus,  \* the statuses services leave in the response
          None

ASSUME SlaveAssumption ==
  /\ Capacity \in Nat \ {0}
  /\ Asked \subseteq [Conn -> {"GET", "HEAD", "POST", "chunked", "expect", "expect body",
                              "OPTIONS", "bad"}]
  /\ Targeted \subseteq Conn
  /\ ServiceStatus \subseteq Nat
  /\ None \notin Conn \cup Fd

VARIABLES
  kind,      \* kind[c]: the request of connection c
  sent,      \* sent[c]: how many parts of it have arrived
  read,      \* read[c]: how many parts the process has received
  line,      \* line[c]: "new", "open", "fin" (client shut down) or "reset"
  out,       \* out[c]: the messages that, whole or in part, left for c
  conn,      \* conn[f]: the connection at descriptor f, None when f is closed
  watched,   \* the descriptors in the event table
  dispatch,  \* the dispatcher: <<what it does, descriptor>>
  queue,     \* svc_event_queue: <<descriptor, event>>, oldest first
  worker,    \* worker[w]: state of the handler, its descriptor, the event
  http       \* http[w]: the HTTP context of worker w

clientVars == <<kind, sent, line>>
tableVars  == <<watched, dispatch, queue>>
vars == <<kind, sent, read, line, out, conn, watched, dispatch, queue, worker, http>>

Idle == <<"idle", None>>

(* Mutant of Cleaned: the body stays. *)
CleanedNotBody(h) ==
  [h EXCEPT !.from = None, !.cmd = "UNKNOW", !.url = FALSE,
            !.status = 0, !.reason = 0, !.length = -1]
(* eris_http_cleanup, at the head of every round, forgets all but shake,   *)
(* which BeginParse resets, and the parameters and the fragment of the     *)
(* request, which nothing ever resets: kept holds the connections whose    *)
(* parameters or fragment are in the context.                              *)
Cleaned(h) ==
  [h EXCEPT !.from = None, !.cmd = "UNKNOW", !.url = FALSE,
            !.status = 0, !.reason = 0, !.body = <<>>, !.length = -1]

FreshHttp == [from |-> None, cmd |-> "UNKNOW", url |-> FALSE, shake |-> FALSE, kept |-> {},
              status |-> 0, reason |-> 0, body |-> <<>>, length |-> -1]

Init ==
  /\ kind \in Asked
  /\ sent = [c \in Conn |-> 0] /\ read = [c \in Conn |-> 0]
  /\ line = [c \in Conn |-> "new"]
  /\ out  = [c \in Conn |-> <<>>]
  /\ conn = [f \in Fd |-> None]
  /\ watched = {} /\ dispatch = Idle /\ queue = <<>>
  /\ worker = [w \in Worker |-> [at |-> "wait", fd |-> None, event |-> "NONE"]]
  /\ http = [w \in Worker |-> FreshHttp]

-----------------------------------------------------------------------------
(* Clients.                                                                *)

Connected(c) == \E f \in Fd : conn[f] = c

HasBody(k) == k \in {"POST", "chunked", "expect body"}

Send(c) ==
  /\ Connected(c) /\ line[c] = "open"
  /\ sent[c] < IF HasBody(kind[c]) THEN 3 ELSE 2
  /\ sent' = [sent EXCEPT ![c] = @ + 1]
  /\ UNCHANGED <<kind, read, line, out, conn, tableVars, worker, http>>

HangUp(c) ==
  /\ Connected(c) /\ line[c] = "open"
  /\ \E how \in {"fin", "reset"} : line' = [line EXCEPT ![c] = how]
  /\ UNCHANGED <<kind, sent, read, out, conn, tableVars, worker, http>>

-----------------------------------------------------------------------------
(* The dispatcher.                                                         *)

Closed(f) == conn' = [conn EXCEPT ![f] = None]

Accept(c, f) ==
  /\ dispatch = Idle
  /\ line[c] = "new" /\ conn[f] = None
  /\ line' = [line EXCEPT ![c] = "open"]
  /\ conn' = [conn EXCEPT ![f] = c]
  /\ dispatch' = <<"accepted", f>>
  /\ UNCHANGED <<kind, sent, read, out, watched, queue, worker, http>>

(* eris_event_add, or closing the socket when it fails. *)
Watch ==
  /\ dispatch[1] = "accepted" /\ dispatch' = Idle
  /\ \/ watched' = watched \cup {dispatch[2]} /\ UNCHANGED conn
     \/ Closed(dispatch[2]) /\ UNCHANGED watched
  /\ UNCHANGED <<clientVars, read, out, queue, worker, http>>

Readable(c) == sent[c] > read[c] \/ line[c] # "open"

(* Mutant of Ready: the socket stays in the table. *)
ReadyKeeps(f) ==
  /\ dispatch = Idle /\ f \in watched /\ Readable(conn[f])
  /\ \E event \in {"READ", "OOB"} \cup IF line[conn[f]] = "open" THEN {} ELSE {"CLOSE"} :
       dispatch' = <<event, f>>
  /\ UNCHANGED <<clientVars, read, out, conn, watched, queue, worker, http>>
(* A watched socket has something to say: it leaves the table, and the     *)
(* callback gets the event the I/O type made of it.                        *)
Ready(f) ==
  /\ dispatch = Idle /\ f \in watched /\ Readable(conn[f])
  /\ \E event \in {"READ", "OOB"} \cup IF line[conn[f]] = "open" THEN {} ELSE {"CLOSE"} :
       dispatch' = <<event, f>>
  /\ watched' = watched \ {f}
  /\ UNCHANGED <<clientVars, read, out, conn, queue, worker, http>>

(* The callback waits for room in the queue. *)
HandOut ==
  /\ dispatch[1] \in {"READ", "OOB"} /\ Len(queue) < Capacity
  /\ queue' = Append(queue, <<dispatch[2], dispatch[1]>>)
  /\ dispatch' = Idle
  /\ UNCHANGED <<clientVars, read, out, conn, watched, worker, http>>

CloseAtOnce ==
  /\ dispatch[1] = "CLOSE"
  /\ Closed(dispatch[2])
  /\ dispatch' = Idle
  /\ UNCHANGED <<clientVars, read, out, watched, queue, worker, http>>

Expire(f) ==
  /\ dispatch = Idle /\ f \in watched
  /\ Closed(f)
  /\ watched' = watched \ {f}
  /\ UNCHANGED <<clientVars, read, out, dispatch, queue, worker, http>>

-----------------------------------------------------------------------------
(* The handler, state by state.                                            *)

At(w, states) == worker[w].at \in states
Goto(w, state) == worker' = [worker EXCEPT ![w].at = state]
Peer(w) == conn[worker[w].fd]

FirstState(event) == CASE event = "OOB" -> "oob" [] event = "READ" -> "parse"

GetWait(w) ==
  /\ At(w, {"wait"}) /\ queue # <<>>
  /\ queue' = Tail(queue)
  /\ worker' = [worker EXCEPT ![w] = [at |-> FirstState(Head(queue)[2]),
                                      fd |-> Head(queue)[1], event |-> Head(queue)[2]]]
  /\ UNCHANGED <<clientVars, read, out, conn, watched, dispatch, http>>

(* One character is received and the connection closed: the event is OOB   *)
(* alone, never OOB and READ.                                              *)
IsOob(w) ==
  /\ At(w, {"oob"})
  /\ Goto(w, IF worker[w].event = "READ" THEN "parse" ELSE "close")
  /\ UNCHANGED <<clientVars, read, out, conn, tableVars, http>>

BeginParse(w) ==
  /\ At(w, {"parse"})
  /\ http' = [http EXCEPT ![w] = [@ EXCEPT !.shake = FALSE, !.from = Peer(w)]]
  /\ Goto(w, "header")
  /\ UNCHANGED <<clientVars, read, out, conn, tableVars>>

(* eris_slave_request_incb: data, the end of the stream (which it reports  *)
(* as success with nothing), or an error, a timeout included.              *)
ReceiveData(c) ==
  /\ line[c] # "reset"
  /\ \E n \in read[c] + 1 .. sent[c] : read' = [read EXCEPT ![c] = n]
StreamEnded(c) == line[c] = "fin" /\ read[c] = sent[c]
(* Mutant of ReceiveFails: nobody is given up for being silent. *)
ReceiveFailsNoTimeout(c) == line[c] = "reset"
ReceiveFails(c) == line[c] = "reset" \/ (line[c] = "open" /\ read[c] = sent[c])

Command(k) == CASE k \in {"POST", "chunked", "expect", "expect body"} -> "POST"
                [] k = "bad" -> "UNKNOW"
                [] OTHER -> k

Failed(h, s) == [h EXCEPT !.status = s, !.reason = s]   \* what the parser notes

(* The parameters and the fragment of a request are appended to what the   *)
(* context holds of those before it; of a request that has only begun they *)
(* may be there already.                                                   *)
WithTarget(h, c) == [h EXCEPT !.kept = @ \cup (Targeted \cap {c})]
Begun(h, c) == IF read[c] = 0 THEN {h} ELSE {h, WithTarget(h, c)}

(* The end of the header decides how the request goes on. *)
HeaderDone(w, c) ==
  LET h == [WithTarget(http[w], c) EXCEPT !.cmd = Command(kind[c]), !.url = TRUE]
      shaken == [h EXCEPT !.shake = TRUE, !.status = 100, !.reason = 100]
  IN  CASE kind[c] = "bad" ->
             /\ http' = [http EXCEPT ![w] = Failed(h, 400)]
             /\ Goto(w, "error")
        [] kind[c] = "expect" ->
             /\ http' = [http EXCEPT ![w] = shaken]
             /\ Goto(w, "shake")
        [] kind[c] = "expect body" ->
             /\ http' = [http EXCEPT ![w] = [shaken EXCEPT !.status = 400]]
             /\ Goto(w, "error")
        [] OTHER ->
             /\ http' = [http EXCEPT ![w] = h]
             /\ Goto(w, IF HasBody(kind[c]) /\ read'[c] < 3 THEN "body" ELSE "exec")

Header(w) ==
  /\ At(w, {"header"})
  /\ LET c == Peer(w)
     IN  \/ /\ ReceiveData(c)
            /\ IF read'[c] < 2 THEN UNCHANGED <<worker, http>> ELSE HeaderDone(w, c)
         \/ /\ StreamEnded(c) /\ UNCHANGED read       \* parsed as far as it came
            /\ Goto(w, "exec")
            /\ \E cmd \in {"UNKNOW"} \cup (IF read[c] = 0 THEN {} ELSE {Command(kind[c])}),
                  url \in BOOLEAN, g \in Begun(http[w], c) :
                 http' = [http EXCEPT ![w] = [g EXCEPT !.cmd = cmd, !.url = (cmd # "UNKNOW" /\ url)]]
         \/ /\ ReceiveFails(c) /\ UNCHANGED read
            /\ \E g \in Begun(http[w], c) : http' = [http EXCEPT ![w] = Failed(g, 408)]
            /\ Goto(w, "error")
  /\ UNCHANGED <<clientVars, out, conn, tableVars>>

(* The end of the stream is no error here either: the loop goes round.     *)
(* In a chunked body not even an error ends it.                            *)
Body(w) ==
  /\ At(w, {"body"})
  /\ LET c == Peer(w)
     IN  \/ ReceiveData(c) /\ Goto(w, "exec") /\ UNCHANGED http
         \/ /\ kind[c] = "chunked" /\ ReceiveData(c)     \* the chunks are refused
            /\ http' = [http EXCEPT ![w] = Failed(@, 408)]
            /\ Goto(w, "error")
         \/ StreamEnded(c) /\ UNCHANGED <<read, worker, http>>
         \/ /\ ReceiveFails(c) /\ UNCHANGED read
            /\ IF kind[c] = "chunked"
               THEN UNCHANGED <<worker, http>>
               ELSE /\ http' = [http EXCEPT ![w] = Failed(@, 408)]
                    /\ Goto(w, "error")
  /\ UNCHANGED <<clientVars, out, conn, tableVars>>

(* The message eris_http_response_pack makes of the context: HEAD gets no  *)
(* body, and a reason phrase that was set is preferred to the status's own. *)
Message(h) ==
  [status |-> h.status, reason |-> IF h.reason = 0 THEN h.status ELSE h.reason,
   length |-> h.length, body |-> IF h.cmd = "HEAD" THEN <<>> ELSE h.body]

(* All of it leaves, or what an error of send left of it, or nothing. *)
Deliver(w, what) ==
  \/ out' = [out EXCEPT ![Peer(w)] = Append(@, what)]
  \/ UNCHANGED out

(* 100 Continue is sent, and the data that are there are taken once: for a *)
(* Content-Length of 0 there is no second round.  They are appended to the *)
(* body of the response.                                                   *)
Shake(w) ==
  /\ At(w, {"shake"})
  /\ Deliver(w, "continue")
  /\ LET c == Peer(w)
         again == [http[w] EXCEPT !.status = 0]
     IN  \/ /\ ReceiveData(c) /\ Goto(w, "exec")
            /\ http' = [http EXCEPT ![w] = [again EXCEPT !.body = Append(@, c)]]
         \/ /\ line[c] # "reset" /\ read[c] = sent[c] /\ UNCHANGED read
            /\ Goto(w, "exec")
            /\ http' = [http EXCEPT ![w] = again]
         \/ /\ line[c] = "reset" /\ UNCHANGED read
            /\ Goto(w, "close")
            /\ http' = [http EXCEPT ![w] = again]
  /\ UNCHANGED <<clientVars, conn, tableVars>>

Served == {"GET", "DELETE", "HEAD", "PATCH", "POST", "PUT"}

(* Where a status a service left sends the handler; 600 stands for the     *)
(* numbers that are no status.                                             *)
Meant(s) == IF s \in {0, 600} THEN 200 ELSE s
Branch(s) == IF s \in 400 .. 449 \cup 500 .. 511 THEN "error" ELSE "reply"

Answer(w, s, body, state) ==
  /\ http' = [http EXCEPT ![w].status = s, ![w].body = body]
  /\ Goto(w, state)

(* The body as it was, or set by the service, which may put into it what it *)
(* finds for parameters and fragment.                                      *)
Bodies(h) == {h.body, <<h.from>>} \cup {<<<<"target", c>>>> : c \in h.kept}

ExecService(w) ==
  /\ At(w, {"exec"})
  /\ LET h == http[w]
         bodies == Bodies(h)
     IN  IF h.cmd \notin Served THEN Answer(w, 405, h.body, "error")
         ELSE IF ~h.url THEN Answer(w, 500, h.body, "error")
         ELSE \/ \E s \in ServiceStatus, body \in bodies :
                   Answer(w, Meant(s), body, Branch(Meant(s)))
              \/ \E body \in bodies : Answer(w, 500, body, "error")
              \/ Answer(w, 406, h.body, "error")            \* language not supported
              \/ IF h.cmd \in {"GET", "HEAD"}               \* no such service
                 THEN Answer(w, 200, h.body, "file")
                 ELSE Answer(w, 404, h.body, "error")
  /\ UNCHANGED <<clientVars, read, out, conn, tableVars>>

(* The file the URL names: read, missing, not to be read, or an error,     *)
(* perhaps after a part of it.                                             *)
GetFile(w) ==
  /\ At(w, {"file"})
  /\ LET h == http[w]
         more == Append(h.body, h.from)
     IN  \/ \E body \in {h.body, more} : Answer(w, 200, body, "reply")
        \/ \E s \in {404, 406} : Answer(w, s, h.body, "error")
        \/ \E body \in {h.body, more} : Answer(w, 500, body, "error")
  /\ UNCHANGED <<clientVars, read, out, conn, tableVars>>

Measured(h) == [h EXCEPT !.length = Len(h.body)]

Reply(w) ==
  /\ At(w, {"reply"})
  /\ http' = [http EXCEPT ![w] = Measured(@)]
  /\ Goto(w, "pack")
  /\ UNCHANGED <<clientVars, read, out, conn, tableVars>>

(* An error without a body gets a page. *)
WithPage(h) == IF h.body = <<>> THEN [h EXCEPT !.body = <<h.from>>] ELSE h

(* Mutant of ErrorReply: the length is set before the page is made. *)
ErrorReplyMeasuredFirst(w) ==
  /\ At(w, {"error"})
  /\ http' = [http EXCEPT ![w] = WithPage(Measured(@))]
  /\ Goto(w, "pack")
  /\ UNCHANGED <<clientVars, read, out, conn, tableVars>>
ErrorReply(w) ==
  /\ At(w, {"error"})
  /\ http' = [http EXCEPT ![w] = Measured(WithPage(@))]
  /\ Goto(w, "pack")
  /\ UNCHANGED <<clientVars, read, out, conn, tableVars>>

(* Mutant of Pack: the answer is taken for an error and sent again. *)
PackAgain(w) ==
  /\ At(w, {"pack"})
  /\ Deliver(w, "answer")
  /\ \E state \in {"close", "error"} : Goto(w, state)
  /\ UNCHANGED <<clientVars, read, conn, tableVars, http>>
(* Keeping the connection is compiled out: it is closed after the answer.  *)
Pack(w) ==
  /\ At(w, {"pack"})
  /\ Deliver(w, "answer")
  /\ Goto(w, "close")
  /\ UNCHANGED <<clientVars, read, conn, tableVars, http>>

(* Mutant of Close: the descriptor is not closed. *)
CloseForgotten(w) ==
  /\ At(w, {"close"})
  /\ worker' = [worker EXCEPT ![w] = [at |-> "wait", fd |-> None, event |-> "NONE"]]
  /\ http' = [http EXCEPT ![w] = Cleaned(@)]
  /\ UNCHANGED <<clientVars, read, out, conn, tableVars>>
(* The socket is closed and the next round begins: the context is cleaned  *)
(* before the worker waits again.                                          *)
Close(w) ==
  /\ At(w, {"close"})
  /\ Closed(worker[w].fd)
  /\ worker' = [worker EXCEPT ![w] = [at |-> "wait", fd |-> None, event |-> "NONE"]]
  /\ http' = [http EXCEPT ![w] = Cleaned(@)]
  /\ UNCHANGED <<clientVars, read, out, tableVars>>

-----------------------------------------------------------------------------
Step(w) ==
  \/ GetWait(w) \/ IsOob(w) \/ BeginParse(w) \/ Header(w) \/ Body(w) \/ Shake(w)
  \/ ExecService(w) \/ GetFile(w) \/ Reply(w) \/ ErrorReply(w) \/ Pack(w) \/ Close(w)

Dispatch ==
  \/ \E c \in Conn, f \in Fd : Accept(c, f)
  \/ Watch \/ HandOut \/ CloseAtOnce
  \/ \E f \in Fd : Ready(f) \/ Expire(f)

Next ==
  \/ \E c \in Conn : Send(c) \/ HangUp(c)
  \/ Dispatch
  \/ \E w \in Worker : Step(w)

(* The clients owe nothing.  The dispatcher and each worker run; a service *)
(* returns, and sending ends, in an answer or an error.                    *)
Fairness ==
  /\ WF_vars(Watch) /\ WF_vars(HandOut) /\ WF_vars(CloseAtOnce)
  /\ \A f \in Fd : WF_vars(Ready(f)) /\ WF_vars(Expire(f))
  /\ \A w \in Worker : WF_vars(Step(w))

Spec == Init /\ [][Next]_vars
FairSpec == Spec /\ Fairness

-----------------------------------------------------------------------------
States == {"wait", "oob", "parse", "header", "body", "shake", "exec", "file",
           "reply", "error", "pack", "close"}

TypeOK ==
  /\ kind \in Asked
  /\ sent \in [Conn -> 0 .. 3] /\ read \in [Conn -> 0 .. 3]
  /\ line \in [Conn -> {"new", "open", "fin", "reset"}]
  /\ conn \in [Fd -> Conn \cup {None}]
  /\ watched \subseteq Fd
  /\ dispatch \in {Idle} \cup ({"accepted", "READ", "OOB", "CLOSE"} \X Fd)
  /\ queue \in Seq(Fd \X {"READ", "OOB"}) /\ Len(queue) <= Capacity
  /\ \A w \in Worker :
       /\ worker[w].at \in States /\ worker[w].fd \in Fd \cup {None}
       /\ worker[w].at = "wait" <=> worker[w].fd = None
       /\ http[w].from \in Conn \cup {None}

(* Every open descriptor is with one party: the table, the dispatcher, one *)
(* place of the queue or one worker; a closed one with nobody.  A party    *)
(* that kept a descriptor it closed would meet the next connection there.  *)
Holders(f) ==
  {<<"table">> : x \in watched \cap {f}}
  \cup {<<"dispatcher">> : x \in {dispatch[2]} \cap {f}}
  \cup {<<"queue", i>> : i \in {j \in DOMAIN queue : queue[j][1] = f}}
  \cup {<<"worker", w>> : w \in {v \in Worker : worker[v].fd = f}}

HeldOnce ==
  \A f \in Fd : IF conn[f] = None THEN Holders(f) = {}
                 ELSE \E h \in Holders(f) : Holders(f) = {h}

Sending(w) == At(w, {"shake", "pack"})

(* What a client is sent was made for its own connection, whatever request *)
(* the worker's context was used for before, and no answer goes to a       *)
(* descriptor that has changed hands.  Of earlier requests the context     *)
(* keeps parameters and fragment, in front of those of the present one: a  *)
(* piece that a service copied from there is all that may be another's.    *)
OwnAnswer ==
  \A w \in Worker : Sending(w) =>
    LET m == Message(http[w])
    IN  \A i \in DOMAIN m.body : m.body[i] \in {Peer(w)} \cup ({"target"} \X http[w].kept)

(* A client is sent one answer, or, if it asked for that, a 100 Continue   *)
(* and then one answer.                                                    *)
AnswersInOrder ==
  \A c \in Conn :
    out[c] \in {<<>>, <<"answer">>} \cup
      IF kind[c] = "expect" THEN {<<"continue">>, <<"continue", "answer">>} ELSE {}

(* The header fits what follows: Content-Length counts the body, 100       *)
(* Continue has no body, and the reason phrase is the one of the status    *)
(* unless the client had asked for 100 Continue, whose phrase then stays.  *)
HeaderFits ==
  \A w \in Worker : Sending(w) =>
    LET m == Message(http[w])
        k == kind[Peer(w)]
    IN  /\ IF At(w, {"shake"})
           THEN m.status = 100 /\ m.length = -1 /\ m.body = <<>>
           ELSE m.length = Len(http[w].body)
        /\ m.reason = m.status \/ (k \in {"expect", "expect body"} /\ m.reason = 100)

(* Dispatcher and workers together give every descriptor the life that the *)
(* event loop relies on.                                                   *)
Where(f) == IF conn[f] = None THEN "closed"
            ELSE IF f \in watched THEN "watched"
            ELSE IF dispatch[2] # f THEN "out"
            ELSE IF dispatch[1] = "accepted" THEN "accepted" ELSE "delivering"
Life == INSTANCE ConnectionLife
  WITH Fds <- Fd, Shares <- FALSE, where <- [f \in Fd |-> Where(f)]
ImplementsLife == Life!Spec

(* A worker that waits in a body for what cannot come any more, or, in a   *)
(* chunked body, does not come.                                            *)
Stuck(w) ==
  /\ At(w, {"body"})
  /\ LET c == Peer(w)
     IN  StreamEnded(c) \/ (kind[c] = "chunked" /\ ReceiveFails(c))

(* Every connection ends, whatever its client does, except those in whose  *)
(* body a worker is stuck; those cost the others nothing while one worker  *)
(* is left.                                                                *)
Ends ==
  \A c \in Conn :
    Connected(c) ~>
      \/ ~Connected(c)
      \/ \E w \in Worker : Stuck(w) /\ Peer(w) = c
      \/ \A w \in Worker : Stuck(w)

(* README.md:72: receiving a request takes no longer than the timeout, so  *)
(* a worker does not stay in a body.                                       *)
ReceivingTimesOut ==
  \A w \in Worker : At(w, {"body"}) ~> ~At(w, {"body"})
=============================================================================
