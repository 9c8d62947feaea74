-------------------------- MODULE ServerMainProofs --------------------------
(***************************************************************************)
(* The parent of the server, for any number of clients and processes and   *)
(* any network that loses or damages packets: a request starts at most one *)
(* child, and its answer goes to the client that sent it.                  *)
(***************************************************************************)
EXTENDS ServerMain, SequenceTheorems, TLAPS

USE DEF Request, Running, Zombies, parentVars

\* A sequence that gains or loses an element at an end keeps the others.
LEMMA AppendTail ==
    ASSUME NEW S, NEW q \in Seq(S), NEW m \in S
    PROVE  /\ Append(q, m) \in Seq(S)
           /\ Len(Append(q, m)) = Len(q) + 1
           /\ DOMAIN Append(q, m) = 1 .. Len(q) + 1
           /\ \A i \in 1 .. Len(q) : Append(q, m)[i] = q[i]
           /\ Append(q, m)[Len(q) + 1] = m
           /\ q # << >> => /\ Head(q) \in S /\ Head(q) = q[1] /\ 1 \in DOMAIN q
                           /\ Tail(q) \in Seq(S)
                           /\ Len(Tail(q)) = Len(q) - 1
                           /\ DOMAIN Tail(q) = 1 .. Len(q) - 1
                           /\ \A i \in 1 .. Len(q) - 1 : Tail(q)[i] = q[i + 1]
           /\ DOMAIN q = 1 .. Len(q) /\ Len(q) \in Nat
OBVIOUS

\* The names are distinguished from no name by their length.
LEMMA NamesOK ==
    /\ NoName \in Names
    /\ \A c \in Clients : Fnames(Name(c)) \subseteq Names \ {NoName}
    /\ StackIsClean => \A c \in Clients : Fnames(Name(c)) = {Name(c)}
<1>1. NoName \in Names
  BY DEF NoName, Names
<1>2. ASSUME NEW c \in Clients
      PROVE  Name(c) \in Names \ {NoName} /\ Append(Name(c), "rest") \in Names \ {NoName}
  BY DEF NoName, Names, Name
<1> QED
  BY <1>1, <1>2 DEF Fnames

LEMMA InitIInv == Init => IInv
<1> SUFFICES ASSUME Init PROVE IInv
  OBVIOUS
<1>1. NoJob \in Jobs /\ NoRequest \in Requests
  BY NamesOK DEF NoJob, NoRequest, Jobs, Requests
<1>2. TypeOK
  <2>1. << >> \in Seq([request : Requests, flag : {"FNAME", "CRC_ERROR"}]) /\ Len(<< >>) = 0
    OBVIOUS
  <2>2. port \in Seq([request : Requests, flag : {"FNAME", "CRC_ERROR"}]) /\ Len(port) <= QueueLen
    BY <2>1, ServerMainAssumption DEF Init
  <2>3. /\ proc \in [Pids -> {"free", "FILENAME", "OPENED", "SEND_DATA", "zombie"}]
        /\ job \in [Pids -> Jobs] /\ \A p \in Pids : job[p] = NoJob
        /\ client \in [Clients -> [state : {"START_STATE", "FILENAME", "ANSWERED", "DONE"},
                                tries : Nat, sock : Nat, got : Names]]
    BY <1>1, NamesOK DEF Init
  <2> QED
    BY <1>1, <2>2, <2>3 DEF Init, TypeOK
<1> QED
  BY <1>2 DEF Init, IInv, OnlyInPort, OnlyInBuf, OnlyWithChild, ToItsClient

-----------------------------------------------------------------------------
\* What the actions of the clients do to the port: the new request, damaged
\* or not, goes behind the others, or the port stays as it is.
LEMMA ToPortEffect ==
    ASSUME NEW r \in Requests, TypeOK, ToPort([request |-> r, flag |-> "FNAME"])
    PROVE  /\ faults' \in Nat
           /\ \/ port' = port
              \/ /\ Len(port) < QueueLen
                 /\ \E b \in {"FNAME", "CRC_ERROR"} : port' = Append(port, [request |-> r, flag |-> b])
<1> DEFINE m == [request |-> r, flag |-> "FNAME"]
<1>1. [m EXCEPT !.flag = "CRC_ERROR"] = [request |-> r, flag |-> "CRC_ERROR"]
  OBVIOUS
<1>2. faults \in Nat
  BY DEF TypeOK
<1> QED
  BY <1>1, <1>2 DEF ToPort, Fault

LEMMA StartStateOK ==
    ASSUME IInv, NEW c \in Clients, StartState(c)
    PROVE  IInv'
<1> DEFINE r == Request(c, client[c].sock + 1)
<1> TypeOK
  BY DEF IInv
<1>1. /\ client[c].sock \in Nat
      /\ \A d \in Clients : client'[d].sock = IF d = c THEN client[c].sock + 1 ELSE client[d].sock
      /\ client' \in [Clients -> [state : {"START_STATE", "FILENAME", "ANSWERED", "DONE"},
                              tries : Nat, sock : Nat, got : Names]]
      /\ \A d \in Clients : client'[d].state = "ANSWERED" =>
             client[d].state = "ANSWERED" /\ client'[d].got = client[d].got
  BY DEF StartState, TypeOK
<1>2. r \in Requests /\ r.from = c /\ r.sock = client[c].sock + 1
  BY <1>1 DEF Requests
<1>3. /\ ToPort([request |-> r, flag |-> "FNAME"])
      /\ UNCHANGED <<parent, buf, sigchld, handling, proc, job>>
  BY DEF StartState
<1>4. ~SentBy(r, client) /\ SentBy(r, client')
  BY <1>1, <1>2 DEF SentBy
<1>5. \A x : SentBy(x, client) => SentBy(x, client') /\ x # r
  <2> SUFFICES ASSUME NEW x, SentBy(x, client) PROVE SentBy(x, client')
    BY <1>4
  <2>1. CASE x.from = c
    BY <1>1, <2>1 DEF SentBy
  <2>2. CASE x.from # c
    BY <1>1, <2>2 DEF SentBy
  <2> QED
    BY <2>1, <2>2
<1>6. /\ faults' \in Nat
      /\ \/ port' = port
         \/ /\ Len(port) < QueueLen
            /\ \E b \in {"FNAME", "CRC_ERROR"} : port' = Append(port, [request |-> r, flag |-> b])
  BY <1>2, <1>3, ToPortEffect
<1>7. TypeOK' /\ OnlyInPort'
  <2>1. CASE port' = port
    <3>1. TypeOK'
      BY <1>1, <1>3, <1>6, <2>1 DEF TypeOK
    <3>2. OnlyInPort'
      BY <1>3, <1>5, <2>1 DEF IInv, OnlyInPort, Sent
    <3> QED
      BY <3>1, <3>2
  <2>2. ASSUME NEW b \in {"FNAME", "CRC_ERROR"}, Len(port) < QueueLen,
               port' = Append(port, [request |-> r, flag |-> b])
        PROVE  TypeOK' /\ OnlyInPort'
    <3> DEFINE S == [request : Requests, flag : {"FNAME", "CRC_ERROR"}]
               m == [request |-> r, flag |-> b]
    <3>1. port \in Seq(S) /\ m \in S /\ m.request = r
      BY <1>2 DEF TypeOK
    <3>2. /\ port' \in Seq(S) /\ Len(port') = Len(port) + 1
          /\ DOMAIN port' = 1 .. Len(port) + 1 /\ DOMAIN port = 1 .. Len(port)
          /\ Len(port) \in Nat
          /\ \A i \in DOMAIN port : port'[i] = port[i]
          /\ port'[Len(port) + 1] = m
      BY <2>2, <3>1, AppendTail
    <3>3. TypeOK'
      <4>1. Len(port') <= QueueLen
        BY <2>2, <3>2, ServerMainAssumption
      <4> QED
        BY <1>1, <1>3, <1>6, <3>2, <4>1 DEF TypeOK
    <3>4. \A i \in DOMAIN port : Sent(port[i].request) /\ port[i].request # r
      BY <1>5 DEF IInv, OnlyInPort, Sent
    <3>5. /\ parent = "FORK" => buf # r
          /\ \A p \in Pids : Running(p) => job[p].request # r
      BY <1>5 DEF IInv, OnlyInBuf, OnlyWithChild, Sent
    <3>6. ASSUME NEW i \in DOMAIN port'
          PROVE  /\ SentBy(port'[i].request, client')
                 /\ \A j \in DOMAIN port' : port'[j].request = port'[i].request => i = j
                 /\ parent' = "FORK" => port'[i].request # buf'
                 /\ \A p \in Pids : Running(p)' => port'[i].request # job'[p].request
      <4>1. CASE i \in DOMAIN port
        <5>1. port'[i] = port[i]
          BY <3>2, <4>1
        <5>2. SentBy(port'[i].request, client')
          BY <5>1, <3>4, <1>5, <4>1 DEF Sent
        <5>3. \A j \in DOMAIN port' : port'[j].request = port'[i].request => i = j
          BY <5>1, <3>1, <3>2, <3>4, <4>1 DEF IInv, OnlyInPort
        <5> QED
          BY <5>1, <5>2, <5>3, <1>3, <4>1 DEF IInv, OnlyInPort
      <4>2. CASE i = Len(port) + 1
        <5>1. port'[i].request = r
          BY <3>1, <3>2, <4>2
        <5>2. \A j \in DOMAIN port' : port'[j].request = port'[i].request => i = j
          BY <5>1, <3>2, <3>4, <4>2
        <5> QED
          BY <5>1, <5>2, <1>3, <1>4, <3>5
      <4> QED
        BY <3>2, <4>1, <4>2
    <3>7. OnlyInPort'
      BY <3>6 DEF OnlyInPort, Sent
    <3> QED
      BY <3>3, <3>7
  <2> QED
    BY <1>6, <2>1, <2>2
<1>8. OnlyInBuf' /\ OnlyWithChild' /\ ToItsClient'
  BY <1>1, <1>3, <1>5 DEF IInv, OnlyInBuf, OnlyWithChild, ToItsClient, Sent
<1> QED
  BY <1>7, <1>8 DEF IInv

\* A client that goes to a state in which it has no answer.
LEMMA ClientMoves ==
    ASSUME TypeOK, NEW c \in Clients, NEW n \in Nat,
           NEW st \in {"START_STATE", "FILENAME", "DONE"},
           client' = [client EXCEPT ![c] = [client[c] EXCEPT !.state = st, !.tries = n]]
    PROVE  /\ \A d \in Clients : client'[d].sock = client[d].sock
           /\ client' \in [Clients -> [state : {"START_STATE", "FILENAME", "ANSWERED", "DONE"},
                                   tries : Nat, sock : Nat, got : Names]]
           /\ \A d \in Clients : client'[d].state = "ANSWERED" =>
                  client[d].state = "ANSWERED" /\ client'[d].got = client[d].got
<1> DEFINE new == [client[c] EXCEPT !.state = st, !.tries = n]
           Kind == [state : {"START_STATE", "FILENAME", "ANSWERED", "DONE"},
                    tries : Nat, sock : Nat, got : Names]
<1>1. client \in [Clients -> Kind]
  BY DEF TypeOK
<1>2. client[c] \in Kind
  BY <1>1
<1>3. new \in Kind /\ new.state = st /\ new.sock = client[c].sock /\ st # "ANSWERED"
  BY <1>2
<1> HIDE DEF new, Kind
<1>4. client' = [client EXCEPT ![c] = new]
  BY DEF new
<1>5. client' \in [Clients -> Kind]
  BY <1>1, <1>3, <1>4
<1>6. \A d \in Clients : client'[d] = IF d = c THEN new ELSE client[d]
  BY <1>1, <1>4
<1> QED BY <1>3, <1>5, <1>6 DEF Kind

\* A client that waits no longer, or asks once more.
LEMMA ClientWaitsNoMore ==
    ASSUME IInv, NEW c \in Clients, FilenameGiveUp(c) \/ FilenameTimeout(c)
    PROVE  IInv'
<1> TypeOK
  BY DEF IInv
<1>1. /\ \A d \in Clients : client'[d].sock = client[d].sock
      /\ client' \in [Clients -> [state : {"START_STATE", "FILENAME", "ANSWERED", "DONE"},
                              tries : Nat, sock : Nat, got : Names]]
      /\ \A d \in Clients : client'[d].state = "ANSWERED" =>
             client[d].state = "ANSWERED" /\ client'[d].got = client[d].got
  <2>1. CASE FilenameGiveUp(c)
    BY <2>1 DEF FilenameGiveUp, TypeOK
  <2>2. CASE FilenameTimeout(c)
    <3>1. client[c].tries \in Nat /\ client[c].tries + 1 \in Nat
      BY DEF TypeOK
    <3>2. client' = [client EXCEPT ![c] =
                       [client[c] EXCEPT !.state = "START_STATE", !.tries = client[c].tries + 1]]
      BY <2>2 DEF FilenameTimeout, TypeOK
    <3> QED
      BY <3>1, <3>2, ClientMoves
  <2> QED
    BY <2>1, <2>2
<1>2. UNCHANGED <<parent, buf, sigchld, handling, proc, job, port, faults>>
  BY DEF FilenameGiveUp, FilenameTimeout
<1>3. \A x : SentBy(x, client) => SentBy(x, client')
  BY <1>1 DEF SentBy
<1>4. TypeOK'
  BY <1>1, <1>2 DEF TypeOK
<1>5. OnlyInPort' /\ OnlyInBuf'
  BY <1>2, <1>3 DEF IInv, OnlyInPort, OnlyInBuf, Sent
<1>6. OnlyWithChild' /\ ToItsClient'
  BY <1>1, <1>2, <1>3 DEF IInv, OnlyWithChild, ToItsClient, Sent
<1> QED
  BY <1>4, <1>5, <1>6 DEF IInv

-----------------------------------------------------------------------------
(***************************************************************************)
(* The parent.                                                             *)
(***************************************************************************)
LEMMA ReceiveOK == ASSUME IInv, Receive PROVE IInv'
<1> DEFINE S == [request : Requests, flag : {"FNAME", "CRC_ERROR"}]
<1> TypeOK
  BY DEF IInv
<1>1. UNCHANGED <<sigchld, handling, proc, job, client, faults>> /\ port' = Tail(port)
  BY DEF Receive
<1>2. /\ port \in Seq(S) /\ DOMAIN port = 1 .. Len(port) /\ Len(port) \in Nat
      /\ Head(port) = port[1] /\ Head(port) \in S /\ 1 \in DOMAIN port
      /\ port' \in Seq(S) /\ Len(port') = Len(port) - 1 /\ DOMAIN port' = 1 .. Len(port) - 1
      /\ \A i \in DOMAIN port' : port'[i] = port[i + 1] /\ i + 1 \in DOMAIN port
  <2>1. port \in Seq(S) /\ port # << >>
    BY DEF Receive, TypeOK
  <2>2. /\ Head(port) \in S /\ Head(port) = port[1] /\ 1 \in DOMAIN port
        /\ Tail(port) \in Seq(S) /\ Len(Tail(port)) = Len(port) - 1
        /\ DOMAIN Tail(port) = 1 .. Len(port) - 1
        /\ \A i \in 1 .. Len(port) - 1 : Tail(port)[i] = port[i + 1]
        /\ DOMAIN port = 1 .. Len(port) /\ Len(port) \in Nat
    <3> HIDE DEF S
    <3>1. \A q \in Seq(S), m \in S : q # << >> =>
              /\ Head(q) \in S /\ Head(q) = q[1] /\ 1 \in DOMAIN q
              /\ Tail(q) \in Seq(S) /\ Len(Tail(q)) = Len(q) - 1
              /\ DOMAIN Tail(q) = 1 .. Len(q) - 1
              /\ \A i \in 1 .. Len(q) - 1 : Tail(q)[i] = q[i + 1]
              /\ DOMAIN q = 1 .. Len(q) /\ Len(q) \in Nat
      BY AppendTail
    <3>2. Head(port) \in S
      BY <2>1
    <3> QED
      BY <2>1, <3>1, <3>2
  <2>3. \A i \in 1 .. Len(port) - 1 : i + 1 \in 1 .. Len(port)
    BY <2>2
  <2> HIDE DEF S
  <2> QED
    BY <1>1, <2>1, <2>2, <2>3
<1>3. \/ buf' = port[1].request /\ parent' = "FORK"
      \/ buf' = buf /\ parent' = "RECV"
  BY <1>2 DEF Receive
<1>4. parent # "EXIT" /\ parent' # "EXIT" /\ parent' \in {"RECV", "FORK", "EXIT"} /\ buf' \in Requests
  BY <1>2, <1>3 DEF Receive, TypeOK
<1>5. Len(port') <= QueueLen
  BY <1>2, ServerMainAssumption DEF TypeOK
<1>6. TypeOK'
  BY <1>1, <1>2, <1>4, <1>5 DEF TypeOK
<1>7. OnlyInPort'
  <2> SUFFICES ASSUME NEW i \in DOMAIN port'
               PROVE  /\ SentBy(port'[i].request, client')
                      /\ \A j \in DOMAIN port' : port'[j].request = port'[i].request => i = j
                      /\ parent' = "FORK" => port'[i].request # buf'
                      /\ \A p \in Pids : Running(p)' => port'[i].request # job'[p].request
    BY DEF OnlyInPort, Sent
  <2>1. port'[i] = port[i + 1] /\ i + 1 \in DOMAIN port /\ i \in Nat /\ i + 1 # 1
    BY <1>2
  <2>2. \A j \in DOMAIN port' : port'[j].request = port'[i].request => i = j
    BY <1>2, <2>1 DEF IInv, OnlyInPort
  <2>3. port[i + 1].request # port[1].request
    BY <1>2, <2>1 DEF IInv, OnlyInPort
  <2> QED
    BY <1>1, <1>3, <2>1, <2>2, <2>3 DEF IInv, OnlyInPort, Sent
<1>8. OnlyInBuf'
  BY <1>1, <1>2, <1>3 DEF IInv, OnlyInPort, OnlyInBuf, Sent
<1>9. OnlyWithChild' /\ ToItsClient'
  BY <1>1 DEF IInv, OnlyWithChild, ToItsClient, Sent
<1> QED
  BY <1>6, <1>7, <1>8, <1>9 DEF IInv

LEMMA ForkOK == ASSUME IInv, Fork PROVE IInv'
<1> TypeOK
  BY DEF IInv
<1>1. PICK p \in Pids :
        /\ proc[p] = "free"
        /\ proc' = [proc EXCEPT ![p] = "FILENAME"]
        /\ job' = [job EXCEPT ![p] = [request |-> buf, opened |-> NoName]]
  BY DEF Fork
<1>2. /\ parent = "FORK" /\ parent' = "RECV"
      /\ UNCHANGED <<buf, sigchld, handling, port, client, faults>>
  BY DEF Fork
<1>3. /\ proc' \in [Pids -> {"free", "FILENAME", "OPENED", "SEND_DATA", "zombie"}]
      /\ job' \in [Pids -> Jobs]
      /\ proc'[p] = "FILENAME" /\ job'[p].request = buf
      /\ \A q \in Pids \ {p} : proc'[q] = proc[q] /\ job'[q] = job[q]
  BY <1>1, NamesOK DEF TypeOK, Jobs
<1>4. TypeOK'
  BY <1>2, <1>3 DEF TypeOK
<1>5. \A q \in Pids : proc'[q] \in {"FILENAME", "OPENED", "SEND_DATA"} =>
          q = p \/ (Running(q) /\ q # p)
  BY <1>3
<1>6. OnlyInPort'
  BY <1>2, <1>3, <1>5 DEF IInv, OnlyInPort, Sent
<1>7. OnlyInBuf' /\ ToItsClient'
  BY <1>2 DEF IInv, OnlyInBuf, ToItsClient
<1>8. OnlyWithChild'
  BY <1>2, <1>3, <1>5 DEF IInv, OnlyInBuf, OnlyWithChild, Sent
<1> QED
  BY <1>4, <1>6, <1>7, <1>8 DEF IInv

\* Processes that end, change hands or are reaped take nothing with them
\* that another has.
LEMMA FewerRun ==
    ASSUME IInv, TypeOK',
           UNCHANGED <<buf, client>>,
           parent' = parent \/ parent' = "EXIT",
           port' = port \/ port' = << >>,
           \A p \in Pids : Running(p)' =>
               Running(p) /\ proc'[p] = proc[p] /\ job'[p] = job[p]
    PROVE  IInv'
<1>1. DOMAIN << >> = {}
  OBVIOUS
<1>2. OnlyInPort'
  BY <1>1 DEF IInv, OnlyInPort, Sent
<1>3. OnlyInBuf' /\ ToItsClient'
  BY DEF IInv, OnlyInBuf, ToItsClient, Sent
<1>4. OnlyWithChild'
  BY DEF IInv, OnlyWithChild, Sent
<1> QED
  BY <1>2, <1>3, <1>4 DEF IInv

LEMMA ForkFailsOK == ASSUME IInv, ForkFails PROVE IInv'
<1> TypeOK
  BY DEF IInv
<1>1. /\ parent' = "EXIT" /\ sigchld' = FALSE /\ handling = FALSE
      /\ UNCHANGED <<buf, handling, job, client, faults>>
      /\ port' = port \/ port' = << >>
  BY DEF ForkFails, TypeOK
<1>2. proc' = [p \in Pids |-> IF proc[p] = "zombie" THEN "free" ELSE proc[p]]
  BY DEF ForkFails
<1>3. /\ proc' \in [Pids -> {"free", "FILENAME", "OPENED", "SEND_DATA", "zombie"}]
      /\ \A p \in Pids : proc'[p] # "zombie" /\ (Running(p)' <=> Running(p))
      /\ \A p \in Pids : Running(p) => proc'[p] = proc[p]
  BY <1>2 DEF TypeOK
<1>4. port' \in Seq([request : Requests, flag : {"FNAME", "CRC_ERROR"}]) /\ Len(port') <= QueueLen
  <2>1. << >> \in Seq([request : Requests, flag : {"FNAME", "CRC_ERROR"}]) /\ Len(<< >>) = 0
    OBVIOUS
  <2>2. CASE port' = port
    BY <2>2 DEF TypeOK
  <2>3. CASE port' = << >>
    BY <2>1, <2>3, ServerMainAssumption
  <2> QED
    BY <1>1, <2>2, <2>3
<1>5. TypeOK'
  <2>1. Zombies' = {}
    BY <1>3
  <2>2. \A p \in Pids : ~Running(p)' => job'[p] = NoJob
    BY <1>1, <1>3 DEF TypeOK
  <2>3. sigchld' \in BOOLEAN /\ handling' \in BOOLEAN /\ ~sigchld' /\ ~handling'
    BY <1>1
  <2> QED
    BY <1>1, <1>3, <1>4, <2>1, <2>2, <2>3 DEF TypeOK
<1> QED
  BY <1>1, <1>3, <1>5, FewerRun

LEMMA HandlerOK == ASSUME IInv, Handler PROVE IInv'
<1> TypeOK
  BY DEF IInv
<1>1. UNCHANGED <<parent, buf, job, port, client, faults>>
  BY DEF Handler, Interrupt, Reap
<1>2. /\ proc' \in [Pids -> {"free", "FILENAME", "OPENED", "SEND_DATA", "zombie"}]
      /\ sigchld' \in BOOLEAN /\ handling' \in BOOLEAN
      /\ \A p \in Pids : (Running(p)' <=> Running(p)) /\ (Running(p) => proc'[p] = proc[p])
      /\ parent # "EXIT"
  <2>1. CASE Interrupt
    BY <2>1 DEF Interrupt, TypeOK
  <2>2. CASE Reap
    <3>1. parent # "EXIT" /\ sigchld' = sigchld /\ handling' \in BOOLEAN
      BY <2>2 DEF Reap, TypeOK
    <3>2. CASE UNCHANGED proc
      BY <3>1, <3>2 DEF TypeOK
    <3>3. ASSUME NEW p \in Zombies, proc' = [proc EXCEPT ![p] = "free"]
          PROVE  /\ proc' \in [Pids -> {"free", "FILENAME", "OPENED", "SEND_DATA", "zombie"}]
                 /\ \A q \in Pids : (Running(q)' <=> Running(q)) /\ (Running(q) => proc'[q] = proc[q])
      BY <3>3 DEF TypeOK
    <3> QED
      BY <2>2, <3>1, <3>2, <3>3 DEF Reap, TypeOK
  <2> QED
    BY <2>1, <2>2 DEF Handler
<1>3. TypeOK'
  BY <1>1, <1>2 DEF TypeOK
<1> QED
  BY <1>1, <1>2, <1>3, FewerRun

-----------------------------------------------------------------------------
(***************************************************************************)
(* The children.                                                           *)
(***************************************************************************)
LEMMA ChildExitOK == ASSUME IInv, NEW p \in Pids, ChildExit(p) PROVE IInv'
<1> DEFINE Queue == Seq([request : Requests, flag : {"FNAME", "CRC_ERROR"}])
<1> TypeOK
  BY DEF IInv
<1>1. /\ UNCHANGED <<parent, buf, handling, client, faults>>
      /\ port' = port \/ port' = << >>
      /\ job' = [job EXCEPT ![p] = NoJob]
      /\ proc[p] = "SEND_DATA"
  BY DEF ChildExit
<1>2. NoJob \in Jobs
  BY NamesOK DEF NoJob, NoRequest, Jobs, Requests
<1>3. port' \in Queue /\ Len(port') <= QueueLen
  <2>1. << >> \in Queue /\ Len(<< >>) = 0
    OBVIOUS
  <2>2. CASE port' = port
    BY <2>2 DEF TypeOK
  <2>3. CASE port' = << >>
    BY <2>1, <2>3, ServerMainAssumption
  <2> QED
    BY <1>1, <2>2, <2>3
<1>4. /\ proc' \in [Pids -> {"free", "FILENAME", "OPENED", "SEND_DATA", "zombie"}]
      /\ job' \in [Pids -> Jobs] /\ job'[p] = NoJob
      /\ proc'[p] \in {"free", "zombie"}
      /\ \A q \in Pids \ {p} : proc'[q] = proc[q] /\ job'[q] = job[q]
  BY <1>1, <1>2 DEF ChildExit, TypeOK
<1>5. sigchld' \in BOOLEAN /\ (parent = "EXIT" => ~sigchld' /\ Zombies' = {})
  <2>1. CASE parent = "EXIT"
    <3>1. proc'[p] = "free" /\ sigchld' = sigchld
      BY <2>1 DEF ChildExit, TypeOK
    <3> QED
      BY <1>4, <2>1, <3>1 DEF TypeOK
  <2>2. CASE parent # "EXIT"
    BY <2>2 DEF ChildExit
  <2> QED
    BY <2>1, <2>2
<1>6. TypeOK'
  BY <1>1, <1>3, <1>4, <1>5 DEF TypeOK
<1> QED
  BY <1>1, <1>4, <1>6, FewerRun

LEMMA FilenameOpenOK == ASSUME IInv, NEW p \in Pids, FilenameOpen(p) PROVE IInv'
<1> TypeOK
  BY DEF IInv
<1>1. UNCHANGED <<parent, buf, sigchld, handling, port, client, faults>> /\ proc[p] = "FILENAME"
  BY DEF FilenameOpen
<1>2. PICK name \in Fnames(Name(job[p].request.from)) : job' = [job EXCEPT ![p].opened = name]
  BY DEF FilenameOpen, Memory
<1>3. proc' = [proc EXCEPT ![p] = "OPENED"]
  BY DEF FilenameOpen
<1>4. name \in Names /\ job[p] \in Jobs
  BY <1>1, NamesOK DEF IInv, OnlyWithChild, Sent, SentBy, TypeOK
<1>5. /\ proc' \in [Pids -> {"free", "FILENAME", "OPENED", "SEND_DATA", "zombie"}]
      /\ job' \in [Pids -> Jobs]
      /\ \A q \in Pids : job'[q].request = job[q].request
      /\ job'[p].opened = name /\ proc'[p] = "OPENED"
      /\ \A q \in Pids \ {p} : proc'[q] = proc[q] /\ job'[q] = job[q]
  BY <1>2, <1>3, <1>4 DEF TypeOK, Jobs
<1>6. \A q \in Pids : (Running(q)' <=> Running(q)) /\ (proc'[q] = "zombie" <=> proc[q] = "zombie")
  BY <1>1, <1>5
<1>7. TypeOK'
  BY <1>1, <1>5, <1>6 DEF TypeOK
<1>8. OnlyInPort' /\ OnlyInBuf' /\ ToItsClient'
  BY <1>1, <1>5, <1>6 DEF IInv, OnlyInPort, OnlyInBuf, ToItsClient, Sent
<1>9. OnlyWithChild'
  BY <1>1, <1>2, <1>5, <1>6 DEF IInv, OnlyWithChild, Sent
<1> QED
  BY <1>7, <1>8, <1>9 DEF IInv

LEMMA FilenameAnswerOK == ASSUME IInv, NEW p \in Pids, FilenameAnswer(p) PROVE IInv'
<1> DEFINE c == job[p].request.from
<1> TypeOK
  BY DEF IInv
<1>1. /\ UNCHANGED <<parent, buf, sigchld, handling, job, port>>
      /\ proc[p] = "OPENED" /\ proc' = [proc EXCEPT ![p] = "SEND_DATA"]
  BY DEF FilenameAnswer
<1>2. /\ c \in Clients /\ client[c].tries \in Nat
      /\ job[p].opened \in Fnames(Name(c)) /\ job[p].opened \in Names
  BY <1>1, NamesOK DEF IInv, OnlyWithChild, Sent, SentBy, TypeOK, Jobs
<1>3. faults' \in Nat
  BY DEF FilenameAnswer, Fault, TypeOK
<1>4. \/ UNCHANGED client
      \/ client' = [client EXCEPT ![c].state = "ANSWERED", ![c].tries = 0,
                                  ![c].got = job[p].opened]
      \/ client' = [client EXCEPT ![c].state = "START_STATE", ![c].tries = 0]
  BY DEF FilenameAnswer, Memory
<1>5. /\ client' \in [Clients -> [state : {"START_STATE", "FILENAME", "ANSWERED", "DONE"},
                              tries : Nat, sock : Nat, got : Names]]
      /\ \A d \in Clients : client'[d].sock = client[d].sock
      /\ \A d \in Clients : client'[d].state = "ANSWERED" =>
             \/ d = c /\ client'[d].got = job[p].opened
             \/ client[d].state = "ANSWERED" /\ client'[d].got = client[d].got
  <2>1. CASE UNCHANGED client
    BY <2>1 DEF TypeOK
  <2>2. CASE client' = [client EXCEPT ![c].state = "ANSWERED", ![c].tries = 0,
                                      ![c].got = job[p].opened]
    <3> DEFINE new == [state |-> "ANSWERED", tries |-> 0, sock |-> client[c].sock,
                       got |-> job[p].opened]
    <3>1. /\ client'[c] = [client[c] EXCEPT !.state = "ANSWERED", !.tries = 0,
                                            !.got = job[p].opened]
          /\ \A d \in Clients \ {c} : client'[d] = client[d]
          /\ DOMAIN client' = Clients
          /\ client' = [d \in Clients |-> client'[d]]
      BY <1>2, <2>2 DEF TypeOK
    <3>2. client'[c] = new
      <4>1. client[c] \in [state : {"START_STATE", "FILENAME", "ANSWERED", "DONE"},
                           tries : Nat, sock : Nat, got : Names]
        BY <1>2 DEF TypeOK
      <4>2. client[c] = [state |-> client[c].state, tries |-> client[c].tries,
                         sock |-> client[c].sock, got |-> client[c].got]
        BY <4>1
      <4> QED
        BY <3>1, <4>2
    <3>3. client[c].sock \in Nat
      BY <1>2 DEF TypeOK
    <3>4. new \in [state : {"START_STATE", "FILENAME", "ANSWERED", "DONE"},
                   tries : Nat, sock : Nat, got : Names]
      BY <1>2, <3>3
    <3>5. \A d \in Clients \ {c} :
            client[d] \in [state : {"START_STATE", "FILENAME", "ANSWERED", "DONE"},
                          tries : Nat, sock : Nat, got : Names]
      BY DEF TypeOK
    <3>6. \A d \in Clients :
            client'[d] \in [state : {"START_STATE", "FILENAME", "ANSWERED", "DONE"},
                           tries : Nat, sock : Nat, got : Names]
      BY <3>1, <3>2, <3>4, <3>5
    <3>7. client' \in [Clients -> [state : {"START_STATE", "FILENAME", "ANSWERED", "DONE"},
                               tries : Nat, sock : Nat, got : Names]]
      BY <3>1, <3>6
    <3>8. client'[c].sock = client[c].sock /\ client'[c].got = job[p].opened
      BY <3>2
    <3> QED
      BY <3>1, <3>7, <3>8
  <2>3. CASE client' = [client EXCEPT ![c].state = "START_STATE", ![c].tries = 0]
    <3>1. client' = [client EXCEPT ![c] = [client[c] EXCEPT !.state = "START_STATE",
                                                            !.tries = 0]]
      BY <1>2, <2>3 DEF TypeOK
    <3> QED
      BY <1>2, <3>1, ClientMoves
  <2> QED
    BY <1>4, <2>1, <2>2, <2>3
<1>6. \A x : SentBy(x, client) => SentBy(x, client')
  BY <1>5 DEF SentBy
<1>7. /\ proc' \in [Pids -> {"free", "FILENAME", "OPENED", "SEND_DATA", "zombie"}]
      /\ \A q \in Pids : (Running(q)' <=> Running(q)) /\ (proc'[q] = "zombie" <=> proc[q] = "zombie")
      /\ \A q \in Pids : proc'[q] = "OPENED" => proc[q] = "OPENED"
  BY <1>1 DEF TypeOK
<1>8. TypeOK'
  BY <1>1, <1>3, <1>5, <1>7 DEF TypeOK
<1>9. OnlyInPort' /\ OnlyInBuf'
  BY <1>1, <1>6, <1>7 DEF IInv, OnlyInPort, OnlyInBuf, Sent
<1>10. OnlyWithChild'
  BY <1>1, <1>6, <1>7 DEF IInv, OnlyWithChild, Sent
<1>11. ToItsClient'
  BY <1>2, <1>5 DEF IInv, ToItsClient
<1> QED
  BY <1>8, <1>9, <1>10, <1>11 DEF IInv

-----------------------------------------------------------------------------
LEMMA NextIInv == IInv /\ [Next]_vars => IInv'
<1> SUFFICES ASSUME IInv, [Next]_vars PROVE IInv'
  OBVIOUS
<1>1. CASE ParentStep
  BY <1>1, ReceiveOK, ForkOK, ForkFailsOK DEF ParentStep
<1>2. CASE Handler
  BY <1>2, HandlerOK
<1>3. ASSUME NEW c \in Clients, StartState(c) \/ FilenameGiveUp(c) \/ FilenameTimeout(c)
      PROVE  IInv'
  BY <1>3, StartStateOK, ClientWaitsNoMore
<1>4. ASSUME NEW p \in Pids, FilenameOpen(p) \/ FilenameAnswer(p) \/ ChildExit(p)
      PROVE  IInv'
  BY <1>4, FilenameOpenOK, FilenameAnswerOK, ChildExitOK
<1>5. CASE UNCHANGED vars
  BY <1>5 DEF vars, IInv, TypeOK, OnlyInPort, OnlyInBuf, OnlyWithChild, ToItsClient, Sent
<1> QED
  BY <1>1, <1>2, <1>3, <1>4, <1>5 DEF Next

(***************************************************************************)
(* Every request is in the port, in the parent's buf or with one child, and *)
(* nowhere else (process_server).                                          *)
(***************************************************************************)
THEOREM RequestsInOnePlace == Spec => []IInv
<1>1. Init => IInv
  BY InitIInv
<1>2. IInv /\ [Next]_vars => IInv'
  BY NextIInv
<1> QED
  BY <1>1, <1>2, PTL DEF Spec

(***************************************************************************)
(* No request that arrives once starts two children, whatever the network  *)
(* loses or damages and however children end (process_server).             *)
(***************************************************************************)
THEOREM OneChild == Spec => []OneChildPerRequest
<1>1. IInv => OneChildPerRequest
  BY DEF IInv, OnlyWithChild, OneChildPerRequest
<1> QED
  BY <1>1, RequestsInOnePlace, PTL

(***************************************************************************)
(* An answered client got its own file, if nothing stands behind the name  *)
(* on the stack (process_server, filename).                                *)
(***************************************************************************)
THEOREM OwnFile == ASSUME StackIsClean PROVE Spec => []EachGetsItsOwn
<1>1. IInv => EachGetsItsOwn
  BY NamesOK DEF IInv, ToItsClient, EachGetsItsOwn
<1> QED
  BY <1>1, RequestsInOnePlace, PTL
=============================================================================
