----------------------------- MODULE ServerMain -----------------------------
(***************************************************************************)
(* process_server, the parent of the server: it takes requests from the    *)
(* well-known port, forks a child for each, and reaps the children that    *)
(* have ended in the handler of SIGCHLD, which may interrupt it anywhere.  *)
(* Several clients ask, time out and ask again from a new socket; of a     *)
(* child, only the answer to the request and its end are modelled (the     *)
(* rest is Server.tla), and of rcopy only the states before FILE_OK.       *)
(*                                                                         *)
(* SIGCHLD does not queue: children that end close together raise it once. *)
(* The handler is installed with signal(), so that an interrupted recvfrom *)
(* is restarted (the Makefile compiles with the GNU dialect).              *)
(***************************************************************************)
EXTENDS Naturals, Sequences, FiniteSets

CONSTANTS
    Clients,        \* rcopy programs, each asking for a file of its own
    Pids,           \* the processes the server's user may have
    QueueLen,       \* requests the port's buffer holds
    MaxTries,       \* MAX_TRIES
    FaultLimit,     \* packets the network may lose or damage
    StackIsClean    \* the bytes of fname behind the name are 0

ASSUME ServerMainAssumption ==
    /\ QueueLen \in Nat /\ MaxTries \in Nat /\ FaultLimit \in Nat
    /\ StackIsClean \in BOOLEAN
    /\ "nobody" \notin Clients

VARIABLES
    parent,     \* where process_server is: "RECV", "FORK" or "EXIT"
    buf,        \* the parent's buf and client: the last intact request
    sigchld,    \* a SIGCHLD is pending
    handling,   \* the parent is in the loop of handleZombies
    proc,       \* the process table
    job,        \* what a child copied from its parent, and the file it opened
    port,       \* the queue of the well-known port
    client,     \* each client: cstate, its retryCount, its socket, what it got
    faults

vars == <<parent, buf, sigchld, handling, proc, job, port, client, faults>>

\* A request names the socket it came from: the how-manieth of its client.
Request(c, s) == [from |-> c, sock |-> s]
NoRequest == Request("nobody", 0)

\* The bytes of the name of c's file, all different; no NUL among them.
Name(c) == <<c>>
NoName == << >>

\* The memory of a process that is none, or has ended.
NoJob == [request |-> NoRequest, opened |-> NoName]

Init ==
    /\ parent = "RECV" /\ buf = NoRequest
    /\ sigchld = FALSE /\ handling = FALSE
    /\ proc = [p \in Pids |-> "free"]
    /\ job = [p \in Pids |-> NoJob]
    /\ port = << >>
    /\ client = [c \in Clients |-> [state |-> "START_STATE", tries |-> 0,
                                    sock |-> 0, got |-> NoName]]
    /\ faults = 0

-----------------------------------------------------------------------------
(***************************************************************************)
(* The client: start_state and filename of rcopy.c.                        *)
(***************************************************************************)
parentVars == <<parent, buf, sigchld, handling>>

\* The network may lose or damage one more packet.
Fault == faults < FaultLimit /\ faults' = faults + 1

\* The children hold the parent's socket open; without them it is closed.
Running(p) == proc[p] \in {"FILENAME", "OPENED", "SEND_DATA"}
PortOpen == parent # "EXIT" \/ \E p \in Pids : Running(p)

ToPort(m) ==
    \/ /\ UNCHANGED faults
       /\ port' = IF PortOpen /\ Len(port) < QueueLen THEN Append(port, m) ELSE port
    \/ Fault /\ UNCHANGED port
    \/ /\ PortOpen /\ Len(port) < QueueLen
       /\ Fault
       /\ port' = Append(port, [m EXCEPT !.flag = "CRC_ERROR"])

\* A new socket for every request.
StartState(c) ==
    /\ client[c].state = "START_STATE"
    /\ client' = [client EXCEPT ![c].state = "FILENAME", ![c].sock = @ + 1]
    /\ ToPort([request |-> Request(c, client[c].sock + 1), flag |-> "FNAME"])
    /\ UNCHANGED <<parentVars, proc, job>>

TriesExceeded(c) == client[c].tries + 1 > MaxTries

FilenameGiveUp(c) ==
    /\ client[c].state = "FILENAME"
    /\ TriesExceeded(c)
    /\ client' = [client EXCEPT ![c].state = "DONE"]
    /\ UNCHANGED <<parentVars, proc, job, port, faults>>

FilenameTimeout(c) ==
    /\ client[c].state = "FILENAME"
    /\ ~TriesExceeded(c)
    /\ client' = [client EXCEPT ![c].state = "START_STATE", ![c].tries = @ + 1]
    /\ UNCHANGED <<parentVars, proc, job, port, faults>>

-----------------------------------------------------------------------------
(***************************************************************************)
(* The parent.                                                             *)
(***************************************************************************)
\* Mutated form of Receive, used by the mutation checks only: it does not
\* look at CRC_ERROR.
Receive_any ==
    /\ parent = "RECV" /\ ~handling
    /\ port # << >>
    /\ port' = Tail(port)
    /\ buf' = IF Head(port).flag = "FNAME" THEN Head(port).request ELSE buf
    /\ parent' = IF buf' = NoRequest THEN "RECV" ELSE "FORK"
    /\ UNCHANGED <<sigchld, handling, proc, job, client, faults>>

\* recv_buf leaves buf alone if the checksum is wrong.
Receive ==
    /\ parent = "RECV" /\ ~handling
    /\ port # << >>
    /\ port' = Tail(port)
    /\ IF Head(port).flag = "FNAME"
       THEN buf' = Head(port).request /\ parent' = "FORK"
       ELSE UNCHANGED <<buf, parent>>
    /\ UNCHANGED <<sigchld, handling, proc, job, client, faults>>

\* A process that has not been reaped still takes a place of the table.
Fork ==
    /\ parent = "FORK" /\ ~handling
    /\ \E p \in Pids :
         /\ proc[p] = "free"
         /\ proc' = [proc EXCEPT ![p] = "FILENAME"]
         /\ job' = [job EXCEPT ![p] = [request |-> buf, opened |-> NoName]]
    /\ parent' = "RECV"
    /\ UNCHANGED <<buf, sigchld, handling, port, client, faults>>

\* fork fails: exit(-1).  The children live on, and init reaps them.
ForkFails ==
    /\ parent = "FORK" /\ ~handling
    /\ \A p \in Pids : proc[p] # "free"
    /\ parent' = "EXIT"
    /\ sigchld' = FALSE
    /\ proc' = [p \in Pids |-> IF proc[p] = "zombie" THEN "free" ELSE proc[p]]
    /\ port' = IF \E p \in Pids : Running(p) THEN port ELSE << >>
    /\ UNCHANGED <<buf, handling, job, client, faults>>

-----------------------------------------------------------------------------
(***************************************************************************)
(* handleZombies                                                           *)
(***************************************************************************)
Zombies == {p \in Pids : proc[p] = "zombie"}

\* SIGCHLD is blocked while its handler runs.
Interrupt ==
    /\ sigchld /\ ~handling
    /\ sigchld' = FALSE /\ handling' = TRUE
    /\ UNCHANGED <<parent, buf, proc, job, port, client, faults>>

\* Mutated forms of Reap, used by the mutation checks only: an `if` for the
\* `while`, and waitpid without WNOHANG.
Reap_once ==
    /\ handling
    /\ \/ Zombies = {} /\ UNCHANGED proc
       \/ \E p \in Zombies : proc' = [proc EXCEPT ![p] = "free"]
    /\ handling' = FALSE
    /\ UNCHANGED <<parent, buf, sigchld, job, port, client, faults>>

Reap_blocking ==
    /\ handling
    /\ \/ /\ \A p \in Pids : proc[p] = "free"
          /\ handling' = FALSE /\ UNCHANGED proc
       \/ /\ \E p \in Zombies : proc' = [proc EXCEPT ![p] = "free"]
          /\ UNCHANGED handling
    /\ UNCHANGED <<parent, buf, sigchld, job, port, client, faults>>

\* One turn of the loop: waitpid returns a child that has ended, or none.
Reap ==
    /\ handling
    /\ \/ Zombies = {} /\ handling' = FALSE /\ UNCHANGED proc
       \/ /\ \E p \in Zombies : proc' = [proc EXCEPT ![p] = "free"]
          /\ UNCHANGED handling
    /\ UNCHANGED <<parent, buf, sigchld, job, port, client, faults>>

-----------------------------------------------------------------------------
(***************************************************************************)
(* The children.                                                           *)
(***************************************************************************)
\* Mutated form of Memory, used by the mutation checks only: the child works
\* on the parent's variables, as a thread would.
Memory_shared(p) == buf

\* fork copied the parent's buf and client.
Memory(p) == job[p].request

\* filename copies the name without a terminator into an array that is not
\* initialised; open reads up to the first 0.
Fnames(name) == {name} \cup (IF StackIsClean THEN {} ELSE {Append(name, "rest")})

\* filename: win_init, the child's own socket, open.
FilenameOpen(p) ==
    /\ proc[p] = "FILENAME"
    /\ \E name \in Fnames(Name(Memory(p).from)) : job' = [job EXCEPT ![p].opened = name]
    /\ proc' = [proc EXCEPT ![p] = "OPENED"]
    /\ UNCHANGED <<parentVars, port, client, faults>>

\* filename: FNAME_OK or FNAME_BAD to the socket of the request, which the
\* client has perhaps closed.
FilenameAnswer(p) ==
    /\ proc[p] = "OPENED"
    /\ LET r == Memory(p)
           c == r.from
           Heard == /\ client[c].state = "FILENAME" /\ ~TriesExceeded(c)
                    /\ client[c].sock = r.sock
       IN  \/ /\ Heard
              /\ client' = [client EXCEPT ![c].state = "ANSWERED", ![c].tries = 0,
                                          ![c].got = job[p].opened]
              /\ UNCHANGED faults
           \/ /\ Heard         \* corrupted: the client asks again
              /\ client' = [client EXCEPT ![c].state = "START_STATE", ![c].tries = 0]
              /\ Fault
           \/ Heard /\ Fault /\ UNCHANGED client
           \/ ~Heard /\ UNCHANGED <<client, faults>>
    /\ proc' = [proc EXCEPT ![p] = "SEND_DATA"]
    /\ UNCHANGED <<parentVars, job, port>>

\* exit(0) after the transfer, whenever that is.
ChildExit(p) ==
    /\ proc[p] = "SEND_DATA"
    /\ job' = [job EXCEPT ![p] = NoJob]
    /\ IF parent = "EXIT"
       THEN /\ proc' = [proc EXCEPT ![p] = "free"]
            /\ port' = IF \E q \in Pids \ {p} : Running(q) THEN port ELSE << >>
            /\ UNCHANGED sigchld
       ELSE /\ proc' = [proc EXCEPT ![p] = "zombie"]
            /\ sigchld' = TRUE
            /\ UNCHANGED port
    /\ UNCHANGED <<parent, buf, handling, client, faults>>

ParentStep == Receive \/ Fork \/ ForkFails
Handler == Interrupt \/ Reap

Next ==
    \/ ParentStep \/ Handler
    \/ \E c \in Clients : StartState(c) \/ FilenameGiveUp(c) \/ FilenameTimeout(c)
    \/ \E p \in Pids : FilenameOpen(p) \/ FilenameAnswer(p) \/ ChildExit(p)

\* The operating system runs the parent and delivers its signals.  Nothing
\* is assumed of the children: one may stay for ever.
Spec == Init /\ [][Next]_vars /\ WF_vars(ParentStep) /\ WF_vars(Handler)

-----------------------------------------------------------------------------
Requests == [from : Clients \cup {"nobody"}, sock : Nat]
Names == Seq(Clients \cup {"rest"})
Jobs == [request : Requests, opened : Names]

\* A child has a memory exactly while it runs, and once the parent is gone
\* nothing is left to signal or to reap.
TypeOK ==
    /\ parent \in {"RECV", "FORK", "EXIT"}
    /\ buf \in Requests
    /\ sigchld \in BOOLEAN /\ handling \in BOOLEAN
    /\ proc \in [Pids -> {"free", "FILENAME", "OPENED", "SEND_DATA", "zombie"}]
    /\ job \in [Pids -> Jobs]
    /\ port \in Seq([request : Requests, flag : {"FNAME", "CRC_ERROR"}]) /\ Len(port) <= QueueLen
    /\ client \in [Clients -> [state : {"START_STATE", "FILENAME", "ANSWERED", "DONE"},
                              tries : Nat, sock : Nat, got : Names]]
    /\ faults \in Nat
    /\ \A p \in Pids : ~Running(p) => job[p] = NoJob
    /\ parent = "EXIT" => ~sigchld /\ ~handling /\ Zombies = {}

(***************************************************************************)
(* A request that arrives once starts one child, whatever else arrives on  *)
(* the port: in particular a packet rejected by recv_buf, after which buf  *)
(* still holds the request before it (process_server).                     *)
(***************************************************************************)
OneChildPerRequest ==
    \A p, q \in Pids :
        Running(p) /\ Running(q) /\ job[p].request = job[q].request => p = q

(***************************************************************************)
(* A client that has its answer has it from a child that opened the file   *)
(* this client asked for, although the parent has received other requests  *)
(* into the same buf and client since (process_server, filename).          *)
(***************************************************************************)
EachGetsItsOwn ==
    \A c \in Clients : client[c].state = "ANSWERED" => client[c].got = Name(c)

(***************************************************************************)
(* The invariant behind these two: whatever is in the port, in buf or with *)
(* a child was sent by a client, and is in one place only.                 *)
(***************************************************************************)
SentBy(r, clients) == r.from \in Clients /\ r.sock \in 1 .. clients[r.from].sock
Sent(r) == SentBy(r, client)

OnlyInPort ==
    \A i \in DOMAIN port :
        /\ Sent(port[i].request)
        /\ \A j \in DOMAIN port : port[j].request = port[i].request => i = j
        /\ parent = "FORK" => port[i].request # buf
        /\ \A p \in Pids : Running(p) => port[i].request # job[p].request

OnlyInBuf ==
    parent = "FORK" =>
        Sent(buf) /\ \A p \in Pids : Running(p) => job[p].request # buf

OnlyWithChild ==
    \A p \in Pids : Running(p) =>
        /\ Sent(job[p].request)
        /\ \A q \in Pids : Running(q) /\ job[q].request = job[p].request => q = p
        /\ proc[p] = "OPENED" => job[p].opened \in Fnames(Name(job[p].request.from))

ToItsClient ==
    \A c \in Clients : client[c].state = "ANSWERED" => client[c].got \in Fnames(Name(c))

IInv == TypeOK /\ OnlyInPort /\ OnlyInBuf /\ OnlyWithChild /\ ToItsClient

(***************************************************************************)
(* handleZombies: every child that ends while the parent lives is reaped,  *)
(* also when several end before the one signal is handled, or one ends     *)
(* while the handler runs.                                                 *)
(***************************************************************************)
ZombiesAreReaped == \A p \in Pids : proc[p] = "zombie" ~> proc[p] # "zombie"

(***************************************************************************)
(* An intact request in the port gets its child, or the parent dies of a   *)
(* full process table: the handler never holds the parent up, however long *)
(* the other children run (process_server, WNOHANG in handleZombies).      *)
(***************************************************************************)
InPort(r) == \E i \in DOMAIN port : port[i].flag = "FNAME" /\ port[i].request = r

RequestsAreServed ==
    \A c \in Clients, s \in 1 .. MaxTries + 1 :
        InPort(Request(c, s)) ~>
            \/ \E p \in Pids : job[p].request = Request(c, s)
            \/ parent = "EXIT"

(***************************************************************************)
(* "extract buffer sized used for sending data and also filename"          *)
(* (server.c:368): the name that is opened is the one in the request.      *)
(***************************************************************************)
OpensWhatIsAsked ==
    \A p \in Pids : proc[p] \in {"OPENED", "SEND_DATA"} => job[p].opened = Name(job[p].request.from)
=============================================================================
