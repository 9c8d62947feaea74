---------------------------- MODULE ErrorLibrary ----------------------------
(***************************************************************************)
(* libcpe464: the settings it reads from the environment                   *)
(* (SettingsManager.cpp), the events that damage packets                   *)
(* (PacketManager.cpp, MsgEvents) and the hooks that bind, fork and sendto *)
(* are redefined to (network-hooks.c).                                     *)
(*                                                                         *)
(* Process 0 is the program that was started, the others are its children. *)
(* lib[p] is the library's data in p, which fork copies.  sent[p] is what  *)
(* the sends of p have put on the wire.  A packet is the set of its bytes  *)
(* that are inverted, {} as its owner wrote it; packet[p] is the buffer p  *)
(* sends, and sends again, from.                                           *)
(*                                                                         *)
(* The value of an environment variable is NotSet or the sequence of its   *)
(* comma-separated tokens, numbers or Invalid; << >> is the empty string.  *)
(* Rates and draws are percentages.                                        *)
(***************************************************************************)
EXTENDS Integers, Sequences, SequencesExt

CONSTANTS
    NotSet, Invalid,    \* model values
    Environments,       \* the environments to try
    Rates,              \* the values of error_rate to try
    Draws,              \* what drand48 may return, 0 .. 99
    Bytes,              \* the positions of a packet's bytes
    MaxMsgs,            \* sends, by all processes together
    MaxChildren         \* forks

Keys == {"PORT", "DEBUG", "SEEDRAND", "ERR_RATE", "ERR_DROP", "ERR_FLIP"}

ListKeys == {"ERR_DROP", "ERR_FLIP"}

Procs == 0 .. MaxChildren

ASSUME ErrorLibraryAssumption ==
    /\ \A e \in Environments : e \in [Keys -> {NotSet} \cup Seq({Invalid} \cup Int)]
    /\ Rates \subseteq Int
    /\ Draws \subseteq 0 .. 99
    /\ Bytes # {}
    /\ MaxMsgs \in Nat /\ MaxChildren \in Nat

RANDOM_SEED == 10

\* A time in seconds when the program starts, above any other seed.
Epoch == 1000

\* The port the program asks bind for.
AskedPort == 1

VARIABLES
    env,        \* the environment of the program
    args,       \* the arguments of sendErr_init
    lib,        \* the library's data in each process
    packet,     \* the caller's buffer of each process
    sent        \* what each process has sent

vars == <<env, args, lib, packet, sent>>

-----------------------------------------------------------------------------
\* The events: errorDrop with m_DropAll and m_DropList, errorFlipBits, and
\* infoSeqNo, which only counts.
DropEvent(all, list) == [name |-> "errorDrop", all |-> all, list |-> list]
DropAll == DropEvent(TRUE, << >>)
FlipEvent == [name |-> "errorFlipBits", all |-> FALSE, list |-> << >>]
InfoEvent == [name |-> "infoSeqNo", all |-> FALSE, list |-> << >>]

\* Mutated form of setDropSpecific, used by the mutation checks only.
setDropSpecific_too(list) == DropEvent(TRUE, list)

setDropSpecific(list) == DropEvent(FALSE, list)

\* errorDrop::run: whether the event drops message msgNo.
Drops(ev, msgNo) ==
    ev.name = "errorDrop" /\ (ev.all \/ msgNo \in ToSet(ev.list))

addMsgEvent_Standard(l, ev) == [l EXCEPT !.standard = Append(@, ev)]
addMsgEvent_Random(l, ev) == [l EXCEPT !.random = Append(@, ev)]

-----------------------------------------------------------------------------
(***************************************************************************)
(* Reading the environment.  strtol, strtof: the first token.              *)
(***************************************************************************)
Number(value) == IF value = << >> THEN Invalid ELSE Head(value)

\* parser2ListLong stops at the first token that is no number.
parser2ListLong(value) ==
    LET bad == {i \in DOMAIN value : value[i] = Invalid}
    IN  IF bad = {} THEN value
        ELSE SubSeq(value, 1, (CHOOSE i \in bad : \A j \in bad : i <= j) - 1)

parserLong2Uint32(list) == SelectSeq(list, LAMBDA n : n >= 0)

Listed(e, key) ==
    IF e[key] = NotSet THEN << >> ELSE parserLong2Uint32(parser2ListLong(e[key]))

\* Mutated form of IsSet, used by the mutation checks only.
IsSet_no_reset(e) == [k \in Keys |-> e[k] # NotSet]

\* loadEnvData, isSet of each key: a list counts as set whatever it says,
\* since parser2ListLong returns no negative number.
IsSet(e) ==
    [k \in Keys |-> e[k] # NotSet /\ (k \in ListKeys \/ Number(e[k]) # Invalid)]

loadEnvData_ErrDrop(l, e) ==
    CASE ~l.isSet["ERR_DROP"] -> l
      [] l.isSet["ERR_DROP"] /\ Listed(e, "ERR_DROP") = << >> ->
            addMsgEvent_Random(l, DropAll)
      [] OTHER -> addMsgEvent_Standard(l, setDropSpecific(Listed(e, "ERR_DROP")))

\* A list of packets to flip is read and thrown away.
loadEnvData_ErrFlip(l, e) ==
    IF l.isSet["ERR_FLIP"] /\ Listed(e, "ERR_FLIP") = << >>
    THEN addMsgEvent_Random(l, FlipEvent) ELSE l

\* The value of a number in the environment, or what the code has otherwise.
Override(e, key, compiled) == IF IsSet(e)[key] THEN Number(e[key]) ELSE compiled

\* The constructors of g_PktMgr and g_SetsMgr, which run before main.
Constructed(e) ==
    loadEnvData_ErrFlip(loadEnvData_ErrDrop(
        [phase    |-> "started",
         isSet    |-> IsSet(e),
         debug    |-> Override(e, "DEBUG", 0),
         seed     |-> Override(e, "SEEDRAND", Epoch),
         rate     |-> Override(e, "ERR_RATE", 0),
         standard |-> << >>,
         random   |-> << >>,
         msgNo    |-> 0,
         noted    |-> 0,
         nextSeed |-> RANDOM_SEED,
         port     |-> NotSet], e), e)

-----------------------------------------------------------------------------
\* What sendErr_init may be given.
Arguments == [rate : Rates, drop : BOOLEAN, flip : BOOLEAN, random : BOOLEAN]

\* Children that do not exist yet.
NoProcess == [phase |-> "free"]

Init ==
    /\ env \in Environments
    /\ args \in Arguments
    /\ lib = [p \in Procs |-> IF p = 0 THEN Constructed(env) ELSE NoProcess]
    /\ packet = [p \in Procs |-> {}]
    /\ sent = [p \in Procs |-> << >>]

setUserMode_SeedRand(l, seed) ==
    IF l.isSet["SEEDRAND"] THEN l ELSE [l EXCEPT !.seed = seed]

\* Mutated form of setUserMode_ErrRate, used by the mutation checks only.
setUserMode_ErrRate_always(l, rate) == [l EXCEPT !.rate = rate]

setUserMode_ErrRate(l, rate) ==
    IF l.isSet["ERR_RATE"] THEN l ELSE [l EXCEPT !.rate = rate]

setUserMode_ErrDrop(l, on) ==
    IF ~l.isSet["ERR_DROP"] /\ on THEN addMsgEvent_Random(l, DropAll) ELSE l

setUserMode_ErrFlip(l, on) ==
    IF ~l.isSet["ERR_FLIP"] /\ on THEN addMsgEvent_Random(l, FlipEvent) ELSE l

setUserMode_Debug(l, level) ==
    IF l.isSet["DEBUG"] THEN l ELSE [l EXCEPT !.debug = level]

(***************************************************************************)
(* sendErr_init, which main calls once.  It reads the time twice, t and    *)
(* later u.  Both programs call it with DEBUG_ON.                          *)
(***************************************************************************)
sendErr_init ==
    /\ lib[0].phase = "started"
    /\ \E t \in Epoch .. Epoch + 1 : \E u \in t .. t + 1 :
         LET events == setUserMode_ErrFlip(setUserMode_ErrDrop(setUserMode_ErrRate(
                           addMsgEvent_Standard(lib[0], InfoEvent),
                           args.rate), args.drop), args.flip)
             seeded == setUserMode_SeedRand(events,
                           IF args.random THEN t ELSE events.nextSeed)
         IN  lib' = [lib EXCEPT ![0] =
                 [setUserMode_Debug(seeded, 1) EXCEPT
                     !.phase = "ready",
                     !.nextSeed = IF args.random THEN u ELSE @ + 1]]
    /\ UNCHANGED <<env, args, packet, sent>>

\* bindMod overrides the port of the first bind; atol of no number is 0.
bindMod ==
    /\ lib[0].phase = "ready"
    /\ lib[0].port = NotSet
    /\ lib' = [lib EXCEPT ![0].port =
           CASE env["PORT"] = NotSet -> AskedPort
             [] env["PORT"] # NotSet /\ Number(env["PORT"]) = Invalid -> 0
             [] OTHER -> Number(env["PORT"])]
    /\ UNCHANGED <<env, args, packet, sent>>

\* Mutated form of forkMod, used by the mutation checks only.
forkMod_same_seed(c) ==
    /\ lib[0].phase = "ready" /\ lib[c].phase = "free"
    /\ lib' = [lib EXCEPT ![c] = setUserMode_SeedRand(lib[0], lib[0].nextSeed)]
    /\ packet' = [packet EXCEPT ![c] = packet[0]]
    /\ UNCHANGED <<env, args, sent>>

(***************************************************************************)
(* forkMod: the child has a copy of everything, and its own seed.          *)
(***************************************************************************)
forkMod(c) ==
    /\ lib[0].phase = "ready" /\ lib[c].phase = "free"
    /\ LET parent == [lib[0] EXCEPT !.nextSeed = @ + 1]
       IN  lib' = [lib EXCEPT ![0] = parent,
                       ![c] = setUserMode_SeedRand(parent, lib[0].nextSeed)]
    /\ packet' = [packet EXCEPT ![c] = packet[0]]
    /\ UNCHANGED <<env, args, sent>>

-----------------------------------------------------------------------------
(***************************************************************************)
(* runMsgEvents over the standard events: the first one that drops the     *)
(* message ends the loop.                                                  *)
(***************************************************************************)
StandardDrops(events, msgNo) == \E i \in DOMAIN events : Drops(events[i], msgNo)

StandardNotes(events, msgNo) ==
    \E i \in DOMAIN events :
        /\ events[i].name = "infoSeqNo"
        /\ \A j \in 1 .. i - 1 : ~Drops(events[j], msgNo)

\* processEvents: the random events that may happen to a message, and whether
\* none may.
Possible(l) == IF \E d \in Draws : d <= l.rate THEN ToSet(l.random) ELSE {}
MayPass(l)  == l.random = << >> \/ \E d \in Draws : d > l.rate

\* The copy bufTmp that the events work on, with one byte inverted, if flipped.
Inverted(buffer, byte) == (buffer \cup {byte}) \ (buffer \cap {byte})

\* Mutated form of BufferAfter, used by the mutation checks only.
BufferAfter_in_place(buffer, copy) == copy

\* The caller's buffer when sendto returns: the events worked on a copy.
BufferAfter(buffer, copy) == buffer

(***************************************************************************)
(* sendto_Err, in which the random event ev happens (a singleton) or none. *)
(* It returns the length it was given even if the message was dropped.     *)
(***************************************************************************)
Send(p, random, byte) ==
    LET l       == [lib[p] EXCEPT !.msgNo = @ + 1]
        dropped == \/ StandardDrops(l.standard, l.msgNo)
                   \/ \E ev \in random : Drops(ev, l.msgNo)
        copy    == IF FlipEvent \in random THEN Inverted(packet[p], byte) ELSE packet[p]
    IN  /\ lib' = [lib EXCEPT ![p] = [l EXCEPT !.noted =
               IF StandardNotes(l.standard, l.msgNo) THEN @ + 1 ELSE @]]
        /\ packet' = [packet EXCEPT ![p] = BufferAfter(@, copy)]
        /\ sent' = [sent EXCEPT ![p] = Append(@,
               [msgNo |-> l.msgNo, hit |-> random # {},
                dropped |-> dropped, wire |-> copy])]
        /\ UNCHANGED <<env, args>>

sendto_Err(p) ==
    /\ lib[p].phase = "ready" /\ SumFunction([q \in Procs |-> Len(sent[q])]) < MaxMsgs
    /\ \/ MayPass(lib[p]) /\ Send(p, {}, 0)
       \/ \E ev \in Possible(lib[p]), byte \in Bytes : Send(p, {ev}, byte)

Next ==
    \/ sendErr_init \/ bindMod
    \/ \E c \in Procs \ {0} : (\A b \in 1 .. c - 1 : lib[b].phase # "free") /\ forkMod(c)
    \/ \E p \in Procs : sendto_Err(p)

Spec == Init /\ [][Next]_vars

-----------------------------------------------------------------------------
Running(p) == lib[p].phase = "ready"

Message == [msgNo : Nat, hit : BOOLEAN, dropped : BOOLEAN, wire : SUBSET Bytes]

\* The shape of the library's data (PacketManager.h, SettingsManager.h).
TypeOK ==
    /\ env \in Environments /\ args \in Arguments
    /\ packet \in [Procs -> SUBSET Bytes]
    /\ sent \in [Procs -> Seq(Message)]
    /\ \A p \in Procs : Running(p) =>
         /\ lib[p].rate \in Int /\ lib[p].msgNo \in Nat /\ lib[p].noted \in Nat
         /\ lib[p].isSet \in [Keys -> BOOLEAN]

(***************************************************************************)
(* The environment "will always have precedence over any compiled option"  *)
(* (SettingsManager.h:6), and what it leaves open is as main asked: in the *)
(* program and in every child it forks, also if a variable holds no number *)
(* (loadEnvData, sendErr_init).  A list of packets replaces the random     *)
(* event of its kind.                                                      *)
(***************************************************************************)
EnvironmentPrevails ==
    \A p \in Procs : Running(p) =>
        LET Defines(key) == env[key] # NotSet /\ Number(env[key]) # Invalid
            Lists(key) == Listed(env, key) # << >>
        IN  /\ lib[p].rate = IF Defines("ERR_RATE") THEN Number(env["ERR_RATE"]) ELSE args.rate
            /\ lib[p].debug = IF Defines("DEBUG") THEN Number(env["DEBUG"]) ELSE 1
            /\ Defines("SEEDRAND") => lib[p].seed = Number(env["SEEDRAND"])
            /\ Defines("PORT") => lib[p].port \in {NotSet, Number(env["PORT"])}
            /\ Lists("ERR_DROP") => DropAll \notin ToSet(lib[p].random)
            /\ Lists("ERR_FLIP") => FlipEvent \notin ToSet(lib[p].random)

(***************************************************************************)
(* A list of numbers drops these messages of every process and no others   *)
(* (errorDrop::run, setDropSpecific): one that is not listed and that no   *)
(* random event hits is sent.                                              *)
(***************************************************************************)
DropsWhatIsListed ==
    \A p \in Procs : \A i \in DOMAIN sent[p] :
        LET m == sent[p][i]
        IN  /\ m.msgNo \in ToSet(Listed(env, "ERR_DROP")) => m.dropped
            /\ m.dropped => m.hit \/ m.msgNo \in ToSet(Listed(env, "ERR_DROP"))

(***************************************************************************)
(* What leaves a socket differs from what its owner wrote in one byte at   *)
(* most, and only if an event hit this very send: damage to one send of a  *)
(* buffer is not sent again with the next (sendto_Err, bufTmp).  More than *)
(* one inverted byte might slip through the checksum.                      *)
(***************************************************************************)
AtMostOneByteDamaged ==
    \A p \in Procs : \A i \in DOMAIN sent[p] :
        LET m == sent[p][i]
        IN  /\ \A a, b \in m.wire : a = b
            /\ m.wire # {} => m.hit

(***************************************************************************)
(* Unless the environment sets one seed for all, no two children draw the  *)
(* same numbers, and no child draws its parent's but the first one of a    *)
(* program with a random seed, whose parent may have read the same second  *)
(* twice (sendErr_init, forkMod).                                          *)
(***************************************************************************)
SeedsDiffer ==
    ~IsSet(env)["SEEDRAND"] =>
        \A p, q \in Procs :
            Running(p) /\ Running(q) /\ p < q /\ lib[p].seed = lib[q].seed
              => p = 0 /\ q = 1 /\ args.random

-----------------------------------------------------------------------------
(***************************************************************************)
(* "Since no parameter undefines an environmental variable"                *)
(* (SettingsManager.h:18): a variable set to the empty string, which is    *)
(* how testRandError.sh:15 clears them, leaves the compiled options and    *)
(* the port that the program asked for.                                    *)
(***************************************************************************)
EmptyUndefines ==
    Running(0) =>
        /\ env["PORT"] = << >> => lib[0].port \in {NotSet, AskedPort}
        /\ env["ERR_DROP"] = << >> =>
              (DropAll \in ToSet(lib[0].random) => args.drop)

(***************************************************************************)
(* "Provide a comma-separated list of MsgEvents to perform an event"       *)
(* (SettingsManager.h:18): the packets listed for a flip are flipped.      *)
(***************************************************************************)
FlipsWhatIsListed ==
    \A i \in DOMAIN sent[0] :
        LET m == sent[0][i]
        IN  m.msgNo \in ToSet(Listed(env, "ERR_FLIP")) /\ ~m.dropped => m.wire # {}

(***************************************************************************)
(* "so any child forked will have a different seed value"                  *)
(* (network-hooks.c:196): no child draws the numbers its parent draws.     *)
(***************************************************************************)
ChildrenReseed ==
    ~IsSet(env)["SEEDRAND"] =>
        \A c \in Procs \ {0} : Running(c) => lib[c].seed # lib[0].seed

(***************************************************************************)
(* "When each packet is sent, all "Standard" MsgEvents will be performed"  *)
(* (PacketManager.h:6): the report of infoSeqNo counts every send.         *)
(***************************************************************************)
AllStandardPerformed ==
    \A p \in Procs : Running(p) => lib[p].noted = lib[p].msgNo
=============================================================================
