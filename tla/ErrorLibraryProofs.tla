------------------------- MODULE ErrorLibraryProofs -------------------------
(***************************************************************************)
(* The error library damages one byte of a send at most, in any process,   *)
(* environment and order of calls.  The copy that sendto_Err hands to the  *)
(* events is why: no buffer that is sent again is ever damaged.            *)
(*                                                                         *)
(* And what the environment sets stays set, in every process: the rate,    *)
(* the seed, the port and the lists of messages.  What it does not set is  *)
(* as main asked, and seeds differ as far as they do.                      *)
(***************************************************************************)
EXTENDS ErrorLibrary, TLAPS

\* What is true of one message on the wire.
Mild(m) ==
    /\ \A a, b \in m.wire : a = b
    /\ m.wire # {} => m.hit

IsSequence(s) == \E S : s \in Seq(S)

\* The invariant: every buffer is as its owner wrote it.
Intact ==
    /\ packet = [p \in Procs |-> {}]
    /\ DOMAIN sent = Procs
    /\ \A p \in Procs :
         /\ IsSequence(sent[p])
         /\ \A i \in DOMAIN sent[p] : Mild(sent[p][i])

LEMMA AppendOne ==
    ASSUME NEW s, IsSequence(s), NEW m
    PROVE  /\ IsSequence(Append(s, m))
           /\ DOMAIN Append(s, m) = DOMAIN s \cup {Len(s) + 1}
           /\ \A i \in DOMAIN s : Append(s, m)[i] = s[i]
           /\ Append(s, m)[Len(s) + 1] = m
<1>1. PICK S : s \in Seq(S)
  BY DEF IsSequence
<1> DEFINE T == S \cup {m}
<1>2. s \in Seq(T) /\ m \in T
  BY <1>1
<1> HIDE DEF T
<1>3. Append(s, m) \in Seq(T)
  BY <1>2
<1>4. DOMAIN s = 1 .. Len(s) /\ Len(s) \in Nat /\ DOMAIN Append(s, m) = 1 .. Len(s) + 1
  BY <1>2
<1>5. \A i \in 1 .. Len(s) : Append(s, m)[i] = s[i]
  BY <1>2
<1>6. Append(s, m)[Len(s) + 1] = m
  BY <1>2
<1> QED
  BY <1>3, <1>4, <1>5, <1>6 DEF IsSequence

LEMMA InvertedOne == ASSUME NEW byte PROVE Inverted({}, byte) = {byte}
  BY DEF Inverted

LEMMA SendIntact ==
    ASSUME Intact, NEW p \in Procs, NEW random, NEW byte, Send(p, random, byte)
    PROVE  Intact'
<1> DEFINE copy == IF FlipEvent \in random THEN Inverted(packet[p], byte) ELSE packet[p]
<1>1. PICK no, dropped :
        sent' = [sent EXCEPT ![p] = Append(@, [msgNo |-> no, hit |-> random # {},
                                               dropped |-> dropped, wire |-> copy])]
  BY DEF Send
<1> DEFINE m == [msgNo |-> no, hit |-> random # {}, dropped |-> dropped, wire |-> copy]
<1>2. m.wire = copy /\ (m.hit <=> random # {})
  OBVIOUS
<1>3. packet[p] = {}
  BY DEF Intact
<1>4. \/ FlipEvent \in random /\ copy = {byte}
      \/ copy = {}
  BY <1>3, InvertedOne
<1>5. Mild(m)
  BY <1>2, <1>4 DEF Mild
<1> HIDE DEF m
<1>6. packet' = [q \in Procs |-> {}]
  BY DEF Send, BufferAfter, Intact
<1>7. DOMAIN sent' = Procs /\ \A q \in Procs \ {p} : sent'[q] = sent[q]
  BY <1>1 DEF Intact
<1>8. sent'[p] = Append(sent[p], m)
  BY <1>1 DEF Intact, m
<1>9. IsSequence(sent[p])
  BY DEF Intact
<1>10. IsSequence(sent'[p])
  BY <1>8, <1>9, AppendOne
<1>11. \A i \in DOMAIN sent'[p] : Mild(sent'[p][i])
  BY <1>5, <1>8, <1>9, AppendOne DEF Intact
<1> QED
  BY <1>6, <1>7, <1>10, <1>11 DEF Intact

LEMMA NextIntact == Intact /\ [Next]_vars => Intact'
<1> SUFFICES ASSUME Intact, [Next]_vars PROVE Intact'
  OBVIOUS
<1>1. ASSUME UNCHANGED <<packet, sent>> PROVE Intact'
  BY <1>1 DEF Intact, Mild
<1>2. CASE sendErr_init \/ bindMod
  BY <1>1, <1>2 DEF sendErr_init, bindMod
<1>3. ASSUME NEW c \in Procs \ {0}, forkMod(c) PROVE Intact'
  <2>1. 0 \in Procs
    BY ErrorLibraryAssumption DEF Procs
  <2>2. packet' = packet /\ sent' = sent
    BY <1>3, <2>1 DEF forkMod, Intact
  <2> QED
    BY <1>1, <2>2
<1>4. ASSUME NEW p \in Procs, sendto_Err(p) PROVE Intact'
  BY <1>4, SendIntact DEF sendto_Err
<1>5. CASE UNCHANGED vars
  BY <1>1, <1>5 DEF vars
<1> QED
  BY <1>2, <1>3, <1>4, <1>5 DEF Next

(***************************************************************************)
(* No process ever sends a packet with more than one inverted byte, or one *)
(* that no event of this send has hit (sendto_Err).                        *)
(***************************************************************************)
THEOREM DamageDoesNotAddUp == Spec => []AtMostOneByteDamaged
<1>1. Init => Intact
  <2> SUFFICES ASSUME Init PROVE Intact
    OBVIOUS
  <2>1. IsSequence(<< >>) /\ DOMAIN << >> = {}
    BY DEF IsSequence
  <2> QED
    BY <2>1 DEF Init, Intact
<1>2. Intact /\ [Next]_vars => Intact'
  BY NextIntact
<1>3. Intact => AtMostOneByteDamaged
  BY DEF Intact, Mild, AtMostOneByteDamaged
<1> QED
  BY <1>1, <1>2, <1>3, PTL DEF Spec

-----------------------------------------------------------------------------
(***************************************************************************)
(* What the environment settles, for every process: the invariant of the   *)
(* library's data.  Dropped is the list of messages to drop.               *)
(***************************************************************************)
Dropped == Listed(env, "ERR_DROP")

StandardEvents == {InfoEvent, setDropSpecific(Dropped)}

Flipped == Listed(env, "ERR_FLIP")

\* A list of messages keeps the compiled option out of the random events.
RandomEvents ==
    (IF Flipped = << >> THEN {FlipEvent} ELSE {}) \cup (IF Dropped = << >> THEN {DropAll} ELSE {})

LibraryData ==
    [phase : {"started", "ready"}, isSet : {IsSet(env)}, debug : Int, seed : Int, rate : Int,
     standard : Seq(StandardEvents), random : Seq(RandomEvents), msgNo : Nat, noted : Nat,
     nextSeed : Int, port : Int \cup {NotSet}]

DropsListed(l) ==
    Dropped # << >> => \E i \in DOMAIN l.standard : l.standard[i] = setDropSpecific(Dropped)

Obeys(l) ==
    /\ l \in LibraryData
    /\ IsSet(env)["ERR_RATE"] => l.rate = Number(env["ERR_RATE"])
    /\ IsSet(env)["SEEDRAND"] => l.seed = Number(env["SEEDRAND"])
    /\ IsSet(env)["DEBUG"] => l.debug = Number(env["DEBUG"])
    /\ IsSet(env)["PORT"] => l.port \in {NotSet, Number(env["PORT"])}
    /\ DropsListed(l)

\* A message that was dropped if it is listed, and only then or if hit.
Accounted ==
    {m \in Message : /\ m.msgNo \in ToSet(Dropped) => m.dropped
                     /\ m.dropped => m.hit \/ m.msgNo \in ToSet(Dropped)}

\* Children are forked by a parent that is ready.
Family ==
    /\ DOMAIN lib = Procs
    /\ Obeys(lib[0])
    /\ \A p \in Procs \ {0} :
         \/ lib[p] = NoProcess
         \/ Obeys(lib[p]) /\ Running(p) /\ Running(0)

\* What the environment leaves open is as main asked, once sendErr_init ran.
AsAsked(l) ==
    /\ ~IsSet(env)["ERR_RATE"] => l.rate = args.rate
    /\ ~IsSet(env)["DEBUG"] => l.debug = 1

Compiled == \A p \in Procs : Running(p) => AsAsked(lib[p])

\* nextSeed is above every seed given out so far, but for the parent's own
\* random seed until the first fork.
SeedsApart(data, random) ==
    LET Runs(p) == data[p].phase = "ready"
        next == data[0].nextSeed
    IN  /\ data[0].seed <= next
        /\ data[0].seed = next => random /\ \A c \in Procs \ {0} : ~Runs(c)
        /\ \A c \in Procs \ {0} : Runs(c) => data[c].seed < next
        /\ \A p, q \in Procs :
             Runs(p) /\ Runs(q) /\ p < q /\ data[p].seed = data[q].seed
               => p = 0 /\ q = 1 /\ random

Seeds == Running(0) /\ ~IsSet(env)["SEEDRAND"] => SeedsApart(lib, args.random)

LibraryInv ==
    /\ env \in Environments /\ args \in Arguments
    /\ Family /\ Compiled /\ Seeds
    /\ packet \in [Procs -> SUBSET Bytes]
    /\ sent \in [Procs -> Seq(Accounted)]

-----------------------------------------------------------------------------
(***************************************************************************)
(* Every operation on the library's data keeps to the environment.         *)
(***************************************************************************)
LEMMA Numbers ==
    ASSUME env \in Environments
    PROVE  /\ IsSet(env) \in [Keys -> BOOLEAN]
           /\ \A k \in Keys \ ListKeys : IsSet(env)[k] => Number(env[k]) \in Int
           /\ Dropped # << >> => IsSet(env)["ERR_DROP"]
           /\ Flipped # << >> => IsSet(env)["ERR_FLIP"]
<1>1. env \in [Keys -> {NotSet} \cup Seq({Invalid} \cup Int)]
  BY ErrorLibraryAssumption
<1>2. IsSet(env) \in [Keys -> BOOLEAN]
  BY DEF IsSet
<1>3. ASSUME NEW k \in Keys \ ListKeys, IsSet(env)[k] PROVE Number(env[k]) \in Int
  <2>1. env[k] \in Seq({Invalid} \cup Int) /\ Number(env[k]) # Invalid
    BY <1>1, <1>3 DEF IsSet
  <2> QED BY <2>1 DEF Number
<1>4. Dropped # << >> => IsSet(env)["ERR_DROP"]
  BY DEF Dropped, Listed, IsSet, Keys, ListKeys
<1>5. Flipped # << >> => IsSet(env)["ERR_FLIP"]
  BY DEF Flipped, Listed, IsSet, Keys, ListKeys
<1> QED BY <1>2, <1>3, <1>4, <1>5

\* What an operation keeps that is not about the seed or the numbers asked for.
SameNumbers(m, l) ==
    /\ m.seed = l.seed /\ m.rate = l.rate /\ m.debug = l.debug
    /\ m.nextSeed = l.nextSeed /\ m.phase = l.phase

LEMMA AddRandom ==
    ASSUME NEW l, Obeys(l), NEW ev \in RandomEvents
    PROVE  LET m == addMsgEvent_Random(l, ev)
           IN  Obeys(m) /\ SameNumbers(m, l)
<1> DEFINE m == addMsgEvent_Random(l, ev)
           r == Append(l.random, ev)
<1>1. l \in LibraryData
  BY DEF Obeys
<1>2. r \in Seq(RandomEvents)
  BY <1>1 DEF LibraryData
<1>3. m = [l EXCEPT !.random = r]
  BY <1>1 DEF addMsgEvent_Random, LibraryData
<1> HIDE DEF m, r
<1>4. /\ m \in LibraryData
      /\ m.phase = l.phase /\ m.debug = l.debug /\ m.seed = l.seed /\ m.rate = l.rate
      /\ m.standard = l.standard /\ m.nextSeed = l.nextSeed /\ m.port = l.port
  BY <1>1, <1>2, <1>3 DEF LibraryData
<1>5. Obeys(m)
  BY <1>4 DEF Obeys, DropsListed
<1> QED BY <1>4, <1>5 DEF m, SameNumbers

LEMMA AddStandard ==
    ASSUME NEW l, Obeys(l), NEW ev \in StandardEvents
    PROVE  LET m == addMsgEvent_Standard(l, ev)
           IN  Obeys(m) /\ SameNumbers(m, l)
<1> DEFINE m == addMsgEvent_Standard(l, ev)
           r == Append(l.standard, ev)
<1>1. l \in LibraryData /\ l.standard \in Seq(StandardEvents)
  BY DEF Obeys, LibraryData
<1>2. r \in Seq(StandardEvents) /\ \A i \in DOMAIN l.standard : i \in DOMAIN r /\ r[i] = l.standard[i]
  BY <1>1
<1>3. m = [l EXCEPT !.standard = r]
  BY <1>1 DEF addMsgEvent_Standard, LibraryData
<1> HIDE DEF m, r
<1>4. /\ m \in LibraryData
      /\ m.phase = l.phase /\ m.debug = l.debug /\ m.seed = l.seed /\ m.rate = l.rate
      /\ m.standard = r /\ m.nextSeed = l.nextSeed /\ m.port = l.port
  BY <1>1, <1>2, <1>3 DEF LibraryData
<1>5. DropsListed(m)
  BY <1>2, <1>4 DEF Obeys, DropsListed
<1>6. Obeys(m)
  BY <1>4, <1>5 DEF Obeys
<1> QED BY <1>4, <1>6 DEF m, SameNumbers

LEMMA SetErrRate ==
    ASSUME NEW l, Obeys(l), NEW n \in Int
    PROVE  LET m == setUserMode_ErrRate(l, n)
           IN  /\ Obeys(m) /\ m.seed = l.seed /\ m.debug = l.debug
               /\ m.nextSeed = l.nextSeed /\ m.phase = l.phase
               /\ ~IsSet(env)["ERR_RATE"] => m.rate = n
<1>1. l \in LibraryData /\ l.isSet = IsSet(env)
  BY DEF Obeys, LibraryData
<1> DEFINE m == [l EXCEPT !.rate = n]
<1>2. /\ m \in LibraryData
      /\ m.phase = l.phase /\ m.debug = l.debug /\ m.seed = l.seed /\ m.rate = n
      /\ m.standard = l.standard /\ m.nextSeed = l.nextSeed /\ m.port = l.port
  BY <1>1 DEF LibraryData
<1>3. setUserMode_ErrRate(l, n) = IF IsSet(env)["ERR_RATE"] THEN l ELSE m
  BY <1>1 DEF setUserMode_ErrRate
<1> HIDE DEF m
<1>4. ~IsSet(env)["ERR_RATE"] => Obeys(m)
  BY <1>2 DEF Obeys, DropsListed
<1> QED BY <1>2, <1>3, <1>4

LEMMA SetDebug ==
    ASSUME NEW l, Obeys(l), NEW n \in Int
    PROVE  LET m == setUserMode_Debug(l, n)
           IN  /\ Obeys(m) /\ m.seed = l.seed /\ m.rate = l.rate
               /\ m.nextSeed = l.nextSeed /\ m.phase = l.phase
               /\ ~IsSet(env)["DEBUG"] => m.debug = n
<1>1. l \in LibraryData /\ l.isSet = IsSet(env)
  BY DEF Obeys, LibraryData
<1> DEFINE m == [l EXCEPT !.debug = n]
<1>2. /\ m \in LibraryData
      /\ m.phase = l.phase /\ m.rate = l.rate /\ m.seed = l.seed /\ m.debug = n
      /\ m.standard = l.standard /\ m.nextSeed = l.nextSeed /\ m.port = l.port
  BY <1>1 DEF LibraryData
<1>3. setUserMode_Debug(l, n) = IF IsSet(env)["DEBUG"] THEN l ELSE m
  BY <1>1 DEF setUserMode_Debug
<1> HIDE DEF m
<1>4. ~IsSet(env)["DEBUG"] => Obeys(m)
  BY <1>2 DEF Obeys, DropsListed
<1> QED BY <1>2, <1>3, <1>4

LEMMA SetSeedRand ==
    ASSUME NEW l, Obeys(l), NEW n \in Int
    PROVE  LET m == setUserMode_SeedRand(l, n)
           IN  /\ Obeys(m) /\ m.rate = l.rate /\ m.debug = l.debug
               /\ m.nextSeed = l.nextSeed /\ m.phase = l.phase
               /\ ~IsSet(env)["SEEDRAND"] => m.seed = n
<1>1. l \in LibraryData /\ l.isSet = IsSet(env)
  BY DEF Obeys, LibraryData
<1> DEFINE m == [l EXCEPT !.seed = n]
<1>2. /\ m \in LibraryData /\ m.seed = n
      /\ m.phase = l.phase /\ m.rate = l.rate /\ m.debug = l.debug
      /\ m.standard = l.standard /\ m.nextSeed = l.nextSeed /\ m.port = l.port
  BY <1>1 DEF LibraryData
<1>3. setUserMode_SeedRand(l, n) = IF IsSet(env)["SEEDRAND"] THEN l ELSE m
  BY <1>1 DEF setUserMode_SeedRand
<1> HIDE DEF m
<1>4. ~IsSet(env)["SEEDRAND"] => Obeys(m)
  BY <1>2 DEF Obeys, DropsListed
<1> QED BY <1>2, <1>3, <1>4

(***************************************************************************)
(* phase and nextSeed, the port, and the counters are not the              *)
(* environment's business, but for the port it names.                      *)
(***************************************************************************)
LEMMA SetNextSeed ==
    ASSUME NEW l, Obeys(l), NEW n \in Int
    PROVE  LET m == [l EXCEPT !.nextSeed = n]
           IN  /\ Obeys(m) /\ m.nextSeed = n /\ m.seed = l.seed /\ m.phase = l.phase
               /\ m.rate = l.rate /\ m.debug = l.debug
<1> DEFINE m == [l EXCEPT !.nextSeed = n]
<1>1. l \in LibraryData
  BY DEF Obeys
<1>2. /\ m \in LibraryData /\ m.nextSeed = n /\ m.seed = l.seed
      /\ m.phase = l.phase /\ m.rate = l.rate /\ m.debug = l.debug
      /\ m.standard = l.standard /\ m.port = l.port
  BY <1>1 DEF LibraryData
<1> HIDE DEF m
<1>3. Obeys(m)
  BY <1>2 DEF Obeys, DropsListed
<1> QED BY <1>2, <1>3 DEF m

LEMMA SetReady ==
    ASSUME NEW l, Obeys(l)
    PROVE  LET m == [l EXCEPT !.phase = "ready"]
           IN  /\ Obeys(m) /\ m.nextSeed = l.nextSeed /\ m.seed = l.seed /\ m.phase = "ready"
               /\ m.rate = l.rate /\ m.debug = l.debug
<1> DEFINE m == [l EXCEPT !.phase = "ready"]
<1>1. l \in LibraryData
  BY DEF Obeys
<1>2. /\ m \in LibraryData /\ m.nextSeed = l.nextSeed /\ m.seed = l.seed
      /\ m.phase = "ready" /\ m.rate = l.rate /\ m.debug = l.debug
      /\ m.standard = l.standard /\ m.port = l.port
  BY <1>1 DEF LibraryData
<1> HIDE DEF m
<1>3. Obeys(m)
  BY <1>2 DEF Obeys, DropsListed
<1> QED BY <1>2, <1>3 DEF m

LEMMA SetPort ==
    ASSUME NEW l, Obeys(l), NEW n \in Int,
           IsSet(env)["PORT"] => n = Number(env["PORT"])
    PROVE  LET m == [l EXCEPT !.port = n]
           IN  Obeys(m) /\ SameNumbers(m, l)
<1> DEFINE m == [l EXCEPT !.port = n]
<1>1. l \in LibraryData
  BY DEF Obeys
<1>2. /\ m \in LibraryData /\ m.nextSeed = l.nextSeed /\ m.seed = l.seed
      /\ m.phase = l.phase /\ m.rate = l.rate /\ m.debug = l.debug
      /\ m.standard = l.standard /\ m.port = n
  BY <1>1 DEF LibraryData
<1> HIDE DEF m
<1>3. Obeys(m)
  BY <1>2 DEF Obeys, DropsListed
<1> QED BY <1>2, <1>3 DEF m, SameNumbers

-----------------------------------------------------------------------------
(***************************************************************************)
(* The constructors: a list to drop becomes a standard event, a word that  *)
(* names no packet a random one.                                           *)
(***************************************************************************)
LEMMA ConstructedObeys ==
    ASSUME env \in Environments
    PROVE  Obeys(Constructed(env)) /\ Constructed(env).phase = "started"
<1> DEFINE a == [phase |-> "started",
                 isSet |-> IsSet(env),
                 debug |-> Override(env, "DEBUG", 0),
                 seed |-> Override(env, "SEEDRAND", Epoch),
                 rate |-> Override(env, "ERR_RATE", 0),
                 standard |-> << >>, random |-> << >>, msgNo |-> 0, noted |-> 0,
                 nextSeed |-> RANDOM_SEED, port |-> NotSet]
           b == loadEnvData_ErrDrop(a, env)
           c == loadEnvData_ErrFlip(b, env)
<1>1. Constructed(env) = c
  BY DEF Constructed
<1>2. /\ Override(env, "DEBUG", 0) \in Int
      /\ Override(env, "SEEDRAND", Epoch) \in Int
      /\ Override(env, "ERR_RATE", 0) \in Int
      /\ IsSet(env)["DEBUG"] => Override(env, "DEBUG", 0) = Number(env["DEBUG"])
      /\ IsSet(env)["SEEDRAND"] => Override(env, "SEEDRAND", Epoch) = Number(env["SEEDRAND"])
      /\ IsSet(env)["ERR_RATE"] => Override(env, "ERR_RATE", 0) = Number(env["ERR_RATE"])
  BY Numbers DEF Override, Keys, ListKeys, Epoch
<1>3. << >> \in Seq(StandardEvents) /\ << >> \in Seq(RandomEvents)
  OBVIOUS
<1>4. /\ a \in LibraryData
      /\ IsSet(env)["ERR_RATE"] => a.rate = Number(env["ERR_RATE"])
      /\ IsSet(env)["SEEDRAND"] => a.seed = Number(env["SEEDRAND"])
      /\ IsSet(env)["DEBUG"] => a.debug = Number(env["DEBUG"])
      /\ a.port = NotSet /\ a.isSet = IsSet(env) /\ a.phase = "started"
  BY <1>2, <1>3 DEF LibraryData, RANDOM_SEED
<1> HIDE DEF a
<1>5. Obeys(b) /\ b.phase = "started"
  <2>1. CASE Dropped = << >>
    <3>1. Obeys(a)
      BY <1>4, <2>1 DEF Obeys, DropsListed
    <3>2. DropAll \in RandomEvents
      BY <2>1 DEF RandomEvents
    <3>3. b = a \/ b = addMsgEvent_Random(a, DropAll)
      BY <2>1 DEF loadEnvData_ErrDrop, Dropped
    <3> QED BY <1>4, <3>1, <3>2, <3>3, AddRandom DEF SameNumbers
  <2>2. CASE Dropped # << >>
    <3> DEFINE ev == setDropSpecific(Dropped)
               r == Append(a.standard, ev)
    <3>1. a.isSet["ERR_DROP"]
      BY <1>4, <2>2, Numbers
    <3>2. b = addMsgEvent_Standard(a, ev)
      BY <2>2, <3>1 DEF loadEnvData_ErrDrop, Dropped
    <3>3. ev \in StandardEvents /\ a.standard \in Seq(StandardEvents)
      BY <1>4 DEF StandardEvents, LibraryData
    <3> HIDE DEF ev
    <3>4. /\ r \in Seq(StandardEvents)
          /\ Len(a.standard) + 1 \in DOMAIN r /\ r[Len(a.standard) + 1] = ev
      BY <3>3
    <3>5. b = [a EXCEPT !.standard = r]
      BY <1>4, <3>2 DEF addMsgEvent_Standard, LibraryData
    <3> HIDE DEF r, b
    <3>6. /\ b \in LibraryData /\ b.standard = r
          /\ b.phase = a.phase /\ b.rate = a.rate /\ b.debug = a.debug
          /\ b.seed = a.seed /\ b.port = a.port
      BY <1>4, <3>4, <3>5 DEF LibraryData
    <3>7. DropsListed(b)
      BY <3>4, <3>6 DEF DropsListed, ev
    <3> QED BY <1>4, <3>6, <3>7 DEF Obeys
  <2> QED BY <2>1, <2>2
<1> HIDE DEF b
<1>6. Obeys(c) /\ c.phase = "started"
  <2>1. CASE Flipped = << >>
    <3>1. FlipEvent \in RandomEvents
      BY <2>1 DEF RandomEvents
    <3>2. c = b \/ c = addMsgEvent_Random(b, FlipEvent)
      BY DEF loadEnvData_ErrFlip
    <3> QED BY <1>5, <3>1, <3>2, AddRandom DEF SameNumbers
  <2>2. CASE Flipped # << >>
    BY <1>5, <2>2 DEF loadEnvData_ErrFlip, Flipped
  <2> QED BY <2>1, <2>2
<1> QED BY <1>1, <1>6

(***************************************************************************)
(* The compiled options: no random loss beside a list of messages.         *)
(***************************************************************************)
LEMMA SetEvents ==
    ASSUME NEW l, Obeys(l), NEW on, env \in Environments
    PROVE  /\ LET m == setUserMode_ErrDrop(l, on)
              IN  Obeys(m) /\ SameNumbers(m, l)
           /\ LET m == setUserMode_ErrFlip(l, on)
              IN  Obeys(m) /\ SameNumbers(m, l)
<1>1. l.isSet = IsSet(env)
  BY DEF Obeys, LibraryData
<1>2. LET m == setUserMode_ErrDrop(l, on)
      IN  Obeys(m) /\ SameNumbers(m, l)
  <2>1. CASE ~IsSet(env)["ERR_DROP"]
    <3>1. DropAll \in RandomEvents
      BY <2>1, Numbers DEF RandomEvents
    <3>2. \/ setUserMode_ErrDrop(l, on) = l
          \/ setUserMode_ErrDrop(l, on) = addMsgEvent_Random(l, DropAll)
      BY DEF setUserMode_ErrDrop
    <3> QED BY <3>1, <3>2, AddRandom DEF SameNumbers
  <2>2. CASE IsSet(env)["ERR_DROP"]
    BY <1>1, <2>2 DEF setUserMode_ErrDrop, SameNumbers
  <2> QED BY <2>1, <2>2
<1>3. LET m == setUserMode_ErrFlip(l, on)
      IN  Obeys(m) /\ SameNumbers(m, l)
  <2>1. CASE ~IsSet(env)["ERR_FLIP"]
    <3>1. FlipEvent \in RandomEvents
      BY <2>1, Numbers DEF RandomEvents
    <3>2. \/ setUserMode_ErrFlip(l, on) = l
          \/ setUserMode_ErrFlip(l, on) = addMsgEvent_Random(l, FlipEvent)
      BY DEF setUserMode_ErrFlip
    <3> QED BY <3>1, <3>2, AddRandom DEF SameNumbers
  <2>2. CASE IsSet(env)["ERR_FLIP"]
    BY <1>1, <2>2 DEF setUserMode_ErrFlip, SameNumbers
  <2> QED BY <2>1, <2>2
<1> QED BY <1>2, <1>3

-----------------------------------------------------------------------------
(***************************************************************************)
(* The steps.  The settings read from env are those of the next state.     *)
(***************************************************************************)
LEMMA SameEnvironment ==
    ASSUME UNCHANGED env, NEW l
    PROVE  /\ Obeys(l) => Obeys(l)'
           /\ Accounted' = Accounted /\ Dropped' = Dropped /\ IsSet(env)' = IsSet(env)
<1>1. Dropped' = Dropped /\ Flipped' = Flipped /\ IsSet(env)' = IsSet(env)
  BY DEF Dropped, Flipped
<1> QED BY <1>1 DEF Obeys, LibraryData, StandardEvents, RandomEvents, DropsListed, Accounted

LEMMA Zero == 0 \in Procs
BY ErrorLibraryAssumption DEF Procs

LEMMA RunningObeys ==
    ASSUME LibraryInv, NEW p \in Procs, Running(p)
    PROVE  Obeys(lib[p]) /\ Running(0) /\ lib[p] \in LibraryData
BY DEF LibraryInv, Family, Running, NoProcess, Obeys

(***************************************************************************)
(* One process changes its own data.                                       *)
(***************************************************************************)
LEMMA FamilyStep ==
    ASSUME LibraryInv, UNCHANGED env, NEW p \in Procs, p = 0 \/ Running(0),
           NEW m, Obeys(m), m.phase = "ready", lib' = [lib EXCEPT ![p] = m]
    PROVE  /\ Family'
           /\ lib'[p] = m /\ \A q \in Procs \ {p} : lib'[q] = lib[q]
<1>1. DOMAIN lib = Procs /\ DOMAIN lib' = Procs
  BY DEF LibraryInv, Family
<1>2. lib'[p] = m /\ \A q \in Procs \ {p} : lib'[q] = lib[q]
  BY <1>1
<1>3. Obeys(lib[0])'
  <2>1. Obeys(lib'[0])
    BY <1>2, Zero DEF LibraryInv, Family
  <2> QED BY <2>1, SameEnvironment
<1>4. lib'[0].phase = "ready"
  BY <1>2, Zero DEF Running
<1>5. ASSUME NEW q \in Procs \ {0}
      PROVE  lib'[q] = NoProcess \/ (Obeys(lib[q])' /\ lib'[q].phase = "ready")
  <2>1. CASE q = p
    <3>1. Obeys(lib'[q])
      BY <1>2, <2>1
    <3> QED BY <1>2, <2>1, <3>1, SameEnvironment
  <2>2. CASE q # p
    <3>1. lib'[q] = lib[q]
      BY <1>2, <2>2
    <3>2. CASE lib[q] = NoProcess
      BY <3>1, <3>2
    <3>3. CASE lib[q] # NoProcess
      <4>1. Obeys(lib'[q]) /\ lib'[q].phase = "ready"
        BY <3>1, <3>3 DEF LibraryInv, Family, Running
      <4> QED BY <4>1, SameEnvironment
    <3> QED BY <3>2, <3>3
  <2> QED BY <2>1, <2>2
<1> QED BY <1>1, <1>2, <1>3, <1>4, <1>5 DEF Family, Running

LEMMA NumbersSame ==
    ASSUME LibraryInv, UNCHANGED <<env, args>>, NEW p \in Procs, Running(p),
           NEW m, SameNumbers(m, lib[p]),
           lib'[p] = m, \A q \in Procs \ {p} : lib'[q] = lib[q]
    PROVE  Compiled' /\ Seeds'
<1>1. \A q \in Procs : SameNumbers(lib'[q], lib[q])
  BY DEF SameNumbers
<1>2. IsSet(env)' = IsSet(env) /\ args' = args
  BY SameEnvironment
<1>3. Compiled'
  BY <1>1, <1>2 DEF Compiled, AsAsked, Running, SameNumbers, LibraryInv
<1>4. SeedsApart(lib, args.random) => SeedsApart(lib', args.random)
  BY <1>1, Zero DEF SeedsApart, SameNumbers
<1>5. Seeds'
  <2> SUFFICES ASSUME lib'[0].phase = "ready", ~IsSet(env)["SEEDRAND"]
               PROVE  SeedsApart(lib', args.random)
    BY <1>2 DEF Seeds, Running, SeedsApart
  <2> QED BY <1>1, <1>4, Zero DEF LibraryInv, Seeds, Running, SameNumbers
<1> QED BY <1>3, <1>5

LEMMA InitLibrary == Init => LibraryInv
<1> SUFFICES ASSUME Init PROVE LibraryInv
  OBVIOUS
<1>1. lib[0] = Constructed(env) /\ \A p \in Procs \ {0} : lib[p] = NoProcess
  BY Zero DEF Init
<1>2. Obeys(lib[0]) /\ lib[0].phase = "started"
  BY <1>1, ConstructedObeys DEF Init
<1>3. Family
  BY <1>1, <1>2 DEF Family, Init
<1>4. Compiled /\ Seeds
  BY <1>1, <1>2 DEF Compiled, Seeds, Running, NoProcess
<1>5. packet \in [Procs -> SUBSET Bytes] /\ sent \in [Procs -> Seq(Accounted)]
  BY DEF Init
<1> QED BY <1>3, <1>4, <1>5 DEF LibraryInv, Init

LEMMA StartLibrary == LibraryInv /\ sendErr_init => LibraryInv'
<1> SUFFICES ASSUME LibraryInv, sendErr_init PROVE LibraryInv'
  OBVIOUS
<1>1. PICK t \in Epoch .. Epoch + 1 : \E u \in t .. t + 1 :
        LET events == setUserMode_ErrFlip(setUserMode_ErrDrop(setUserMode_ErrRate(
                          addMsgEvent_Standard(lib[0], InfoEvent),
                          args.rate), args.drop), args.flip)
            seeded == setUserMode_SeedRand(events,
                          IF args.random THEN t ELSE events.nextSeed)
        IN  lib' = [lib EXCEPT ![0] =
                [setUserMode_Debug(seeded, 1) EXCEPT
                    !.phase = "ready",
                    !.nextSeed = IF args.random THEN u ELSE @ + 1]]
  BY DEF sendErr_init
<1> DEFINE a == addMsgEvent_Standard(lib[0], InfoEvent)
           b == setUserMode_ErrRate(a, args.rate)
           c == setUserMode_ErrDrop(b, args.drop)
           d == setUserMode_ErrFlip(c, args.flip)
           s == IF args.random THEN t ELSE d.nextSeed
           e == setUserMode_SeedRand(d, s)
           f == setUserMode_Debug(e, 1)
           g == [f EXCEPT !.phase = "ready"]
<1>2. PICK u \in t .. t + 1 :
        lib' = [lib EXCEPT ![0] =
            [f EXCEPT !.phase = "ready", !.nextSeed = IF args.random THEN u ELSE @ + 1]]
  BY <1>1
<1> DEFINE n == IF args.random THEN u ELSE g.nextSeed + 1
           m == [g EXCEPT !.nextSeed = n]
<1>3. /\ env' = env /\ args' = args /\ packet' = packet /\ sent' = sent
      /\ env \in Environments /\ args \in Arguments
      /\ lib[0].phase = "started" /\ Obeys(lib[0])
      /\ t \in Int /\ u \in Int
  BY DEF sendErr_init, LibraryInv, Family, Epoch
<1>4. Obeys(a)
  BY <1>3, AddStandard DEF StandardEvents
<1> HIDE DEF a
<1>5. Obeys(b) /\ (~IsSet(env)["ERR_RATE"] => b.rate = args.rate)
  <2>1. args.rate \in Int
    BY <1>3, ErrorLibraryAssumption DEF Arguments
  <2> QED BY <1>4, <2>1, SetErrRate
<1> HIDE DEF b
<1>6. Obeys(c) /\ c.rate = b.rate
  BY <1>3, <1>5, SetEvents DEF SameNumbers
<1> HIDE DEF c
<1>7. Obeys(d) /\ d.nextSeed \in Int /\ d.rate = c.rate
  <2>1. Obeys(d) /\ d.rate = c.rate
    BY <1>3, <1>6, SetEvents DEF SameNumbers
  <2> QED BY <2>1 DEF Obeys, LibraryData
<1> HIDE DEF d
<1>8. s \in Int /\ s = IF args.random THEN t ELSE d.nextSeed
  BY <1>3, <1>7
<1>9. /\ Obeys(e) /\ e.nextSeed = d.nextSeed /\ e.rate = d.rate
      /\ ~IsSet(env)["SEEDRAND"] => e.seed = s
  <2> HIDE DEF s
  <2> QED BY <1>7, <1>8, SetSeedRand
<1> HIDE DEF e, s
<1>10. /\ Obeys(f) /\ f.nextSeed = e.nextSeed /\ f.seed = e.seed /\ f.rate = e.rate
       /\ ~IsSet(env)["DEBUG"] => f.debug = 1
  <2>1. 1 \in Int
    OBVIOUS
  <2> QED BY <1>9, <2>1, SetDebug
<1> HIDE DEF f
<1>11. /\ Obeys(g) /\ g.nextSeed = f.nextSeed /\ g.seed = f.seed /\ g.phase = "ready"
       /\ g.rate = f.rate /\ g.debug = f.debug
  BY <1>10, SetReady
<1>12. lib' = [lib EXCEPT ![0] = m]
  <2>1. f \in LibraryData
    BY <1>10 DEF Obeys
  <2> QED BY <1>2, <2>1 DEF LibraryData
<1> HIDE DEF g
<1>13. n \in Int /\ n = IF args.random THEN u ELSE g.nextSeed + 1
  BY <1>3, <1>7, <1>9, <1>10, <1>11
<1> HIDE DEF n
<1>14. /\ Obeys(m) /\ m.nextSeed = n /\ m.seed = g.seed /\ m.phase = "ready"
       /\ m.rate = g.rate /\ m.debug = g.debug
  BY <1>11, <1>13, SetNextSeed
<1> HIDE DEF m
<1>15. /\ Family' /\ lib'[0] = m
       /\ \A q \in Procs \ {0} : lib'[q] = lib[q]
  BY <1>3, <1>12, <1>14, FamilyStep, Zero
<1>16. \A q \in Procs \ {0} : lib'[q].phase = "free"
  BY <1>3, <1>15 DEF LibraryInv, Family, NoProcess, Running
<1>17. Compiled' /\ Seeds'
  <2>1. ~IsSet(env)["SEEDRAND"] =>
          m.seed <= m.nextSeed /\ (m.seed = m.nextSeed => args.random)
    BY <1>3, <1>7, <1>8, <1>9, <1>10, <1>11, <1>13, <1>14
  <2>2. IsSet(env)' = IsSet(env)
    BY <1>3, SameEnvironment
  <2>3. AsAsked(m)
    BY <1>5, <1>6, <1>7, <1>9, <1>10, <1>11, <1>14 DEF AsAsked
  <2>4. Compiled'
    BY <1>3, <1>15, <1>16, <2>2, <2>3 DEF Compiled, AsAsked, Running
  <2>5. ~IsSet(env)["SEEDRAND"] => SeedsApart(lib', args.random)
    BY <1>15, <1>16, <2>1, Zero DEF SeedsApart, Procs
  <2> QED BY <1>3, <2>2, <2>4, <2>5 DEF Seeds, SeedsApart
<1>18. Accounted' = Accounted
  BY <1>3, SameEnvironment
<1> QED BY <1>3, <1>15, <1>17, <1>18 DEF LibraryInv

LEMMA BindLibrary == LibraryInv /\ bindMod => LibraryInv'
<1> SUFFICES ASSUME LibraryInv, bindMod PROVE LibraryInv'
  OBVIOUS
<1>1. /\ env' = env /\ args' = args /\ packet' = packet /\ sent' = sent
      /\ env \in Environments /\ args \in Arguments
      /\ Running(0) /\ Obeys(lib[0]) /\ lib[0].phase = "ready"
  BY DEF bindMod, LibraryInv, Family, Running
<1> DEFINE port == CASE env["PORT"] = NotSet -> AskedPort
                     [] env["PORT"] # NotSet /\ Number(env["PORT"]) = Invalid -> 0
                     [] OTHER -> Number(env["PORT"])
           m == [lib[0] EXCEPT !.port = port]
<1>2. lib' = [lib EXCEPT ![0] = m]
  BY DEF bindMod
<1>3. port \in Int /\ (IsSet(env)["PORT"] => port = Number(env["PORT"]))
  <2>1. IsSet(env)["PORT"] <=> env["PORT"] # NotSet /\ Number(env["PORT"]) # Invalid
    BY DEF IsSet, Keys, ListKeys
  <2>2. IsSet(env)["PORT"] => Number(env["PORT"]) \in Int
    BY <1>1, Numbers DEF Keys, ListKeys
  <2> QED BY <2>1, <2>2 DEF AskedPort
<1> HIDE DEF port
<1>4. Obeys(m) /\ SameNumbers(m, lib[0])
  BY <1>1, <1>3, SetPort
<1> HIDE DEF m
<1>5. /\ Family' /\ lib'[0] = m
      /\ \A q \in Procs \ {0} : lib'[q] = lib[q]
  BY <1>1, <1>2, <1>4, FamilyStep, Zero DEF SameNumbers
<1>6. Compiled' /\ Seeds'
  BY <1>1, <1>4, <1>5, NumbersSame, Zero
<1>7. Accounted' = Accounted
  BY <1>1, SameEnvironment
<1> QED BY <1>1, <1>5, <1>6, <1>7 DEF LibraryInv

LEMMA ForkLibrary ==
    ASSUME LibraryInv, NEW c \in Procs \ {0}, forkMod(c),
           \A b \in 1 .. c - 1 : lib[b].phase # "free"
    PROVE  LibraryInv'
<1> DEFINE s == lib[0].nextSeed
           n == s + 1
           parent == [lib[0] EXCEPT !.nextSeed = n]
           child == setUserMode_SeedRand(parent, s)
<1>1. /\ env' = env /\ args' = args /\ sent' = sent
      /\ packet' = [packet EXCEPT ![c] = packet[0]]
      /\ Running(0) /\ lib[0].phase = "ready" /\ lib[c].phase = "free"
      /\ env \in Environments /\ args \in Arguments
  BY DEF forkMod, LibraryInv, Running
<1>2. Obeys(lib[0]) /\ lib[0] \in LibraryData
  BY <1>1, RunningObeys, Zero
<1>3. lib' = [lib EXCEPT ![0] = parent, ![c] = child]
  BY <1>2 DEF forkMod, LibraryData
<1>4. s \in Int /\ n \in Int /\ n = s + 1
  BY <1>2 DEF LibraryData
<1> HIDE DEF n
<1>5. /\ Obeys(parent) /\ parent.nextSeed = n /\ parent.seed = lib[0].seed /\ parent.phase = "ready"
      /\ parent.rate = lib[0].rate /\ parent.debug = lib[0].debug
  BY <1>1, <1>2, <1>4, SetNextSeed
<1> HIDE DEF parent
<1>6. /\ Obeys(child) /\ child.phase = "ready" /\ (~IsSet(env)["SEEDRAND"] => child.seed = s)
      /\ child.rate = parent.rate /\ child.debug = parent.debug
  <2> HIDE DEF s
  <2>1. s \in Int /\ Obeys(parent)
    BY <1>4, <1>5
  <2>2. /\ Obeys(child) /\ child.phase = parent.phase
        /\ ~IsSet(env)["SEEDRAND"] => child.seed = s
        /\ child.rate = parent.rate /\ child.debug = parent.debug
    BY <2>1, SetSeedRand
  <2> QED BY <1>5, <2>2
<1> HIDE DEF child
<1>7. /\ DOMAIN lib = Procs /\ DOMAIN lib' = Procs
      /\ lib'[0] = parent /\ lib'[c] = child /\ \A q \in Procs \ {0, c} : lib'[q] = lib[q]
  BY <1>3, Zero DEF LibraryInv, Family
<1>8. Family'
  <2>1. Obeys(lib[0])' /\ lib'[0].phase = "ready"
    <3>1. Obeys(lib'[0])
      BY <1>5, <1>7
    <3> QED BY <1>1, <1>5, <1>7, <3>1, SameEnvironment
  <2>2. ASSUME NEW q \in Procs \ {0}
        PROVE  lib'[q] = NoProcess \/ (Obeys(lib[q])' /\ lib'[q].phase = "ready")
    <3>1. CASE q = c
      <4>1. Obeys(lib'[q])
        BY <1>6, <1>7, <3>1
      <4> QED BY <1>1, <1>6, <1>7, <3>1, <4>1, SameEnvironment
    <3>2. CASE q # c
      <4>1. lib'[q] = lib[q]
        BY <1>7, <3>2
      <4>2. CASE lib[q] = NoProcess
        BY <4>1, <4>2
      <4>3. CASE lib[q] # NoProcess
        <5>1. Obeys(lib'[q]) /\ lib'[q].phase = "ready"
          BY <4>1, <4>3 DEF LibraryInv, Family, Running
        <5> QED BY <1>1, <5>1, SameEnvironment
      <4> QED BY <4>2, <4>3
    <3> QED BY <3>1, <3>2
  <2> QED BY <1>7, <2>1, <2>2 DEF Family, Running
<1>9. Seeds'
  <2>1. IsSet(env)' = IsSet(env)
    BY <1>1, SameEnvironment
  <2> SUFFICES ASSUME ~IsSet(env)["SEEDRAND"] PROVE SeedsApart(lib', args.random)
    BY <1>1, <2>1 DEF Seeds, SeedsApart
  <2>2. SeedsApart(lib, args.random)
    BY <1>1 DEF LibraryInv, Seeds
  <2>3. /\ lib'[0].nextSeed = s + 1 /\ lib'[c].seed = s /\ lib'[c].phase = "ready"
        /\ \A q \in Procs \ {c} : lib'[q].seed = lib[q].seed /\ lib'[q].phase = lib[q].phase
    BY <1>1, <1>4, <1>5, <1>6, <1>7
  <2>4. \A q \in Procs : lib[q].phase = "ready" => lib[q].seed \in Int
    BY RunningObeys DEF Running, LibraryData
  <2>5. ASSUME NEW b \in 1 .. c - 1 PROVE b \in Procs \ {0} /\ lib[b].phase = "ready"
    <3>1. b \in Procs \ {0}
      BY ErrorLibraryAssumption DEF Procs
    <3> QED BY <3>1 DEF LibraryInv, Family, NoProcess, Running
  <2>6. c \in Nat /\ 0 < c /\ Procs \subseteq Int
    BY ErrorLibraryAssumption DEF Procs
  <2> HIDE DEF s
  <2>7. lib[0].seed \in Int /\ lib[0].seed <= s
    BY <1>1, <2>2, <2>4, Zero DEF SeedsApart, s
  <2>8. lib[0].seed = s => args.random /\ c = 1
    <3>1. ASSUME lib[0].seed = s PROVE args.random /\ \A b \in Procs \ {0} : lib[b].phase # "ready"
      BY <2>2, <3>1 DEF SeedsApart, s
    <3>2. c # 1 => 1 \in 1 .. c - 1
      BY <2>6
    <3> QED BY <2>5, <3>1, <3>2
  <2>9. \A q \in Procs \ {0} : lib[q].phase = "ready" => lib[q].seed < s
    BY <2>2 DEF SeedsApart, s
  <2>10. lib'[0].seed <= lib'[0].nextSeed /\ lib'[0].seed # lib'[0].nextSeed
    BY <1>4, <2>3, <2>7, Zero
  <2>11. \A q \in Procs \ {0} : lib'[q].phase = "ready" => lib'[q].seed < lib'[0].nextSeed
    BY <1>4, <2>3, <2>4, <2>9
  <2>12. ASSUME NEW r \in Procs, NEW q \in Procs, r < q, lib'[r].phase = "ready",
                lib'[q].phase = "ready", lib'[r].seed = lib'[q].seed
         PROVE  r = 0 /\ q = 1 /\ args.random
    <3>1. CASE q = c /\ r = 0
      BY <2>3, <2>6, <2>8, <2>12, <3>1
    <3>2. CASE q = c /\ r # 0
      BY <1>4, <2>3, <2>4, <2>6, <2>9, <2>12, <3>2
    <3>3. CASE r = c
      BY <1>4, <2>3, <2>4, <2>6, <2>9, <2>12, <3>3
    <3>4. CASE r # c /\ q # c
      BY <2>2, <2>3, <2>12, <3>4 DEF SeedsApart
    <3> QED BY <3>1, <3>2, <3>3, <3>4
  <2> QED BY <2>10, <2>11, <2>12 DEF SeedsApart
<1>10. Accounted' = Accounted
  BY <1>1, SameEnvironment
<1>11. packet' \in [Procs -> SUBSET Bytes]
  BY <1>1, Zero DEF LibraryInv
<1>12. Compiled'
  <2>1. IsSet(env)' = IsSet(env)
    BY <1>1, SameEnvironment
  <2>2. AsAsked(lib[0])
    BY <1>1, Zero DEF LibraryInv, Compiled
  <2>3. AsAsked(parent) /\ AsAsked(child)
    BY <1>5, <1>6, <2>2 DEF AsAsked
  <2>4. \A q \in Procs : lib'[q].phase = "ready" => AsAsked(lib'[q])
    BY <1>7, <2>3 DEF LibraryInv, Compiled, Running
  <2> QED BY <1>1, <2>1, <2>4 DEF Compiled, AsAsked, Running
<1> QED BY <1>1, <1>8, <1>9, <1>10, <1>11, <1>12 DEF LibraryInv

(***************************************************************************)
(* The standard events drop exactly what the environment lists.            *)
(***************************************************************************)
LEMMA StandardDropsListed ==
    ASSUME NEW l, Obeys(l), NEW no
    PROVE  StandardDrops(l.standard, no) <=> no \in ToSet(Dropped)
<1>1. l.standard \in Seq(StandardEvents) /\ DropsListed(l)
  BY DEF Obeys, LibraryData
<1>2. /\ Drops(setDropSpecific(Dropped), no) <=> no \in ToSet(Dropped)
      /\ ~Drops(InfoEvent, no)
  BY DEF Drops, setDropSpecific, DropEvent, InfoEvent
<1>3. ASSUME StandardDrops(l.standard, no) PROVE no \in ToSet(Dropped)
  <2>1. PICK i \in DOMAIN l.standard : Drops(l.standard[i], no)
    BY <1>3 DEF StandardDrops
  <2>2. l.standard[i] \in StandardEvents
    BY <1>1
  <2> QED BY <1>2, <2>1, <2>2 DEF StandardEvents
<1>4. ASSUME no \in ToSet(Dropped) PROVE StandardDrops(l.standard, no)
  <2>1. Dropped # << >>
    BY <1>4 DEF ToSet
  <2>2. PICK i \in DOMAIN l.standard : l.standard[i] = setDropSpecific(Dropped)
    BY <1>1, <2>1 DEF DropsListed
  <2> QED BY <1>2, <1>4, <2>2 DEF StandardDrops
<1> QED BY <1>3, <1>4

LEMMA SendLibrary ==
    ASSUME LibraryInv, NEW p \in Procs, Running(p), NEW random, NEW byte,
           FlipEvent \in random => byte \in Bytes, Send(p, random, byte)
    PROVE  LibraryInv'
<1> DEFINE no == lib[p].msgNo + 1
           l == [lib[p] EXCEPT !.msgNo = no]
           k == IF StandardNotes(l.standard, l.msgNo) THEN l.noted + 1 ELSE l.noted
           m == [l EXCEPT !.noted = k]
           dropped == \/ StandardDrops(l.standard, l.msgNo)
                      \/ \E ev \in random : Drops(ev, l.msgNo)
           copy == IF FlipEvent \in random THEN Inverted(packet[p], byte) ELSE packet[p]
           w == [msgNo |-> l.msgNo, hit |-> random # {}, dropped |-> dropped, wire |-> copy]
<1>1. /\ env' = env /\ args' = args
      /\ env \in Environments /\ args \in Arguments
      /\ Obeys(lib[p]) /\ Running(0) /\ lib[p] \in LibraryData /\ lib[p].phase = "ready"
  BY RunningObeys DEF Send, LibraryInv, Running
<1>2. l.msgNo = no /\ l.standard = lib[p].standard /\ l.noted = lib[p].noted
  BY <1>1 DEF LibraryData
<1>3. /\ lib' = [lib EXCEPT ![p] = m]
      /\ packet' = [packet EXCEPT ![p] = packet[p]]
      /\ sent' = [sent EXCEPT ![p] = Append(sent[p], w)]
  <2>1. packet' = [packet EXCEPT ![p] = packet[p]]
    BY DEF Send, BufferAfter, LibraryInv
  <2>2. sent' = [sent EXCEPT ![p] = Append(sent[p], w)]
    BY <1>1 DEF Send, LibraryInv, LibraryData
  <2>3. lib' = [lib EXCEPT ![p] = m]
    BY <1>1 DEF Send, LibraryInv, Family, LibraryData
  <2> QED BY <2>1, <2>2, <2>3
<1>4. no \in Nat /\ k \in Nat
  <2>1. lib[p].msgNo \in Nat /\ lib[p].noted \in Nat
    BY <1>1 DEF LibraryData
  <2> HIDE DEF no, l
  <2>2. no \in Nat
    BY <2>1 DEF no
  <2> QED BY <1>2, <2>1, <2>2
<1>5. Obeys(m) /\ SameNumbers(m, lib[p])
  <2> HIDE DEF no, k
  <2>1. lib[p] \in LibraryData /\ no \in Nat /\ k \in Nat
    BY <1>1, <1>4
  <2>2. /\ l \in LibraryData /\ l.nextSeed = lib[p].nextSeed /\ l.seed = lib[p].seed
        /\ l.phase = lib[p].phase /\ l.rate = lib[p].rate /\ l.debug = lib[p].debug
        /\ l.standard = lib[p].standard /\ l.port = lib[p].port
    BY <2>1 DEF LibraryData
  <2> HIDE DEF l
  <2>3. /\ m \in LibraryData /\ m.nextSeed = l.nextSeed /\ m.seed = l.seed
        /\ m.phase = l.phase /\ m.rate = l.rate /\ m.debug = l.debug
        /\ m.standard = l.standard /\ m.port = l.port
    BY <2>1, <2>2 DEF LibraryData
  <2> HIDE DEF m
  <2>4. Obeys(m)
    BY <1>1, <2>2, <2>3 DEF Obeys, DropsListed
  <2> QED BY <2>2, <2>3, <2>4 DEF SameNumbers
<1>6. copy \in SUBSET Bytes
  BY DEF LibraryInv, Inverted
<1>7. w \in Accounted
  <2>1. StandardDrops(l.standard, l.msgNo) <=> no \in ToSet(Dropped)
    BY <1>1, <1>2, StandardDropsListed
  <2>2. \A ev \in random : random # {}
    OBVIOUS
  <2>3. w \in Message
    <3> HIDE DEF copy, no, l
    <3> QED BY <1>2, <1>4, <1>6 DEF Message
  <2>4. w.msgNo = no /\ (w.hit <=> random # {}) /\ (w.dropped <=> dropped)
    <3> HIDE DEF l, no, copy
    <3> QED BY <1>2
  <2>5. /\ w.msgNo \in ToSet(Dropped) => w.dropped
        /\ w.dropped => w.hit \/ w.msgNo \in ToSet(Dropped)
    <3> HIDE DEF w, l
    <3> QED BY <2>1, <2>2, <2>4
  <2> QED BY <2>3, <2>5 DEF Accounted
<1> HIDE DEF m, w
<1>8. /\ Family' /\ lib'[p] = m
      /\ \A q \in Procs \ {p} : lib'[q] = lib[q]
  BY <1>1, <1>3, <1>5, FamilyStep DEF SameNumbers
<1>9. Compiled' /\ Seeds'
  BY <1>1, <1>5, <1>8, NumbersSame
<1>10. packet' \in [Procs -> SUBSET Bytes]
  BY <1>3 DEF LibraryInv
<1>11. sent' \in [Procs -> Seq(Accounted)]
  BY <1>3, <1>7 DEF LibraryInv
<1>12. Accounted' = Accounted
  BY <1>1, SameEnvironment
<1> QED BY <1>1, <1>8, <1>9, <1>10, <1>11, <1>12 DEF LibraryInv

LEMMA NextLibrary == LibraryInv /\ [Next]_vars => LibraryInv'
<1> SUFFICES ASSUME LibraryInv, [Next]_vars PROVE LibraryInv'
  OBVIOUS
<1>1. CASE UNCHANGED vars
  <2>1. /\ env' = env /\ args' = args /\ lib' = lib /\ packet' = packet /\ sent' = sent
        /\ Accounted' = Accounted /\ IsSet(env)' = IsSet(env)
    BY <1>1, SameEnvironment DEF vars
  <2>2. Family'
    <3>1. \A p \in Procs : Obeys(lib[p]) => Obeys(lib[p])'
      BY <2>1, SameEnvironment
    <3> QED BY <2>1, <3>1, Zero DEF LibraryInv, Family, Running
  <2>3. Compiled' /\ Seeds'
    BY <2>1 DEF LibraryInv, Compiled, AsAsked, Seeds, SeedsApart, Running
  <2> QED BY <2>1, <2>2, <2>3 DEF LibraryInv
<1>2. CASE sendErr_init
  BY <1>2, StartLibrary
<1>3. CASE bindMod
  BY <1>3, BindLibrary
<1>4. ASSUME NEW c \in Procs \ {0}, forkMod(c), \A b \in 1 .. c - 1 : lib[b].phase # "free"
      PROVE  LibraryInv'
  BY <1>4, ForkLibrary
<1>5. ASSUME NEW p \in Procs, sendto_Err(p) PROVE LibraryInv'
  <2>1. Running(p)
    BY <1>5 DEF sendto_Err, Running
  <2>2. CASE Send(p, {}, 0)
    BY <2>1, <2>2, SendLibrary
  <2>3. ASSUME NEW ev, NEW byte \in Bytes, Send(p, {ev}, byte) PROVE LibraryInv'
    BY <2>1, <2>3, SendLibrary
  <2> QED BY <1>5, <2>2, <2>3 DEF sendto_Err
<1> QED BY <1>1, <1>2, <1>3, <1>4, <1>5 DEF Next

LEMMA LibraryInvariance == Spec => []LibraryInv
BY InitLibrary, NextLibrary, PTL DEF Spec

-----------------------------------------------------------------------------
(***************************************************************************)
(* The library's data keeps its shape, in every process.                   *)
(***************************************************************************)
THEOREM LibraryTypes == Spec => []TypeOK
<1>1. LibraryInv => TypeOK
  <2> SUFFICES ASSUME LibraryInv PROVE TypeOK
    OBVIOUS
  <2>1. sent \in [Procs -> Seq(Message)]
    <3>1. ASSUME NEW p \in Procs PROVE sent[p] \in Seq(Message)
      <4> DEFINE s == sent[p]
      <4>1. s \in Seq(Accounted) /\ Accounted \subseteq Message
        BY DEF LibraryInv, Accounted
      <4> HIDE DEF s
      <4>2. Len(s) \in Nat /\ \A i \in 1 .. Len(s) : s[i] \in Message
        BY <4>1
      <4>3. s = [i \in 1 .. Len(s) |-> s[i]]
        BY <4>1
      <4> QED BY <4>2, <4>3 DEF s
    <3> QED BY <3>1 DEF LibraryInv
  <2>2. ASSUME NEW p \in Procs, Running(p)
        PROVE  /\ lib[p].rate \in Int /\ lib[p].msgNo \in Nat /\ lib[p].noted \in Nat
               /\ lib[p].isSet \in [Keys -> BOOLEAN]
    <3>1. lib[p] \in LibraryData /\ IsSet(env) \in [Keys -> BOOLEAN]
      BY <2>2, RunningObeys, Numbers DEF LibraryInv
    <3> QED BY <3>1 DEF LibraryData
  <2> QED BY <2>1, <2>2 DEF TypeOK, LibraryInv
<1> QED BY <1>1, LibraryInvariance, PTL

(***************************************************************************)
(* What the environment sets, no compiled option, no fork and no send ever *)
(* changes, and the rate and the reports that it leaves open are as main   *)
(* asked in every process (setUserMode_*, loadEnvData, bindMod).           *)
(***************************************************************************)
THEOREM EnvironmentRules == Spec => []EnvironmentPrevails
<1>1. LibraryInv => EnvironmentPrevails
  <2> SUFFICES ASSUME LibraryInv, NEW p \in Procs, Running(p)
               PROVE  LET Defines(key) == env[key] # NotSet /\ Number(env[key]) # Invalid
                      IN  /\ lib[p].rate = IF Defines("ERR_RATE") THEN Number(env["ERR_RATE"])
                                           ELSE args.rate
                          /\ lib[p].debug = IF Defines("DEBUG") THEN Number(env["DEBUG"]) ELSE 1
                          /\ Defines("SEEDRAND") => lib[p].seed = Number(env["SEEDRAND"])
                          /\ Defines("PORT") => lib[p].port \in {NotSet, Number(env["PORT"])}
                          /\ Dropped # << >> => DropAll \notin ToSet(lib[p].random)
                          /\ Flipped # << >> => FlipEvent \notin ToSet(lib[p].random)
    BY DEF EnvironmentPrevails, Dropped, Flipped
  <2>1. Obeys(lib[p]) /\ lib[p] \in LibraryData /\ AsAsked(lib[p])
    BY RunningObeys DEF LibraryInv, Compiled
  <2>2. \A k \in Keys \ ListKeys : IsSet(env)[k] <=> env[k] # NotSet /\ Number(env[k]) # Invalid
    BY DEF IsSet
  <2>3. lib[p].random \in Seq(RandomEvents)
    BY <2>1 DEF LibraryData
  <2>4. DropAll.name # FlipEvent.name
    BY DEF DropAll, DropEvent, FlipEvent
  <2>5. ASSUME Dropped # << >> PROVE DropAll \notin ToSet(lib[p].random)
    <3>1. DropAll \notin RandomEvents
      BY <2>4, <2>5 DEF RandomEvents
    <3> QED BY <2>3, <3>1 DEF ToSet
  <2>6. ASSUME Flipped # << >> PROVE FlipEvent \notin ToSet(lib[p].random)
    <3>1. FlipEvent \notin RandomEvents
      BY <2>4, <2>6 DEF RandomEvents
    <3> QED BY <2>3, <3>1 DEF ToSet
  <2> QED BY <2>1, <2>2, <2>5, <2>6 DEF Obeys, AsAsked, Keys, ListKeys
<1> QED BY <1>1, LibraryInvariance, PTL

(***************************************************************************)
(* The messages listed are dropped, and of the others only what a random   *)
(* event hits, in the program and its children (errorDrop::run).           *)
(***************************************************************************)
THEOREM OnlyListedDrops == Spec => []DropsWhatIsListed
<1>1. LibraryInv => DropsWhatIsListed
  <2> SUFFICES ASSUME LibraryInv, NEW p \in Procs, NEW i \in DOMAIN sent[p]
               PROVE  LET m == sent[p][i]
                      IN  /\ m.msgNo \in ToSet(Dropped) => m.dropped
                          /\ m.dropped => m.hit \/ m.msgNo \in ToSet(Dropped)
    BY DEF DropsWhatIsListed, Dropped
  <2>1. sent[p][i] \in Accounted
    BY DEF LibraryInv
  <2> QED BY <2>1 DEF Accounted
<1> QED BY <1>1, LibraryInvariance, PTL

(***************************************************************************)
(* Unless the environment sets one seed for all, two processes draw the    *)
(* same random numbers only if they are a program with a random seed, as   *)
(* both programs ask for, and its first child (sendErr_init, forkMod).     *)
(***************************************************************************)
THEOREM OwnSeeds == Spec => []SeedsDiffer
<1>1. LibraryInv => SeedsDiffer
  <2> SUFFICES ASSUME LibraryInv, ~IsSet(env)["SEEDRAND"], NEW p \in Procs, NEW q \in Procs,
                      Running(p), Running(q), p < q, lib[p].seed = lib[q].seed
               PROVE  p = 0 /\ q = 1 /\ args.random
    BY DEF SeedsDiffer
  <2>1. SeedsApart(lib, args.random)
    BY RunningObeys DEF LibraryInv, Seeds
  <2> QED BY <2>1 DEF SeedsApart, Running
<1> QED BY <1>1, LibraryInvariance, PTL
=============================================================================
