---------------------------- MODULE ServerProofs ----------------------------
(* Proofs about module Server, for every number of threads. *)
EXTENDS Server, FiniteSetTheorems, TLAPS

(* Only the main thread is ever inside ioContext_.run(), because a posted  *)
(* handler is taken by a thread that is inside it already.                 *)
OnlyMain ==
  /\ depth \in [Threads -> Nat]
  /\ \A t \in Threads \ {Main} : depth[t] = 0
  /\ handling \subseteq {Main}

(* No thread is in run() at the start. *)
LEMMA OnlyMainInit == Init => OnlyMain
BY DEF Init, OnlyMain

(* Posted handlers nest in the main thread and start no other. *)
LEMMA OnlyMainNext == OnlyMain /\ [Next]_vars => OnlyMain'
<1> SUFFICES ASSUME OnlyMain, [Next]_vars PROVE OnlyMain'
  OBVIOUS
<1> USE ServerAssumption
<1>1. CASE Run \/ RunWraps
  BY <1>1 DEF Run, RunWraps, context, OnlyMain
<1>2. CASE HandlerQueued \/ Stop \/ Join \/ UNCHANGED vars
  BY <1>2 DEF HandlerQueued, Stop, Join, vars, context, OnlyMain
<1>7. CASE ParsePair \/ ParseThrows \/ ParseHelp \/ ParseEnds
  BY <1>7 DEF ParsePair, ParseThrows, ParseHelp, ParseEnds, context, OnlyMain
<1>3. ASSUME NEW t \in Threads, NestedRun(t) PROVE OnlyMain'
  <2>1. t = Main
    BY <1>3 DEF NestedRun, TakesPosted, InRun, OnlyMain
  <2> QED
    BY <1>3, <2>1 DEF NestedRun, OnlyMain
<1>4. ASSUME NEW t \in Threads, HandlerBegins(t) PROVE OnlyMain'
  <2>1. t = Main
    BY <1>4 DEF HandlerBegins, InRun, OnlyMain
  <2> QED
    BY <1>4, <2>1 DEF HandlerBegins, OnlyMain
<1>5. ASSUME NEW t \in Threads, HandlerEnds(t) PROVE OnlyMain'
  BY <1>5 DEF HandlerEnds, OnlyMain
<1>6. ASSUME NEW t \in Threads, RunReturns(t) PROVE OnlyMain'
  <2>1. t = Main
    BY <1>6 DEF RunReturns, OnlyMain
  <2> QED
    BY <1>6, <2>1 DEF RunReturns, OnlyMain
<1> QED
  BY <1>1, <1>2, <1>3, <1>4, <1>5, <1>6, <1>7 DEF Next

(* Handlers never run in parallel, whatever --threads says: one step of    *)
(* modules Lobby, Writer and Connections is not interrupted by another.    *)
THEOREM HandlersDoNotOverlap == Spec => []OneHandlerAtATime
<1>1. OnlyMain => OneHandlerAtATime
  <2> SUFFICES ASSUME OnlyMain PROVE Cardinality(handling) <= 1
    BY DEF OneHandlerAtATime
  <2>1. IsFiniteSet({Main}) /\ Cardinality({Main}) = 1
    BY FS_Singleton
  <2>2. Cardinality(handling) <= Cardinality({Main})
    BY <2>1, FS_Subset DEF OnlyMain
  <2> QED
    BY <2>1, <2>2
<1> QED
  BY <1>1, OnlyMainInit, OnlyMainNext, PTL DEF Spec

-----------------------------------------------------------------------------
(* The options, for every command line. *)

(* What is left of a command line is a sequence of arguments. *)
ArgsInv == cores \in CoreCounts /\ args \in Seq(Words) /\ OptionsInRange

(* A number of cores is a natural number, and may be 0. *)
LEMMA CoresAreNat == cores \in CoreCounts => cores \in Nat /\ cores < IntLimit
BY ServerAssumption

(* What the three tests of ParseCommandLineArguments let through, for      *)
(* every number std::stoi returns, negative ones included.                 *)
LEMMA ValuesInRange ==
  ASSUME cores \in CoreCounts, NEW n \in Int, n < IntLimit, n >= -IntLimit
  PROVE  /\ PortOf(n) > 1024 /\ PortOf(n) < 65536
         /\ ConnectionsOf(n) >= 1 /\ ConnectionsOf(n) < SizeLimit
         /\ ThreadsOf(n) <= cores /\ (ThreadsOf(n) = 0 <=> cores = 0)
<1> USE ServerAssumption
<1>1. ToSize(n) \in Nat /\ ToSize(n) < SizeLimit
  BY DEF ToSize
<1>2. ToUint16(n) \in Nat /\ ToUint16(n) < 65536
  BY DEF ToUint16
<1>3. PortOf(n) > 1024 /\ PortOf(n) < 65536
  BY <1>2 DEF PortOf
<1>4. ConnectionsOf(n) >= 1 /\ ConnectionsOf(n) < SizeLimit
  BY <1>1 DEF ConnectionsOf
<1>5. ThreadsOf(n) <= cores /\ (ThreadsOf(n) = 0 <=> cores = 0)
  BY <1>1, CoresAreNat DEF ThreadsOf
<1> QED
  BY <1>3, <1>4, <1>5

(* One pair of arguments keeps every option in its range. *)
LEMMA PairKeepsRange == ArgsInv /\ ParsePair => ArgsInv'
<1> SUFFICES ASSUME ArgsInv, ParsePair PROVE ArgsInv'
  OBVIOUS
<1>1. args \in Seq(Words) /\ Len(args) >= 2
  BY DEF ArgsInv, ParsePair
<1>2. args[1] \in Words /\ args[2] \in Words /\ Tail(args) \in Seq(Words)
  BY <1>1
<1>3. args[1].is \in {"-p", "-c", "-t"} =>
        args[2].value \in Int /\ args[2].value < IntLimit /\ args[2].value >= -IntLimit
  BY <1>2, ServerAssumption DEF ParsePair, StoiThrows, Words
<1>4. port' > 1024 /\ port' < 65536
  BY <1>3, ValuesInRange DEF ParsePair, ArgsInv, OptionsInRange
<1>5. maxConnections' >= 1 /\ maxConnections' < SizeLimit
  BY <1>3, ValuesInRange DEF ParsePair, ArgsInv, OptionsInRange
<1>6. maxThreads' <= cores' /\ (maxThreads' = 0 <=> cores' = 0)
  BY <1>3, ValuesInRange DEF ParsePair, ArgsInv, OptionsInRange
<1> QED
  BY <1>2, <1>4, <1>5, <1>6 DEF ParsePair, ArgsInv, OptionsInRange

(* The defaults are in range. *)
LEMMA ArgsInvInit == Init => ArgsInv
BY ServerAssumption, CoresAreNat DEF Init, ArgsInv, OptionsInRange

(* Only the parser writes the options. *)
LEMMA ArgsInvNext == ArgsInv /\ [Next]_vars => ArgsInv'
<1> SUFFICES ASSUME ArgsInv, [Next]_vars PROVE ArgsInv'
  OBVIOUS
<1>1. CASE ParsePair
  BY <1>1, PairKeepsRange
<1>2. CASE ParseEnds
  BY <1>2 DEF ParseEnds, options, ArgsInv, OptionsInRange
<1>3. CASE UNCHANGED <<args, options>>
  BY <1>3 DEF options, ArgsInv, OptionsInRange
<1>4. ParsePair \/ ParseEnds \/ UNCHANGED <<args, options>>
  BY DEF Next, ParseThrows, ParseHelp, Run, RunWraps, HandlerQueued, Stop, Join, NestedRun,
         HandlerBegins, HandlerEnds, RunReturns, vars
<1> QED
  BY <1>1, <1>2, <1>3, <1>4

(* For every command line and every number of cores, 0 included, the       *)
(* server is started with a usable port, at least one connection and at    *)
(* most one thread per core, and threadCount - 1 in Server::run wraps on   *)
(* no machine but one whose hardware_concurrency() is 0.                   *)
THEOREM OptionsAreSafe == Spec => []OptionsInRange
<1>1. ArgsInv => OptionsInRange
  BY DEF ArgsInv
<1> QED
  BY <1>1, ArgsInvInit, ArgsInvNext, PTL DEF Spec

-----------------------------------------------------------------------------
(* How deep the calls of run() nest. *)

(* The posted calls and the ones the main thread is in are never more than *)
(* the threads asked for: a posted call is one level once it is executed.  *)
Nesting ==
  /\ posted \in Nat /\ posted + depth[Main] <= maxThreads
  /\ pc = "parsing" => posted = 0 /\ depth[Main] = 0

(* The parts of the type invariant the nesting does not bear on. *)
PlainTypes ==
  /\ pc \in {"parsing", "helped", "failed", "start", "running", "exited"}
  /\ port \in Nat /\ maxConnections \in Nat /\ maxThreads \in Nat
  /\ ready \in 0 .. MaxReady
  /\ stopped \in BOOLEAN

IInv == ArgsInv /\ OnlyMain /\ Nesting /\ PlainTypes

(* Numbers std::stoi returns are turned into natural numbers. *)
LEMMA ValuesAreNat ==
  ASSUME cores \in CoreCounts, NEW n \in Int, n >= -IntLimit
  PROVE  PortOf(n) \in Nat /\ ConnectionsOf(n) \in Nat /\ ThreadsOf(n) \in Nat
<1> USE ServerAssumption
<1>1. ToUint16(n) \in Nat
  BY DEF ToUint16
<1>2. ToSize(n) \in Nat
  BY DEF ToSize
<1>3. PortOf(n) \in Nat
  BY <1>1 DEF PortOf
<1>4. ConnectionsOf(n) \in Nat
  BY <1>2 DEF ConnectionsOf
<1>5. ThreadsOf(n) \in Nat
  BY <1>2, CoresAreNat DEF ThreadsOf
<1> QED
  BY <1>3, <1>4, <1>5

(* The program starts with nothing posted. *)
LEMMA IInvInit == Init => IInv
<1> SUFFICES ASSUME Init PROVE IInv
  OBVIOUS
<1>1. Nesting
  BY ServerAssumption, CoresAreNat DEF Init, Nesting
<1>2. cores \in Nat /\ 0 \in 0 .. MaxReady
  BY ServerAssumption, CoresAreNat DEF Init
<1>3. PlainTypes
  <2>1. /\ pc = "parsing" /\ ready = 0 /\ stopped = FALSE
        /\ port = 17000 /\ maxConnections = 10000 /\ maxThreads = cores
    BY DEF Init
  <2>2. port \in Nat /\ maxConnections \in Nat /\ maxThreads \in Nat
    BY <1>2, <2>1
  <2>3. ready \in 0 .. MaxReady
    BY <1>2, <2>1
  <2>4. stopped \in BOOLEAN
    <3>1. stopped = FALSE
      BY DEF Init
    <3> QED
      BY <3>1, Zenon
  <2> QED
    BY <2>1, <2>2, <2>3, <2>4 DEF PlainTypes
<1> QED
  BY <1>1, <1>3, ArgsInvInit, OnlyMainInit DEF IInv

(* The steps of the parser: nothing is posted yet. *)
LEMMA ParserNests ==
  ASSUME IInv, ParsePair \/ ParseThrows \/ ParseHelp \/ ParseEnds
  PROVE  Nesting' /\ PlainTypes'
<1>1. UNCHANGED context
  BY DEF ParsePair, ParseThrows, ParseHelp, ParseEnds
<1>2. posted = 0 /\ depth[Main] = 0
  BY DEF ParsePair, ParseThrows, ParseHelp, ParseEnds, IInv, Nesting
<1>3. pc' \in {"parsing", "helped", "failed", "start"}
  BY DEF ParsePair, ParseThrows, ParseHelp, ParseEnds
<1>4. port' \in Nat /\ maxConnections' \in Nat /\ maxThreads' \in Nat
  <2>1. CASE ParsePair
    <3>1. args \in Seq(Words) /\ Len(args) >= 2
      BY <2>1 DEF IInv, ArgsInv, ParsePair
    <3>2. args[2] \in Words
      BY <3>1
    <3>3. args[1].is \in {"-p", "-c", "-t"} =>
            args[2].value \in Int /\ args[2].value >= -IntLimit
      BY <2>1, <3>2, ServerAssumption DEF ParsePair, StoiThrows, Words
    <3> QED
      BY <2>1, <3>3, ValuesAreNat DEF ParsePair, IInv, ArgsInv, PlainTypes
  <2>2. CASE ~ ParsePair
    BY <2>2 DEF ParseThrows, ParseHelp, ParseEnds, options, IInv, PlainTypes
  <2> QED
    BY <2>1, <2>2
<1> QED
  BY <1>1, <1>2, <1>3, <1>4 DEF context, Nesting, IInv, PlainTypes

(* The main thread is the one more than threadCount - 1. *)
LEMMA RunNests ==
  ASSUME IInv, Run
  PROVE  Nesting' /\ PlainTypes'
<1>1. maxThreads \in Nat /\ maxThreads >= 1
  BY DEF Run, IInv, PlainTypes
<1>2. depth'[Main] = 1 /\ posted' = maxThreads - 1 /\ maxThreads' = maxThreads
  BY ServerAssumption DEF Run, options, IInv, OnlyMain
<1> QED
  BY <1>1, <1>2, ServerAssumption DEF Run, options, IInv, Nesting, PlainTypes

(* A posted call that is executed becomes a level of the main thread. *)
LEMMA ThreadNests ==
  ASSUME IInv, NEW t \in Threads,
         NestedRun(t) \/ HandlerBegins(t) \/ HandlerEnds(t) \/ RunReturns(t)
  PROVE  Nesting' /\ PlainTypes'
<1>1. depth[Main] \in Nat /\ posted \in Nat /\ maxThreads \in Nat
  BY ServerAssumption DEF IInv, OnlyMain, Nesting, PlainTypes
<1>2. UNCHANGED <<pc, options, stopped>>
  BY DEF NestedRun, HandlerBegins, HandlerEnds, RunReturns
<1>3. posted' \in Nat /\ posted' + depth'[Main] <= posted + depth[Main]
  <2>1. CASE NestedRun(t)
    <3>1. t = Main
      BY <2>1 DEF NestedRun, TakesPosted, InRun, IInv, OnlyMain
    <3> QED
      BY <1>1, <2>1, <3>1, ServerAssumption DEF NestedRun, IInv, OnlyMain
  <2>2. CASE RunReturns(t)
    BY <1>1, <2>2, ServerAssumption DEF RunReturns, IInv, OnlyMain
  <2>3. CASE HandlerBegins(t) \/ HandlerEnds(t)
    BY <1>1, <2>3 DEF HandlerBegins, HandlerEnds
  <2> QED
    BY <2>1, <2>2, <2>3
<1>4. depth'[Main] \in Nat
  <2>1. [Next]_vars
    BY DEF Next
  <2> QED
    BY <2>1, OnlyMainNext, ServerAssumption DEF IInv, OnlyMain
<1>5. Nesting'
  BY <1>1, <1>2, <1>3, <1>4 DEF options, IInv, Nesting
<1>6. ready' \in 0 .. MaxReady
  <2>1. ready \in 0 .. MaxReady /\ MaxReady \in Nat
    BY ServerAssumption DEF IInv, PlainTypes
  <2>2. ready' = ready \/ (ready > 0 /\ ready' = ready - 1)
    BY DEF NestedRun, HandlerBegins, HandlerEnds, RunReturns
  <2> QED
    BY <2>1, <2>2
<1> QED
  BY <1>2, <1>5, <1>6 DEF options, IInv, PlainTypes

(* The other steps: the thread count wraps, a handler is queued, a signal  *)
(* comes, run() has unwound.                                               *)
LEMMA OtherNests ==
  ASSUME IInv, RunWraps \/ HandlerQueued \/ Stop \/ Join \/ UNCHANGED vars
  PROVE  Nesting' /\ PlainTypes'
<1>1. UNCHANGED <<options, posted, depth>>
  BY DEF RunWraps, HandlerQueued, Stop, Join, vars, context
<1>2. pc' = pc \/ pc' \in {"failed", "exited"}
  BY DEF RunWraps, HandlerQueued, Stop, Join, vars
<1>3. stopped' \in BOOLEAN
  BY DEF RunWraps, HandlerQueued, Stop, Join, vars, context, IInv, PlainTypes
<1>4. ready' \in 0 .. MaxReady
  <2>1. ready \in 0 .. MaxReady /\ MaxReady \in Nat
    BY ServerAssumption DEF IInv, PlainTypes
  <2>2. ready' = ready \/ (ready < MaxReady /\ ready' = ready + 1)
    BY DEF RunWraps, HandlerQueued, Stop, Join, vars, context
  <2> QED
    BY <2>1, <2>2
<1> QED
  BY <1>1, <1>2, <1>3, <1>4 DEF options, IInv, Nesting, PlainTypes

(* Every step keeps the invariant. *)
LEMMA IInvNext == IInv /\ [Next]_vars => IInv'
<1> SUFFICES ASSUME IInv, [Next]_vars PROVE IInv'
  OBVIOUS
<1>1. Nesting' /\ PlainTypes'
  BY ParserNests, RunNests, ThreadNests, OtherNests DEF Next
<1> QED
  BY <1>1, ArgsInvNext, OnlyMainNext DEF IInv

(* Type correctness: for every command line the calls of run() nest at     *)
(* most as deep as there are cores.                                        *)
THEOREM ServerTypeCorrect == Spec => []TypeOK
<1>1. IInv => TypeOK
  <2> SUFFICES ASSUME IInv PROVE TypeOK
    OBVIOUS
  <2>1. depth[Main] \in Nat /\ maxThreads \in Nat /\ maxThreads <= cores /\ cores \in Nat
    BY ServerAssumption, CoresAreNat DEF IInv, OnlyMain, PlainTypes, ArgsInv, OptionsInRange
  <2>2. posted \in 0 .. cores /\ depth[Main] \in 0 .. cores
    BY <2>1, ServerAssumption DEF IInv, Nesting
  <2>3. depth \in [Threads -> 0 .. cores]
    <3>1. \A t \in Threads : depth[t] \in 0 .. cores
      BY <2>1, <2>2, ServerAssumption DEF IInv, OnlyMain
    <3> QED
      BY <3>1 DEF IInv, OnlyMain
  <2>4. handling \subseteq Threads
    BY ServerAssumption DEF IInv, OnlyMain
  <2> QED
    BY <2>2, <2>3, <2>4 DEF IInv, PlainTypes, ArgsInv, TypeOK
<1> QED
  BY <1>1, IInvInit, IInvNext, PTL DEF Spec

=============================================================================
