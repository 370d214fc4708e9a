------------------------------- MODULE Server -------------------------------
(***************************************************************************)
(* The program: main with its command line, then which threads run the     *)
(* handlers: Server::run and Server::stop.                                 *)
(*                                                                         *)
(* run posts threadCount - 1 times a handler that calls ioContext_.run(),  *)
(* and it posts them to ioContext_ itself.  A posted handler is executed   *)
(* by a thread that is inside ioContext_.run() already, which is the main  *)
(* thread: each one nests another run() in it, and the threads of          *)
(* threadPool_ never enter the io_context.                                 *)
(***************************************************************************)
EXTENDS Integers, FiniteSets, Sequences

CONSTANTS
  CommandLines, \* the argument vectors main is called with
  CoreCounts,   \* what std::thread::hardware_concurrency() may return, 0 included
  IntLimit,     \* 2^31: std::stoi throws out_of_range from here on
  SizeLimit,    \* 2^64: size_t counts modulo this
  Threads,      \* the main thread and the threads of threadPool_
  Main,
  MaxReady      \* bound: other handlers queued at a time

(* An argument: one of the options (in its short or long form), a number,  *)
(* or any other text.  value counts for numbers only.                      *)
Words == [is : {"-p", "-c", "-t", "-h", "number", "text"}, value : Int]

ASSUME ServerAssumption ==
  /\ CommandLines \subseteq Seq(Words)
  /\ CoreCounts \subseteq Nat /\ \A count \in CoreCounts : count < IntLimit
  /\ IntLimit \in Nat /\ SizeLimit \in Nat /\ 65536 <= IntLimit /\ 2 * IntLimit <= SizeLimit
  /\ IsFiniteSet(Threads) /\ Main \in Threads
  /\ MaxReady \in Nat \ {0}

VARIABLES
  pc,          \* where main is
  cores,       \* std::thread::hardware_concurrency() of this machine
  args,        \* the arguments not yet looked at
  port, maxConnections, maxThreads,
  posted,      \* posted ioContext_.run() handlers not yet executed
  ready,       \* other handlers queued: accepts, receives, timers, spawns
  depth,       \* thread -> calls of ioContext_.run() it is in
  handling,    \* threads executing one of the other handlers
  stopped      \* ioContext_.stop() and threadPool_.stop() were called

options == <<cores, port, maxConnections, maxThreads>>
context == <<posted, ready, depth, handling, stopped>>
vars == <<pc, args, options, context>>

-----------------------------------------------------------------------------
(* ParseCommandLineArguments slides a window of two arguments over argv:   *)
(* the last one is never the first of a pair.                              *)

StoiThrows(w) == w.is # "number" \/ w.value >= IntLimit \/ w.value < -IntLimit

(* The conversions of an int to uint16_t and to size_t. *)
ToUint16(n) == n % 65536
ToSize(n) == IF n < 0 THEN SizeLimit + n ELSE n

PortOf(n) == IF ToUint16(n) <= 1024 THEN 17000 ELSE ToUint16(n)
ConnectionsOf(n) == IF ToSize(n) < 1 THEN 1000 ELSE ToSize(n)

(* A variant that only caps the number. *)
ThreadsOfCapped(n) == IF ToSize(n) > cores THEN cores ELSE ToSize(n)

ThreadsOf(n) == IF ToSize(n) < 1 \/ ToSize(n) > cores THEN cores ELSE ToSize(n)

(* The pair (args[1], args[2]) holds an option and its value, or args[1]   *)
(* is no option and is skipped.                                            *)
ParsePair ==
  /\ pc = "parsing" /\ Len(args) >= 2
  /\ args[1].is # "-h"
  /\ args[1].is \in {"-p", "-c", "-t"} => ~ StoiThrows(args[2])
  /\ port' = IF args[1].is = "-p" THEN PortOf(args[2].value) ELSE port
  /\ maxConnections' = IF args[1].is = "-c" THEN ConnectionsOf(args[2].value)
                                            ELSE maxConnections
  /\ maxThreads' = IF args[1].is = "-t" THEN ThreadsOf(args[2].value) ELSE maxThreads
  /\ args' = Tail(args)
  /\ UNCHANGED <<pc, cores, context>>

(* std::stoi throws and main returns 1. *)
ParseThrows ==
  /\ pc = "parsing" /\ Len(args) >= 2
  /\ args[1].is \in {"-p", "-c", "-t"} /\ StoiThrows(args[2])
  /\ pc' = "failed"
  /\ UNCHANGED <<args, options, context>>

(* --help, with an argument after it: main returns 0. *)
ParseHelp ==
  /\ pc = "parsing" /\ Len(args) >= 2
  /\ args[1].is = "-h"
  /\ pc' = "helped"
  /\ UNCHANGED <<args, options, context>>

(* The window reached the end: main constructs the Server. *)
ParseEnds ==
  /\ pc = "parsing" /\ Len(args) < 2
  /\ pc' = "start"
  /\ args' = <<>>
  /\ UNCHANGED <<options, context>>

-----------------------------------------------------------------------------
(* A variant whose loop runs threadCount times. *)
RunPostsOneMore ==
  /\ pc = "start" /\ maxThreads # 0
  /\ posted' = maxThreads
  /\ ready' = 1
  /\ depth' = [depth EXCEPT ![Main] = 1]
  /\ pc' = "running"
  /\ UNCHANGED <<args, options, handling, stopped>>

(* Server::run up to ioContext_.run(): the listener is spawned. *)
Run ==
  /\ pc = "start" /\ maxThreads # 0
  /\ posted' = maxThreads - 1
  /\ ready' = 1
  /\ depth' = [depth EXCEPT ![Main] = 1]
  /\ pc' = "running"
  /\ UNCHANGED <<args, options, handling, stopped>>

(* threadCount - 1 wraps: the loop posts calls until the memory is used up *)
(* and nobody is ever served.                                              *)
RunWraps ==
  /\ pc = "start" /\ maxThreads = 0
  /\ pc' = "failed"
  /\ UNCHANGED <<args, options, context>>

(* Who may take a handler from the queue of ioContext_. *)
InRun(t) == depth[t] > 0 /\ t \notin handling /\ ~ stopped

(* Who executes post(ioContext_, ...): a thread of its run().  With        *)
(* post(threadPool_, ...) it would be any thread.                          *)
TakesPostedByPool(t) == pc = "running" /\ t \notin handling /\ ~ stopped
TakesPosted(t) == InRun(t)

NestedRun(t) ==
  /\ posted > 0
  /\ TakesPosted(t)
  /\ posted' = posted - 1
  /\ depth' = [depth EXCEPT ![t] = @ + 1]
  /\ UNCHANGED <<pc, args, options, ready, handling, stopped>>

HandlerQueued ==
  /\ pc = "running" /\ ready < MaxReady
  /\ ready' = ready + 1
  /\ UNCHANGED <<pc, args, options, posted, depth, handling, stopped>>

HandlerBegins(t) ==
  /\ ready > 0
  /\ InRun(t)
  /\ ready' = ready - 1
  /\ handling' = handling \cup {t}
  /\ UNCHANGED <<pc, args, options, posted, depth, stopped>>

HandlerEnds(t) ==
  /\ t \in handling
  /\ handling' = handling \ {t}
  /\ UNCHANGED <<pc, args, options, posted, ready, depth, stopped>>

(* SIGINT or SIGTERM: the handler of signals_ calls stop(). *)
Stop ==
  /\ \E t \in Threads : InRun(t)
  /\ stopped' = TRUE
  /\ UNCHANGED <<pc, args, options, posted, ready, depth, handling>>

(* The innermost run() returns once the io_context is stopped. *)
RunReturns(t) ==
  /\ depth[t] > 0 /\ t \notin handling /\ stopped
  /\ depth' = [depth EXCEPT ![t] = @ - 1]
  /\ UNCHANGED <<pc, args, options, posted, ready, handling, stopped>>

(* A variant that waits for the posted calls, as join() does for a pool    *)
(* they were posted to and that stop() does not stop.                      *)
JoinWaitsForPosted ==
  /\ pc = "running" /\ depth[Main] = 0 /\ stopped /\ posted = 0
  /\ \A t \in Threads \ {Main} : depth[t] = 0
  /\ pc' = "exited"
  /\ UNCHANGED <<args, options, context>>

(* threadPool_.join(): the pool is stopped and has no work. *)
Join ==
  /\ pc = "running" /\ depth[Main] = 0 /\ stopped
  /\ \A t \in Threads \ {Main} : depth[t] = 0
  /\ pc' = "exited"
  /\ UNCHANGED <<args, options, context>>

Init ==
  /\ pc = "parsing"
  /\ args \in CommandLines
  /\ cores \in CoreCounts
  /\ port = 17000 /\ maxConnections = 10000 /\ maxThreads = cores
  /\ posted = 0 /\ ready = 0
  /\ depth = [t \in Threads |-> 0]
  /\ handling = {}
  /\ stopped = FALSE

Next ==
  \/ ParsePair \/ ParseThrows \/ ParseHelp \/ ParseEnds
  \/ Run \/ RunWraps \/ HandlerQueued \/ Stop \/ Join
  \/ \E t \in Threads :
       NestedRun(t) \/ HandlerBegins(t) \/ HandlerEnds(t) \/ RunReturns(t)

(* A thread inside run() goes on taking handlers and ending them; a signal *)
(* need not come.  Strong fairness of NestedRun: the queue is served in    *)
(* order, so the posted handlers get their turn between the others.        *)
Fairness ==
  /\ WF_vars(ParsePair \/ ParseThrows \/ ParseHelp \/ ParseEnds)
  /\ WF_vars(Run \/ RunWraps) /\ WF_vars(Join)
  /\ \A t \in Threads :
       /\ WF_vars(HandlerEnds(t)) /\ WF_vars(RunReturns(t))
       /\ SF_vars(NestedRun(t))

Spec == Init /\ [][Next]_vars /\ Fairness

-----------------------------------------------------------------------------
TypeOK ==
  /\ pc \in {"parsing", "helped", "failed", "start", "running", "exited"}
  /\ cores \in CoreCounts
  /\ args \in Seq(Words)
  /\ port \in Nat /\ maxConnections \in Nat /\ maxThreads \in Nat
  /\ posted \in 0 .. cores
  /\ ready \in 0 .. MaxReady
  /\ depth \in [Threads -> 0 .. cores]
  /\ handling \subseteq Threads
  /\ stopped \in BOOLEAN

(* Whatever the command line, the server starts with a port above 1024,    *)
(* room for a connection and at most one thread per core.  The command     *)
(* line never makes the thread count 0, which run decreases by one: it is  *)
(* 0 where hardware_concurrency() is 0 and only there, because main takes  *)
(* that number as it is (the constructor of Server takes at least 1).      *)
OptionsInRange ==
  /\ port > 1024 /\ port < 65536
  /\ maxConnections >= 1 /\ maxConnections < SizeLimit
  /\ maxThreads <= cores /\ (maxThreads = 0 <=> cores = 0)

(* At most one handler runs at a time, for every value of --threads: the   *)
(* steps of the other modules, which run from one co_await to the next,    *)
(* are atomic.                                                             *)
OneHandlerAtATime == Cardinality(handling) <= 1

(* After stop() all the nested calls of run() unwind and Server::run       *)
(* returns.                                                                *)
StopEnds == stopped ~> pc = "exited"

(* "Multithreaded architecture" (README), "Run the io_context on the main  *)
(* thread as well" (Server::run): as many threads as asked for serve the   *)
(* clients.                                                                *)
AllThreadsServe ==
  <>(\/ pc \in {"helped", "failed"} \/ stopped
     \/ Cardinality({t \in Threads : depth[t] > 0}) = maxThreads)

=============================================================================
