---------------------------- MODULE ProcessProofs ----------------------------
(***************************************************************************)
(* The safety properties of Process, for any number of calls, loops and    *)
(* connections: a call that is cut off, or finds the pool closed, had its  *)
(* time, or met a failed server, or a signal that came before main waited  *)
(* for it. And main never waits for what has already happened, or for what *)
(* nobody was told to do.                                                  *)
(***************************************************************************)
EXTENDS Process, FiniteSetTheorems, TLAPS

\* The pool's part: connections are counted.
Pool ==
  /\ using \subseteq Calls \union Loops /\ IsFiniteSet(using)
  /\ Cardinality(using) <= PoolSize

\* The rest of the type invariant.
Shape ==
  /\ main \in {"starting", "select", "draining", "http", "closing", "exited"}
  /\ grpc \in {"serving", "graceful", "stopped"}
  /\ http \in {"serving", "shutting", "returned"}
  /\ call \in [Calls -> {"none", "running", "replied", "cut"}]
  /\ loop \in [Loops -> {"waiting", "ended"}]
  /\ expired \subseteq Servers /\ failed \subseteq Servers
  /\ signalled \in BOOLEAN /\ early \in BOOLEAN
  /\ main = "http" => grpc = "stopped"

\* A stopped gRPC server has no call left, and an HTTP server that returned in
\* time has none.
Quit ==
  /\ grpc = "stopped" => Running(RPCs) = {}
  /\ http = "returned" => Running(Pages) = {} \/ "http" \in expired

\* main comes to "closing" by the way of both servers, unless one failed or the
\* signal was early; only a signal makes the HTTP server leave. The exit leaves no
\* call running.
Path ==
  /\ main = "closing" => failed # {} \/ early \/ (grpc = "stopped" /\ http = "returned")
  /\ signalled /\ main = "starting" => early
  /\ http # "serving" => signalled
  /\ early => signalled
  /\ main = "exited" => Running(Calls) = {} /\ (signalled \/ failed # {})

IInv == Shape /\ Pool /\ Quit /\ Path /\ Drained

-----------------------------------------------------------------------------
(* The pool *)

\* A step that leaves the connections alone.
LEMMA PoolSame == Pool /\ UNCHANGED using => Pool'
BY DEF Pool

\* Taking a free connection stays within the pool.
LEMMA PoolTake ==
  ASSUME Pool, NEW u \in Calls \union Loops, u \notin using, Cardinality(using) < PoolSize,
         using' = using \union {u}
  PROVE  Pool'
<1>1. /\ IsFiniteSet(using') /\ Cardinality(using') = Cardinality(using) + 1
      /\ Cardinality(using) \in Nat
  BY FS_AddElement, FS_CardinalityType DEF Pool
<1>2. PoolSize \in Nat
  BY ProcessAssumption
<1>3. Cardinality(using') <= PoolSize
  BY <1>1, <1>2
<1> QED
  BY <1>1, <1>3 DEF Pool

\* Giving one back does too.
LEMMA PoolGive ==
  ASSUME Pool, NEW u, using' = using \ {u}
  PROVE  Pool'
<1>1. IsFiniteSet(using') /\ Cardinality(using') <= Cardinality(using)
      /\ Cardinality(using') \in Nat /\ Cardinality(using) \in Nat
  BY FS_Subset, FS_CardinalityType DEF Pool
<1>2. PoolSize \in Nat
  BY ProcessAssumption
<1>3. Cardinality(using') <= PoolSize
  BY <1>1, <1>2 DEF Pool
<1> QED
  BY <1>1, <1>3 DEF Pool

-----------------------------------------------------------------------------
(* Steps *)

\* Steps of a call: none starts on a server that has left.
LEMMA CallStep ==
  ASSUME IInv, NEW c \in Calls, Accept(c) \/ Acquire(c) \/ ReplyTo(c)
  PROVE  IInv'
<1> USE DEF IInv
<1>1. UNCHANGED <<main, signalled, early, grpc, http, expired, failed, loop>>
  BY DEF Accept, Acquire, ReplyTo
<1>2. Pool'
  <2>1. CASE UNCHANGED using
    BY <1>1, <2>1, PoolSame
  <2>2. CASE Acquire(c)
    BY <2>2, PoolTake DEF Acquire
  <2> QED
    BY <2>1, <2>2 DEF Accept, ReplyTo
<1>3. Shape'
  BY <1>1 DEF Shape, Accept, Acquire, ReplyTo
<1>4. Path'
  <2>1. \A d \in Running(Calls)' : d \in Running(Calls) \/ main # "exited"
    BY DEF Accept, Acquire, ReplyTo, Running, Alive, Shape
  <2> QED
    BY <1>1, <2>1 DEF Path
<1>5. CASE Accept(c)
  <2>1. /\ \A d \in Calls \ {c} : call'[d] = call[d]
        /\ call'[c] = "running" /\ call[c] = "none"
        /\ c \in RPCs => grpc = "serving"
        /\ c \notin RPCs => http = "serving"
    BY <1>5 DEF Accept, Shape
  <2>2. Quit'
    BY <1>1, <2>1, ProcessAssumption DEF Quit, Running, Calls
  <2>3. Drained'
    BY <1>1, <2>1 DEF Drained
  <2> QED
    BY <1>2, <1>3, <1>4, <2>2, <2>3
<1>6. CASE Acquire(c) \/ ReplyTo(c)
  <2>1. \A d \in Calls : call'[d] = call[d] \/ call'[d] = "replied"
    BY <1>6 DEF Acquire, ReplyTo, Shape
  <2>2. Quit'
    BY <1>1, <2>1 DEF Quit, Running, Calls
  <2>3. Drained'
    BY <1>1, <2>1 DEF Drained
  <2> QED
    BY <1>2, <1>3, <1>4, <2>2, <2>3
<1> QED
  BY <1>5, <1>6

\* Statements of calls that end, and the background loops.
LEMMA LoopStep ==
  ASSUME IInv, \/ \E u \in Calls \union Loops : Release(u)
               \/ \E l \in Loops : LoopTick(l) \/ LoopEnds(l)
  PROVE  IInv'
<1> USE DEF IInv
<1>1. UNCHANGED <<main, signalled, early, grpc, http, expired, failed, call>>
  BY DEF Release, LoopTick, LoopEnds
<1>2. Shape'
  BY <1>1 DEF Shape, Release, LoopTick, LoopEnds
<1>3. Path' /\ Quit' /\ Drained'
  BY <1>1 DEF Path, Quit, Running, Drained
<1>4. Pool'
  <2>1. ASSUME NEW u \in Calls \union Loops, Release(u) PROVE Pool'
    BY <2>1, PoolGive DEF Release
  <2>2. ASSUME NEW l \in Loops, LoopTick(l) PROVE Pool'
    BY <2>2, PoolTake DEF LoopTick
  <2>3. ASSUME NEW l \in Loops, LoopEnds(l) PROVE Pool'
    BY <1>1, <2>3, PoolSame DEF LoopEnds
  <2> QED
    BY <2>1, <2>2, <2>3
<1> QED
  BY <1>2, <1>3, <1>4

\* Servers that drain, time out, fail or return.
LEMMA ServerStep ==
  ASSUME IInv, \/ \E s \in Servers : Expire(s) \/ ServerFails(s)
               \/ GracefulDone \/ ShutdownHTTP \/ ReturnHTTP
  PROVE  IInv'
<1> USE DEF IInv
<1>1. UNCHANGED <<call, loop, using, signalled, early>>
  BY DEF Expire, ServerFails, GracefulDone, ShutdownHTTP, ReturnHTTP
<1>2. Pool'
  BY <1>1, PoolSame DEF Expire, ServerFails, GracefulDone, ShutdownHTTP, ReturnHTTP
<1>3. ASSUME NEW s \in Servers, Expire(s) PROVE IInv'
  <2>1. /\ UNCHANGED <<main, grpc, http, failed>> /\ expired \subseteq expired'
        /\ expired' \subseteq Servers
    BY <1>3 DEF Expire, Shape
  <2> QED
    BY <1>1, <1>2, <2>1 DEF Shape, Quit, Running, Path, Drained
<1>4. ASSUME NEW s \in Servers, ServerFails(s) PROVE IInv'
  <2>1. /\ UNCHANGED <<grpc, http, expired>> /\ failed' # {} /\ failed' \subseteq Servers
        /\ main' = IF main = "select" THEN "closing" ELSE main
    BY <1>4 DEF ServerFails, Shape
  <2> QED
    BY <1>1, <1>2, <2>1 DEF Shape, Quit, Running, Path, Drained
<1>5. CASE GracefulDone
  <2>1. /\ UNCHANGED <<main, http, expired, failed>> /\ grpc' = "stopped" /\ Running(RPCs) = {}
    BY <1>5 DEF GracefulDone
  <2> QED
    BY <1>1, <1>2, <2>1 DEF Shape, Quit, Running, Path, Drained
<1>6. CASE ShutdownHTTP
  <2>1. /\ UNCHANGED <<main, grpc, expired, failed>> /\ http' = "shutting"
        /\ signalled /\ http = "serving"
    BY <1>6 DEF ShutdownHTTP
  <2> QED
    BY <1>1, <1>2, <2>1 DEF Shape, Quit, Running, Path, Drained
<1>7. CASE ReturnHTTP
  <2>1. /\ UNCHANGED <<main, grpc, expired, failed>> /\ http' = "returned"
        /\ http = "shutting" /\ (Running(Pages) = {} \/ "http" \in expired)
    BY <1>7 DEF ReturnHTTP
  <2> QED
    BY <1>1, <1>2, <2>1 DEF Shape, Quit, Running, Path, Drained
<1> QED
  BY <1>3, <1>4, <1>5, <1>6, <1>7

\* run() itself: only StopLate and the exit cut calls off.
LEMMA MainLemma ==
  ASSUME IInv, Signal \/ MainStep
  PROVE  IInv'
<1> USE DEF IInv
<1>1. UNCHANGED <<http, expired, failed, loop, using>>
  BY DEF Signal, MainStep, EnterSelect, DrainDone, StopLate, WaitHTTP, Exit
<1>2. CASE Signal
  <2>1. /\ UNCHANGED call /\ signalled' = TRUE /\ signalled = FALSE /\ early = FALSE
        /\ early' = (main = "starting")
        /\ \/ main = "select" /\ main' = "draining" /\ grpc' = IF grpc = "serving" THEN "graceful" ELSE grpc
           \/ main # "select" /\ UNCHANGED <<main, grpc>>
    BY <1>2 DEF Signal, Drain, Path, Shape
  <2>2. Pool'
    BY <1>1, <2>1, PoolSame
  <2> QED
    BY <1>1, <2>1, <2>2 DEF Shape, Quit, Running, Path, Drained
<1>3. CASE EnterSelect
  <2>1. /\ UNCHANGED <<call, signalled, early>> /\ main = "starting"
        /\ \/ main' = "select" /\ UNCHANGED grpc
           \/ main' = "draining" /\ grpc' = IF grpc = "serving" THEN "graceful" ELSE grpc
           \/ (failed # {} \/ http = "returned") /\ main' = "closing" /\ UNCHANGED grpc
    BY <1>3 DEF EnterSelect, Drain
  <2>2. Pool'
    BY <1>1, <2>1, PoolSame
  <2> QED
    BY <1>1, <2>1, <2>2 DEF Shape, Quit, Running, Path, Drained
<1>4. CASE DrainDone
  <2>1. /\ UNCHANGED <<call, signalled, early, grpc>> /\ main' = "http" /\ grpc = "stopped"
    BY <1>4 DEF DrainDone
  <2>2. Pool'
    BY <1>1, <2>1, PoolSame
  <2> QED
    BY <1>1, <2>1, <2>2 DEF Shape, Quit, Running, Path, Drained
<1>5. CASE StopLate
  <2>1. /\ UNCHANGED <<signalled, early>> /\ main' = "http" /\ grpc' = "stopped"
        /\ "grpc" \in expired
        /\ call' = [c \in Calls |-> IF c \in Running(RPCs) THEN "cut" ELSE call[c]]
    BY <1>5 DEF StopLate
  <2>2. Pool'
    BY <1>1, <2>1, PoolSame
  <2>3. Shape'
    BY <1>1, <2>1 DEF Shape
  <2>4. Quit'
    BY <1>1, <2>1, ProcessAssumption DEF Quit, Running, Calls
  <2>5. Path' /\ Drained'
    BY <1>1, <2>1 DEF Path, Drained, Running
  <2> QED
    BY <2>2, <2>3, <2>4, <2>5
<1>6. CASE WaitHTTP
  <2>1. /\ UNCHANGED <<call, signalled, early, grpc>> /\ main' = "closing" /\ main = "http"
        /\ (http = "returned" \/ failed # {})
    BY <1>6 DEF WaitHTTP
  <2>2. Pool'
    BY <1>1, <2>1, PoolSame
  <2> QED
    BY <1>1, <2>1, <2>2 DEF Shape, Quit, Running, Path, Drained
<1>7. CASE Exit
  <2>1. /\ UNCHANGED <<signalled, early, grpc>> /\ main = "closing" /\ main' = "exited"
        /\ using = {}
        /\ call' = [c \in Calls |-> IF c \in Running(Calls) THEN "cut" ELSE call[c]]
    BY <1>7 DEF Exit
  <2>2. Pool'
    BY <1>1, <2>1, PoolSame
  <2>3. Shape'
    BY <1>1, <2>1 DEF Shape
  <2>4. Quit' /\ Path'
    BY <1>1, <2>1 DEF Quit, Running, Calls, Path
  <2>5. Drained'
    <3> SUFFICES ASSUME NEW c \in Calls, call'[c] = "cut", failed = {}, ~early
                 PROVE  (IF c \in RPCs THEN "grpc" ELSE "http") \in expired
      BY <1>1, <2>1 DEF Drained
    <3>1. CASE call[c] = "cut"
      BY <3>1 DEF Drained
    <3>2. CASE call[c] = "running"
      <4>1. grpc = "stopped" /\ http = "returned"
        BY <2>1 DEF Path
      <4> QED
        BY <3>2, <4>1 DEF Quit, Running, Calls
    <3> QED
      BY <2>1, <3>1, <3>2 DEF Running
  <2> QED
    BY <2>2, <2>3, <2>4, <2>5
<1> QED
  BY <1>2, <1>3, <1>4, <1>5, <1>6, <1>7 DEF MainStep

-----------------------------------------------------------------------------
(* Theorems *)

\* The initial state satisfies the invariant.
LEMMA InitIInv == Init => IInv
<1> SUFFICES ASSUME Init PROVE IInv
  OBVIOUS
<1>1. Pool
  BY FS_EmptySet, ProcessAssumption DEF Init, Pool
<1>2. Shape
  BY DEF Init, Shape
<1> QED
  BY <1>1, <1>2 DEF Init, IInv, Quit, Path, Drained

\* The invariant is inductive.
LEMMA NextIInv == IInv /\ [Next]_vars => IInv'
<1> SUFFICES ASSUME IInv, [Next]_vars PROVE IInv'
  OBVIOUS
<1>1. CASE UNCHANGED vars
  BY <1>1 DEF vars, IInv, Shape, Pool, Quit, Running, Path, Drained
<1> QED
  BY <1>1, CallStep, LoopStep, ServerStep, MainLemma DEF Next

\* The invariant holds in every reachable state.
LEMMA Invariant == Spec => []IInv
BY InitIInv, NextIInv, PTL DEF Spec

\* The parts of the process stay in step and the pool is never overdrawn.
THEOREM TypeCorrect == Spec => []TypeOK
<1>1. IInv => TypeOK
  BY DEF IInv, Shape, Pool, TypeOK
<1> QED
  BY <1>1, Invariant, PTL

\* An accepted call that is cut off had its 15 seconds, or a server had failed,
\* or the signal came before main waited for it.
THEOREM DrainedHolds == Spec => []Drained
<1>1. IInv => Drained
  BY DEF IInv
<1> QED
  BY <1>1, Invariant, PTL

\* main closes the pool only under calls it has given up on, and under loops that
\* were told to end or that a failed server's exit takes along.
THEOREM PoolOutlivesUsersHolds == Spec => []PoolOutlivesUsers
<1>1. IInv => PoolOutlivesUsers
  <2> SUFFICES ASSUME IInv, PoolClosed, failed = {} PROVE PoolOutlivesUsers
    BY DEF PoolOutlivesUsers
  <2>1. signalled
    BY DEF IInv, Path, PoolClosed
  <2>2. ASSUME NEW c \in Running(Calls), ~early
        PROVE  (IF c \in RPCs THEN "grpc" ELSE "http") \in expired
    <3>1. grpc = "stopped" /\ http = "returned"
      BY <2>2 DEF IInv, Path, PoolClosed
    <3>2. c \notin Running(RPCs) /\ (c \in Running(Pages) => "http" \in expired)
      BY <3>1 DEF IInv, Quit
    <3> QED
      BY <3>2 DEF Running, Calls
  <2> QED
    BY <2>1, <2>2 DEF PoolOutlivesUsers
<1> QED
  BY <1>1, Invariant, PTL

-----------------------------------------------------------------------------
(* What main waits for *)

\* Nothing but a server's end, a signal and main itself moves what main waits for.
LEMMA OthersMissNothing ==
  ASSUME NothingMissed, NEW c \in Calls \union Loops,
         \/ Accept(c) \/ Acquire(c) \/ ReplyTo(c) \/ Release(c)
         \/ LoopTick(c) \/ LoopEnds(c)
  PROVE  NothingMissed'
<1>1. UNCHANGED <<main, signalled, grpc, http, failed>>
  BY DEF Accept, Acquire, ReplyTo, Release, LoopTick, LoopEnds
<1> QED
  BY <1>1 DEF NothingMissed

\* A server that fails or returns finds main on its way; an HTTP server shuts down
\* only after the signal.
LEMMA ServersMissNothing ==
  ASSUME NothingMissed,
         \/ \E s \in Servers : Expire(s) \/ ServerFails(s)
         \/ GracefulDone \/ ShutdownHTTP \/ ReturnHTTP
  PROVE  NothingMissed'
<1>1. ASSUME NEW s \in Servers, Expire(s) PROVE NothingMissed'
  BY <1>1 DEF Expire, NothingMissed
<1>2. ASSUME NEW s \in Servers, ServerFails(s) PROVE NothingMissed'
  BY <1>2 DEF ServerFails, NothingMissed
<1>3. CASE GracefulDone
  BY <1>3 DEF GracefulDone, NothingMissed
<1>4. CASE ShutdownHTTP
  BY <1>4 DEF ShutdownHTTP, NothingMissed
<1>5. CASE ReturnHTTP
  BY <1>5 DEF ReturnHTTP, NothingMissed
<1> QED
  BY <1>1, <1>2, <1>3, <1>4, <1>5

\* main looks before it waits, and tells the gRPC server before it waits for it.
LEMMA MainMissesNothing ==
  ASSUME NothingMissed, Signal \/ MainStep
  PROVE  NothingMissed'
<1>1. CASE Signal
  BY <1>1 DEF Signal, Drain, NothingMissed
<1>2. CASE EnterSelect
  BY <1>2 DEF EnterSelect, Drain, NothingMissed
<1>3. CASE DrainDone
  BY <1>3 DEF DrainDone, NothingMissed
<1>4. CASE StopLate
  BY <1>4 DEF StopLate, NothingMissed
<1>5. CASE WaitHTTP
  BY <1>5 DEF WaitHTTP, NothingMissed
<1>6. CASE Exit
  BY <1>6 DEF Exit, NothingMissed
<1> QED
  BY <1>1, <1>2, <1>3, <1>4, <1>5, <1>6 DEF MainStep

\* While main waits, what it waits for is still to come, and somebody was told to
\* bring it about: the safety half of ExitsAfterSignal.
THEOREM NothingMissedHolds == Spec => []NothingMissed
<1>1. Init => NothingMissed
  BY DEF Init, NothingMissed
<1>2. NothingMissed /\ [Next]_vars => NothingMissed'
  <2> SUFFICES ASSUME NothingMissed, [Next]_vars PROVE NothingMissed'
    OBVIOUS
  <2>1. CASE UNCHANGED vars
    BY <2>1 DEF vars, NothingMissed
  <2> QED
    BY <2>1, OthersMissNothing, ServersMissNothing, MainMissesNothing DEF Next
<1> QED
  BY <1>1, <1>2, PTL DEF Spec
==============================================================================
