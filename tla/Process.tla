------------------------------- MODULE Process -------------------------------
(***************************************************************************)
(* The life of the mastermind process: main starts a gRPC server, an HTTP  *)
(* server and two background loops on one connection pool, waits for a     *)
(* signal or for a server to fail, and winds down. Calls are in any state  *)
(* when that happens; what they do in the database is in the other modules.*)
(*                                                                         *)
(* net/http, grpc-go and pgxpool are external: Shutdown and GracefulStop   *)
(* take no new calls and wait for those they have, Stop cancels them and   *)
(* does not wait for their handlers, and a closed pool hands out no        *)
(* connection and waits for the ones in use.                               *)
(***************************************************************************)
EXTENDS Naturals, FiniteSets

CONSTANTS
  RPCs, Pages,   \* calls the gRPC and the HTTP server may get
  Loops,         \* the background loops: reaper and sampler of pending tasks
  PoolSize       \* connections in the pool

ASSUME ProcessAssumption ==
  /\ RPCs \intersect Pages = {} /\ (RPCs \union Pages) \intersect Loops = {}
  /\ PoolSize \in Nat \ {0}

Calls == RPCs \union Pages

VARIABLES
  main,      \* where run() is
  signalled, \* SIGTERM or SIGINT has arrived: ctx is done
  early,     \* the signal came before main waited for it
  grpc,      \* the gRPC server
  http,      \* the HTTP server and the goroutine that runs it
  expired,   \* the servers whose 15 seconds are over
  failed,    \* the servers that stopped by themselves
  call,      \* [Calls -> {"none", "running", "replied", "cut"}]
  loop,      \* [Loops -> {"waiting", "ended"}]
  using      \* calls and loops that hold a connection

vars == <<main, signalled, early, grpc, http, expired, failed, call, loop, using>>

Servers == {"grpc", "http"}

\* "closing" is the deferred s.Close(): the pool takes no more requests.
PoolClosed == main \in {"closing", "exited"}

Init ==
  /\ main = "starting"           \* the servers and loops have been started
  /\ signalled = FALSE /\ early = FALSE
  /\ grpc = "serving" /\ http = "serving"
  /\ expired = {} /\ failed = {}
  /\ call = [c \in Calls |-> "none"]
  /\ loop = [l \in Loops |-> "waiting"]
  /\ using = {}

-----------------------------------------------------------------------------
(* Calls and loops *)

Alive == main # "exited"

\* A server that failed may still get calls on the connections it has.
Accept(c) ==
  /\ Alive /\ call[c] = "none"
  /\ (IF c \in RPCs THEN grpc ELSE http) = "serving"
  /\ call' = [call EXCEPT ![c] = "running"]
  /\ UNCHANGED <<main, signalled, early, grpc, http, expired, failed, loop, using>>

\* A call whose context was cancelled gets no connection.
Acquire(c) ==
  /\ ~PoolClosed /\ call[c] = "running"
  /\ c \notin using /\ Cardinality(using) < PoolSize
  /\ using' = using \union {c}
  /\ UNCHANGED <<main, signalled, early, grpc, http, expired, failed, call, loop>>

\* A statement ends: done, failed or cancelled.
Release(u) ==
  /\ Alive /\ u \in using
  /\ using' = using \ {u}
  /\ UNCHANGED <<main, signalled, early, grpc, http, expired, failed, call, loop>>

ReplyTo(c) ==
  /\ Alive /\ call[c] = "running" /\ c \notin using
  /\ call' = [call EXCEPT ![c] = "replied"]
  /\ UNCHANGED <<main, signalled, early, grpc, http, expired, failed, loop, using>>

\* Reaper.Run and samplePending: a statement at every tick, until ctx is done.
\* Both cases of the select may be ready: a last statement may begin.
LoopTick(l) ==
  /\ ~PoolClosed /\ loop[l] = "waiting"
  /\ l \notin using /\ Cardinality(using) < PoolSize
  /\ using' = using \union {l}
  /\ UNCHANGED <<main, signalled, early, grpc, http, expired, failed, call, loop>>

LoopEnds(l) ==
  /\ Alive /\ signalled /\ loop[l] = "waiting" /\ l \notin using
  /\ loop' = [loop EXCEPT ![l] = "ended"]
  /\ UNCHANGED <<main, signalled, early, grpc, http, expired, failed, call, using>>

-----------------------------------------------------------------------------
(* Servers *)

Running(S) == {c \in S : call[c] = "running"}

\* GracefulStop returns: every accepted call has been answered.
GracefulDone ==
  /\ Alive /\ grpc = "graceful" /\ Running(RPCs) = {}
  /\ grpc' = "stopped"
  /\ UNCHANGED <<main, signalled, early, http, expired, failed, call, loop, using>>

\* The time a server is given to finish its calls.
Expire(s) ==
  /\ Alive /\ s \notin expired
  /\ IF s = "grpc" THEN main = "draining" ELSE http = "shutting"
  /\ expired' = expired \union {s}
  /\ UNCHANGED <<main, signalled, early, grpc, http, failed, call, loop, using>>

\* Server.ListenAndServe notices the signal, and gives Shutdown 15 seconds.
ShutdownHTTP ==
  /\ Alive /\ http = "serving" /\ signalled /\ "http" \notin failed
  /\ http' = "shutting"
  /\ UNCHANGED <<main, signalled, early, grpc, expired, failed, call, loop, using>>

\* Operators named Mutant... are what a slip in the code would make of the
\* definition that follows them; no specification uses them.
MutantUntimedReturnHTTP ==
  /\ Alive /\ http = "shutting" /\ Running(Pages) = {}
  /\ http' = "returned"
  /\ UNCHANGED <<main, signalled, early, grpc, expired, failed, call, loop, using>>

\* httpErrCh gets nil, whether Shutdown finished or ran out of time.
ReturnHTTP ==
  /\ Alive /\ http = "shutting" /\ (Running(Pages) = {} \/ "http" \in expired)
  /\ http' = "returned"
  /\ UNCHANGED <<main, signalled, early, grpc, expired, failed, call, loop, using>>

-----------------------------------------------------------------------------
(* run() *)

MutantUntoldDrain == main' = "draining" /\ UNCHANGED grpc
Drain == main' = "draining" /\ grpc' = IF grpc = "serving" THEN "graceful" ELSE grpc

\* A select that is already waiting takes the first case that becomes ready.
Signal ==
  /\ Alive /\ ~signalled
  /\ signalled' = TRUE
  /\ early' = (main = "starting")
  /\ IF main = "select" THEN Drain ELSE UNCHANGED <<main, grpc>>
  /\ UNCHANGED <<http, expired, failed, call, loop, using>>

\* Serve returns an error: the run() that waits returns it.
ServerFails(s) ==
  /\ Alive /\ s \notin failed /\ (IF s = "grpc" THEN grpc ELSE http) = "serving"
  /\ failed' = failed \union {s}
  /\ main' = IF main = "select" THEN "closing" ELSE main
  /\ UNCHANGED <<signalled, early, grpc, http, expired, call, loop, using>>

\* main comes to its select and finds it waiting, or takes any case that is ready.
EnterSelect ==
  LET returned == failed # {} \/ http = "returned" IN
  /\ main = "starting"
  /\ \/ ~signalled /\ ~returned /\ main' = "select" /\ UNCHANGED grpc
     \/ signalled /\ Drain
     \/ returned /\ main' = "closing" /\ UNCHANGED grpc
  /\ UNCHANGED <<signalled, early, http, expired, failed, call, loop, using>>

DrainDone ==
  /\ main = "draining" /\ grpc = "stopped"
  /\ main' = "http"
  /\ UNCHANGED <<signalled, early, grpc, http, expired, failed, call, loop, using>>

MutantEagerStop ==
  /\ main = "draining"
  /\ main' = "http" /\ grpc' = "stopped"
  /\ call' = [c \in Calls |-> IF c \in Running(RPCs) THEN "cut" ELSE call[c]]
  /\ UNCHANGED <<signalled, early, http, expired, failed, loop, using>>

MutantUnstoppedStop ==
  /\ main = "draining" /\ "grpc" \in expired
  /\ main' = "http"
  /\ UNCHANGED <<signalled, early, grpc, http, expired, failed, call, loop, using>>

\* gs.Stop(): calls are cancelled, their handlers are not waited for.
StopLate ==
  /\ main = "draining" /\ "grpc" \in expired
  /\ main' = "http" /\ grpc' = "stopped"
  /\ call' = [c \in Calls |-> IF c \in Running(RPCs) THEN "cut" ELSE call[c]]
  /\ UNCHANGED <<signalled, early, http, expired, failed, loop, using>>

MutantHastyWaitHTTP ==
  /\ main = "http"
  /\ main' = "closing"
  /\ UNCHANGED <<signalled, early, grpc, http, expired, failed, call, loop, using>>

\* <-httpErrCh
WaitHTTP ==
  /\ main = "http" /\ (http = "returned" \/ "http" \in failed)
  /\ main' = "closing"
  /\ UNCHANGED <<signalled, early, grpc, http, expired, failed, call, loop, using>>

\* s.Close() has waited for the connections in use; the process ends with
\* whatever else was going on.
Exit ==
  /\ main = "closing" /\ using = {}
  /\ main' = "exited"
  /\ call' = [c \in Calls |-> IF c \in Running(Calls) THEN "cut" ELSE call[c]]
  /\ UNCHANGED <<signalled, early, grpc, http, expired, failed, loop, using>>

-----------------------------------------------------------------------------
MainStep == EnterSelect \/ DrainDone \/ StopLate \/ WaitHTTP \/ Exit

Next ==
  \/ \E c \in Calls : Accept(c) \/ Acquire(c) \/ ReplyTo(c)
  \/ \E u \in Calls \union Loops : Release(u)
  \/ \E l \in Loops : LoopTick(l) \/ LoopEnds(l)
  \/ \E s \in Servers : Expire(s) \/ ServerFails(s)
  \/ GracefulDone \/ ShutdownHTTP \/ ReturnHTTP
  \/ Signal \/ MainStep

Spec == Init /\ [][Next]_vars

\* Goroutines that can go on do, timers fire and statements end. Nothing is
\* assumed of handlers: one may wait for its client for ever.
FairSpec ==
  /\ Spec
  /\ WF_vars(MainStep) /\ WF_vars(GracefulDone) /\ WF_vars(ShutdownHTTP) /\ WF_vars(ReturnHTTP)
  /\ \A s \in Servers : WF_vars(Expire(s))
  /\ \A u \in Calls \union Loops : WF_vars(Release(u))

-----------------------------------------------------------------------------
(* Properties *)

\* The parts of the process are in step: main has left the gRPC server behind
\* only when that was stopped, and the pool is never overdrawn.
TypeOK ==
  /\ main \in {"starting", "select", "draining", "http", "closing", "exited"}
  /\ grpc \in {"serving", "graceful", "stopped"}
  /\ http \in {"serving", "shutting", "returned"}
  /\ call \in [Calls -> {"none", "running", "replied", "cut"}]
  /\ loop \in [Loops -> {"waiting", "ended"}]
  /\ using \subseteq Calls \union Loops /\ Cardinality(using) <= PoolSize
  /\ expired \subseteq Servers /\ failed \subseteq Servers
  /\ main = "http" => grpc = "stopped"

\* An accepted call is answered, unless its 15 seconds were over, a server had
\* failed, or the signal came so early that main could leave by the HTTP
\* server's return without draining the gRPC server.
Drained ==
  \A c \in Calls : call[c] = "cut" =>
    \/ (IF c \in RPCs THEN "grpc" ELSE "http") \in expired
    \/ failed # {}
    \/ early

\* The pool outlives what depends on it: main closes it under a call that is still
\* being served only if the call's time is over, a server failed or the signal was
\* early, and under the loops only if they were told to end or a server failed.
PoolOutlivesUsers ==
  PoolClosed =>
    /\ \A c \in Running(Calls) :
         \/ (IF c \in RPCs THEN "grpc" ELSE "http") \in expired
         \/ failed # {}
         \/ early
    /\ \A l \in Loops : loop[l] = "waiting" => signalled \/ failed # {}

\* Nothing main waits for has been missed or is left to itself: while it waits in
\* its select neither the signal nor the end of a server has come yet, a gRPC
\* server it waits for was told to stop, and a running HTTP server it waits for
\* has the signal to shut down.
NothingMissed ==
  /\ main = "select" => ~signalled /\ failed = {} /\ http # "returned"
  /\ main = "draining" => grpc # "serving" /\ signalled
  /\ main = "http" => signalled
  /\ http = "shutting" => signalled

\* After SIGTERM the process ends, though a handler may never return, a
\* connection pool may be exhausted and a server may fail meanwhile.
ExitsAfterSignal == signalled ~> main = "exited"
==============================================================================
