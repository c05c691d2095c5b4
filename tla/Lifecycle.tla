----------------------------- MODULE Lifecycle -----------------------------
(***************************************************************************)
(* One container from start to stop: server.Run, the deferred              *)
(* database.Close of main.run, the deadline withLimits gives a request,    *)
(* and Docker, which stops the process and starts it again.  What a start  *)
(* does to the database is Startup, what a request does to it is Bot; here *)
(* a request is a number of calls, each of which may fail or hang.         *)
(*                                                                         *)
(* SIGTERM closes the listener and waits for the requests under way, whose *)
(* own contexts stay live, but no longer than shutdownTimeout.  Then the   *)
(* database is closed under those still running.  A tick is five seconds.  *)
(***************************************************************************)
EXTENDS Integers, FiniteSets

CONSTANTS Conn,           \* connections a request can come in on
          DrainTicks,     \* shutdownTimeout: 2 ticks
          RequestTicks,   \* requestTimeout: 3 ticks
          MaxCalls        \* calls to SQLite or Mattermost a handler makes

\* A request may take longer than the drain waits.
ASSUME LifecycleAssumption == /\ DrainTicks \in Nat
                              /\ RequestTicks \in Nat
                              /\ MaxCalls \in Nat
                              /\ DrainTicks <= RequestTicks

VARIABLES
  proc,      \* how far main.run is
  sigterm,   \* serveCtx is cancelled
  drain,     \* ticks since Shutdown was called
  exit,      \* why the process ends, or ended last
  req        \* the request on each connection

procVars == <<proc, sigterm, drain, exit>>

vars == <<procVars, req>>

Exits == {"running", "clean", "drain timeout", "error", "killed"}

Outcomes == {"ok", "failed", "denied", "cut"}   \* 200, 500, 401, no answer

Request == [pc    : {"none", "checking", "running"} \cup Outcomes,
            age   : 0..RequestTicks,
            calls : 0..MaxCalls]

NoRequest == [pc |-> "none", age |-> 0, calls |-> 0]

Live == {c \in Conn : req[c].pc \in {"checking", "running"}}

Init ==
  /\ proc = "starting"
  /\ sigterm = FALSE
  /\ drain = 0
  /\ exit = "running"
  /\ req = [c \in Conn |-> NoRequest]

-----------------------------------------------------------------------------
(* Requests: server/handlers.go *)

End(c, outcome) == req' = [req EXCEPT ![c].pc = outcome]

\* Slip: the listener is bound before the database is migrated.
ArriveEarly(c) ==
  /\ proc \in {"starting", "serving"}
  /\ c \notin Live
  /\ req' = [req EXCEPT ![c] = [NoRequest EXCEPT !.pc = "checking"]]
  /\ UNCHANGED procVars

Arrive(c) ==
  /\ proc = "serving"
  /\ c \notin Live
  /\ req' = [req EXCEPT ![c] = [NoRequest EXCEPT !.pc = "checking"]]
  /\ UNCHANGED procVars

\* Method, body, token or signature, age of a dialog's state, owner.
Deny(c) ==
  /\ req[c].pc = "checking"
  /\ End(c, "denied")
  /\ UNCHANGED procVars

\* The body has been read.  No deadline covers that: the context of
\* withLimits does not interrupt a read from the connection.
Admit(c) ==
  /\ req[c].pc = "checking"
  /\ \E n \in 0..MaxCalls :
       req' = [req EXCEPT ![c].pc = "running", ![c].calls = n]
  /\ UNCHANGED procVars

\* Slip: handlers get the context of the connection, without a deadline.
NeverExpired(c) == FALSE

Expired(c) == req[c].age = RequestTicks

DatabaseOpen == proc # "closing"

\* Once the database is closed, only calls to Mattermost still succeed.
Call(c) ==
  /\ req[c].pc = "running"
  /\ req[c].calls > 0
  /\ ~Expired(c)
  /\ req' = [req EXCEPT ![c].calls = @ - 1]
  /\ UNCHANGED procVars

\* A call fails, as all do once the context has expired.  One that finds the
\* database closed is cut off by the shutdown.
CallFails(c) ==
  /\ req[c].pc = "running"
  /\ req[c].calls > 0
  /\ End(c, IF DatabaseOpen THEN "failed" ELSE "cut")
  /\ UNCHANGED procVars

\* The handler returns with all its calls made.
Respond(c) ==
  /\ req[c].pc = "running"
  /\ req[c].calls = 0
  /\ End(c, "ok")
  /\ UNCHANGED procVars

\* What the deadline forces: the call under way returns with the context's
\* error, and a handler with none left writes its answer.
Expire(c) == Expired(c) /\ (CallFails(c) \/ Respond(c))

-----------------------------------------------------------------------------
(* The process: server.go, main.go *)

\* Migrations, Mattermost and the backfill are done and the listener is bound,
\* or one of them failed.  A signal received meanwhile interrupts none of it.
Boot ==
  /\ proc = "starting"
  /\ \/ proc' = "serving" /\ UNCHANGED exit
     \/ proc' = "closing" /\ exit' = "error"
  /\ UNCHANGED <<sigterm, drain, req>>

\* docker stop, a redeployment, Ctrl-C; a second signal changes nothing.
Sigterm ==
  /\ proc \in {"starting", "serving"}
  /\ sigterm' = TRUE
  /\ UNCHANGED <<proc, drain, exit, req>>

\* Slip: Shutdown's deadline is derived from the context just cancelled.
ShutdownExpired ==
  /\ proc = "serving"
  /\ sigterm
  /\ proc' = "draining"
  /\ drain' = DrainTicks
  /\ UNCHANGED <<sigterm, exit, req>>

\* Run's select: the listener is closed and the drain begins.
Shutdown ==
  /\ proc = "serving"
  /\ sigterm
  /\ proc' = "draining"
  /\ UNCHANGED <<sigterm, drain, exit, req>>

Close(why) == proc' = "closing" /\ exit' = why

\* Shutdown finds no connection active ...
DrainDone ==
  /\ proc = "draining"
  /\ Live = {}
  /\ Close("clean")
  /\ UNCHANGED <<sigterm, drain, req>>

\* Slip: Shutdown(context.Background()).
DrainForever == FALSE

\* ... or its deadline passes.
DrainTimeout ==
  /\ proc = "draining"
  /\ drain = DrainTicks
  /\ Close("drain timeout")
  /\ UNCHANGED <<sigterm, drain, req>>

\* The listener fails: Run returns at once.
ServeFails ==
  /\ proc = "serving"
  /\ Close("error")
  /\ UNCHANGED <<sigterm, drain, req>>

CutLive == [c \in Conn |-> IF c \in Live
                           THEN [req[c] EXCEPT !.pc = "cut"] ELSE req[c]]

\* main returns or calls os.Exit: the goroutines left die.
ExitProcess ==
  /\ proc = "closing"
  /\ proc' = "down"
  /\ req' = CutLive
  /\ UNCHANGED <<sigterm, drain, exit>>

\* docker kill, the end of docker stop's grace period, a lost host.
Kill ==
  /\ proc # "down"
  /\ proc' = "down"
  /\ exit' = "killed"
  /\ req' = CutLive
  /\ UNCHANGED <<sigterm, drain>>

\* restart: unless-stopped, or the owner starts what he stopped.
Restart ==
  /\ proc = "down"
  /\ proc' = "starting"
  /\ sigterm' = FALSE
  /\ drain' = 0
  /\ exit' = "running"
  /\ req' = [c \in Conn |-> NoRequest]

\* Five seconds pass.  No deadline is overrun: what it forces comes first.
Tick ==
  /\ proc \in {"serving", "draining"}
  /\ proc = "draining" => drain < DrainTicks
  /\ \A c \in Conn : req[c].pc = "running" => ~Expired(c)
  /\ drain' = IF proc = "draining" THEN drain + 1 ELSE drain
  /\ req' = [c \in Conn |-> IF c \in Live /\ req[c].age < RequestTicks
                            THEN [req[c] EXCEPT !.age = @ + 1] ELSE req[c]]
  /\ UNCHANGED <<proc, sigterm, exit>>

-----------------------------------------------------------------------------
Handler(c) ==
  \/ Arrive(c) \/ Deny(c) \/ Admit(c)
  \/ Call(c) \/ CallFails(c) \/ Respond(c)

Run == Boot \/ Shutdown \/ DrainDone \/ DrainTimeout \/ ExitProcess

Next ==
  \/ \E c \in Conn : Handler(c)
  \/ Run
  \/ ServeFails
  \/ Sigterm
  \/ Kill
  \/ Restart
  \/ Tick

\* Time passes, the process goes on, and a deadline takes effect.  No client is
\* assumed to send its body, and no call to return before its deadline.
Fairness ==
  /\ WF_vars(Run)
  /\ WF_vars(Tick)
  /\ \A c \in Conn : WF_vars(Expire(c))

Spec == Init /\ [][Next]_vars /\ Fairness

-----------------------------------------------------------------------------
(* Properties *)

TypeOK ==
  /\ proc \in {"starting", "serving", "draining", "closing", "down"}
  /\ sigterm \in BOOLEAN
  /\ drain \in 0..DrainTicks
  /\ exit \in Exits
  /\ req \in [Conn -> Request]
  /\ Live # {} => proc \in {"serving", "draining", "closing"}

\* Who is left without an answer when the process ends by itself on a signal:
\* nobody when it logs "shut down cleanly", and otherwise only requests that
\* were given the whole of shutdownTimeout.  (A request may take longer.)
CutRequestsHadTheirTime ==
  \A c \in Conn :
    req[c].pc = "cut" =>
      \/ exit \in {"error", "killed"}
      \/ exit = "drain timeout" /\ req[c].age >= DrainTicks

\* A signalled process ends, whatever its requests and their clients do:
\* server.Run promises a drain that is bounded.
ShutdownEnds == sigterm ~> proc = "down"

\* No handler outlives the deadline of withLimits, however its calls hang.
HandlersEnd ==
  \A c \in Conn : req[c].pc = "running" ~> req[c].pc # "running"

=============================================================================
