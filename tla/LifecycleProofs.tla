-------------------------- MODULE LifecycleProofs --------------------------
(***************************************************************************)
(* For any number of connections, any number of calls a handler makes and  *)
(* any two deadlines, the longer of them the request's: whoever is left    *)
(* without an answer by a drain was given the whole of it.                 *)
(***************************************************************************)
EXTENDS Lifecycle, TLAPS

Up == {"starting", "serving", "draining"}

\* Requests under way, by what they are and not as a set.
Alive(c) == req[c].pc \in {"checking", "running"}

\* A request was there before the drain began and has aged with it; nothing is
\* cut off before the process closes, and nothing is alive after a clean drain.
Waited ==
  /\ proc \in Up => exit = "running"
  /\ proc \in {"starting", "serving"} => drain = 0
  /\ proc = "closing" => exit \in {"clean", "drain timeout", "error"}
  /\ proc \in {"starting", "down"} => \A c \in Conn : ~Alive(c)
  /\ proc \in Up => \A c \in Conn : req[c].pc # "cut"
  /\ proc = "draining" => \A c \in Conn : Alive(c) => req[c].age >= drain
  /\ proc = "closing" /\ exit = "drain timeout"
       => \A c \in Conn : Alive(c) => req[c].age >= DrainTicks
  /\ proc = "closing" /\ exit = "clean" => \A c \in Conn : ~Alive(c)

LInv == TypeOK /\ CutRequestsHadTheirTime /\ Waited

LEMMA NobodyLive ==
  Live = {} <=> \A c \in Conn : ~Alive(c)
  BY DEF Live, Alive

LEMMA NoRequestType == NoRequest \in Request
  BY LifecycleAssumption DEF NoRequest, Request

LEMMA InitLInv == Init => LInv
<1> SUFFICES ASSUME Init PROVE LInv
  OBVIOUS
<1>1. \A c \in Conn : req[c] = NoRequest /\ req[c].pc = "none"
  BY DEF Init, NoRequest
<1>2. TypeOK
  <2>1. Live = {}
    BY <1>1 DEF Live
  <2>2. 0 \in 0..DrainTicks
    BY LifecycleAssumption
  <2>3. req \in [Conn -> Request]
    BY NoRequestType DEF Init
  <2> QED
    BY <2>1, <2>2, <2>3 DEF Init, TypeOK, Exits
<1>3. CutRequestsHadTheirTime /\ Waited
  BY <1>1 DEF Init, CutRequestsHadTheirTime, Waited, Up, Alive
<1> QED
  BY <1>2, <1>3 DEF LInv

\* A step of one request that leaves its age and the process alone.
LEMMA RequestStep ==
  ASSUME LInv, NEW c \in Conn, UNCHANGED procVars,
         Alive(c),
         NEW new \in Request, new.age = req[c].age,
         new.pc = "cut" => proc = "closing",
         req' = [req EXCEPT ![c] = new]
  PROVE  LInv'
<1> USE DEF LInv, procVars
<1>1. proc \notin {"starting", "down"}
  BY DEF Waited
<1>2. \A d \in Conn : req'[d] = IF d = c THEN new ELSE req[d]
  BY DEF TypeOK
<1>3. TypeOK'
  BY <1>1, <1>2 DEF TypeOK, Live
<1>4. CutRequestsHadTheirTime'
  BY <1>1, <1>2 DEF TypeOK, CutRequestsHadTheirTime, Waited, Exits, Up
<1>5. Waited'
  BY <1>1, <1>2 DEF TypeOK, Waited, Up, Alive
<1> QED
  BY <1>3, <1>4, <1>5

LEMMA ArriveStep ==
  ASSUME LInv, NEW c \in Conn, Arrive(c)
  PROVE  LInv'
<1> DEFINE new == [NoRequest EXCEPT !.pc = "checking"]
<1>0. new \in Request /\ new.pc = "checking"
  BY NoRequestType DEF NoRequest, Request
<1>1. /\ UNCHANGED procVars
      /\ proc = "serving"
      /\ new \in Request
      /\ req \in [Conn -> Request]
      /\ req' = [req EXCEPT ![c] = new]
  BY <1>0 DEF Arrive, LInv, TypeOK
<1>2. \A d \in Conn : req'[d] = IF d = c THEN new ELSE req[d]
  BY <1>1
<1> HIDE DEF new
<1>3. TypeOK'
  BY <1>1, <1>2 DEF LInv, TypeOK, procVars
<1>4. CutRequestsHadTheirTime'
  BY <1>0, <1>1, <1>2 DEF LInv, CutRequestsHadTheirTime, procVars
<1>5. Waited'
  BY <1>0, <1>1, <1>2 DEF LInv, Waited, Up, Alive, procVars
<1> QED
  BY <1>3, <1>4, <1>5 DEF LInv

LEMMA HandlerStep ==
  ASSUME LInv, NEW c \in Conn, Handler(c)
  PROVE  LInv'
<1>0. /\ req \in [Conn -> Request]
      /\ req[c] \in Request
  BY DEF LInv, TypeOK
<1>1. CASE Arrive(c)
  BY <1>1, ArriveStep
<1>2. CASE Deny(c)
  <2> DEFINE new == [req[c] EXCEPT !.pc = "denied"]
  <2>1. /\ new \in Request
        /\ new.age = req[c].age
        /\ new.pc # "cut"
        /\ req' = [req EXCEPT ![c] = new]
        /\ Alive(c)
        /\ UNCHANGED procVars
    BY <1>0, <1>2 DEF Deny, End, Request, Outcomes, Alive
  <2> QED
    BY <2>1, RequestStep
<1>3. CASE Admit(c)
  <2>1. PICK n \in 0..MaxCalls :
          req' = [req EXCEPT ![c].pc = "running", ![c].calls = n]
    BY <1>3 DEF Admit
  <2> DEFINE new == [req[c] EXCEPT !.pc = "running", !.calls = n]
  <2>2. /\ new \in Request
        /\ new.age = req[c].age
        /\ new.pc # "cut"
        /\ req' = [req EXCEPT ![c] = new]
        /\ Alive(c)
        /\ UNCHANGED procVars
    BY <1>0, <1>3, <2>1 DEF Admit, Request, Alive
  <2> QED
    BY <2>2, RequestStep
<1>4. CASE Call(c)
  <2> DEFINE new == [req[c] EXCEPT !.calls = @ - 1]
  <2>1. /\ new \in Request
        /\ new.age = req[c].age
        /\ new.pc # "cut"
        /\ req' = [req EXCEPT ![c] = new]
        /\ Alive(c)
        /\ UNCHANGED procVars
    BY <1>0, <1>4, LifecycleAssumption DEF Call, Request, Alive
  <2> QED
    BY <2>1, RequestStep
<1>5. CASE CallFails(c)
  <2> DEFINE new == [req[c] EXCEPT
                       !.pc = IF DatabaseOpen THEN "failed" ELSE "cut"]
  <2>1. /\ new \in Request
        /\ new.age = req[c].age
        /\ new.pc = "cut" => proc = "closing"
        /\ req' = [req EXCEPT ![c] = new]
        /\ Alive(c)
        /\ UNCHANGED procVars
    BY <1>0, <1>5 DEF CallFails, End, DatabaseOpen, Request, Outcomes, Alive
  <2> QED
    BY <2>1, RequestStep
<1>6. CASE Respond(c)
  <2> DEFINE new == [req[c] EXCEPT !.pc = "ok"]
  <2>1. /\ new \in Request
        /\ new.age = req[c].age
        /\ new.pc # "cut"
        /\ req' = [req EXCEPT ![c] = new]
        /\ Alive(c)
        /\ UNCHANGED procVars
    BY <1>0, <1>6 DEF Respond, End, Request, Outcomes, Alive
  <2> QED
    BY <2>1, RequestStep
<1> QED
  BY <1>1, <1>2, <1>3, <1>4, <1>5, <1>6 DEF Handler

LEMMA RunStep ==
  ASSUME LInv, Boot \/ Shutdown \/ DrainDone \/ DrainTimeout \/ ServeFails
               \/ Sigterm
  PROVE  LInv'
<1> USE DEF LInv, Close, Alive
<1>1. CASE Boot
  BY <1>1 DEF Boot, TypeOK, Live, CutRequestsHadTheirTime, Waited, Up, Exits
<1>2. CASE Shutdown
  <2>1. TypeOK' /\ CutRequestsHadTheirTime'
    BY <1>2 DEF Shutdown, TypeOK, Live, CutRequestsHadTheirTime, Waited, Up
  <2>2. \A c \in Conn : req[c].age >= 0
    BY LifecycleAssumption DEF TypeOK, Request
  <2>3. Waited'
    BY <1>2, <2>2 DEF Shutdown, Waited, Up
  <2> QED
    BY <2>1, <2>3
<1>3. CASE DrainDone
  BY <1>3, NobodyLive
  DEF DrainDone, TypeOK, Live, CutRequestsHadTheirTime, Waited, Up, Exits
<1>4. CASE DrainTimeout
  BY <1>4
  DEF DrainTimeout, TypeOK, Live, CutRequestsHadTheirTime, Waited, Up, Exits
<1>5. CASE ServeFails
  BY <1>5
  DEF ServeFails, TypeOK, Live, CutRequestsHadTheirTime, Waited, Up, Exits
<1>6. CASE Sigterm
  BY <1>6
  DEF Sigterm, TypeOK, Live, CutRequestsHadTheirTime, Waited, Up
<1> QED
  BY <1>1, <1>2, <1>3, <1>4, <1>5, <1>6

\* The process ends: what was alive is cut.
LEMMA EndStep ==
  ASSUME LInv, ExitProcess \/ Kill
  PROVE  LInv'
<1> USE DEF LInv, Alive
<1>1. /\ req' = CutLive
      /\ proc' = "down"
      /\ UNCHANGED <<sigterm, drain>>
  BY DEF ExitProcess, Kill
<1>2. \A c \in Conn :
        /\ req'[c] \in Request
        /\ ~(req'[c].pc \in {"checking", "running"})
        /\ req'[c].age = req[c].age
        /\ req'[c].pc = "cut" => Alive(c) \/ req[c].pc = "cut"
  BY <1>1 DEF CutLive, Live, TypeOK, Request, Outcomes
<1>3. TypeOK'
  <2>1. Live' = {}
    BY <1>2 DEF Live
  <2>2. req' \in [Conn -> Request]
    BY <1>1, <1>2 DEF CutLive
  <2> QED
    BY <1>1, <2>1, <2>2 DEF ExitProcess, Kill, TypeOK, Exits
<1>4. CutRequestsHadTheirTime'
  <2>1. CASE Kill
    BY <2>1 DEF Kill, CutRequestsHadTheirTime
  <2>2. CASE ExitProcess
    BY <1>2, <2>2
    DEF ExitProcess, CutRequestsHadTheirTime, Waited, TypeOK
  <2> QED
    BY <2>1, <2>2
<1>5. Waited'
  BY <1>1, <1>2 DEF Waited, Up
<1> QED
  BY <1>3, <1>4, <1>5

LEMMA RestartStep ==
  ASSUME LInv, Restart
  PROVE  LInv'
<1>1. /\ req' = [c \in Conn |-> NoRequest]
      /\ NoRequest \in Request
      /\ NoRequest.pc = "none"
  BY NoRequestType DEF Restart, NoRequest
<1>2. \A c \in Conn : req'[c].pc = "none"
  BY <1>1
<1>3. TypeOK'
  <2>1. Live' = {}
    BY <1>2 DEF Live
  <2>2. 0 \in 0..DrainTicks
    BY LifecycleAssumption
  <2> QED
    BY <1>1, <2>1, <2>2 DEF Restart, TypeOK, Exits
<1>4. CutRequestsHadTheirTime' /\ Waited'
  BY <1>2 DEF Restart, CutRequestsHadTheirTime, Waited, Up, Alive
<1> QED
  BY <1>3, <1>4 DEF LInv

\* The ages and the drain grow together; an age stops growing at the request's
\* deadline, which is not before the drain's.
LEMMA TickStep ==
  ASSUME LInv, Tick
  PROVE  LInv'
<1> USE DEF LInv
<1>1. \A c \in Conn :
        req'[c] = IF c \in Live /\ req[c].age < RequestTicks
                  THEN [req[c] EXCEPT !.age = @ + 1] ELSE req[c]
  BY DEF Tick
<1>2. \A c \in Conn :
        /\ req'[c] \in Request
        /\ req'[c].pc = req[c].pc
        /\ req'[c].age >= req[c].age
        /\ Alive(c) => \/ req'[c].age = req[c].age + 1
                       \/ req'[c].age = RequestTicks
  <2> SUFFICES ASSUME NEW c \in Conn
               PROVE  /\ req'[c] \in Request
                      /\ req'[c].pc = req[c].pc
                      /\ req'[c].age >= req[c].age
                      /\ Alive(c) => \/ req'[c].age = req[c].age + 1
                                     \/ req'[c].age = RequestTicks
    OBVIOUS
  <2>1. /\ req[c] \in Request
        /\ req[c].age \in 0..RequestTicks
    BY DEF TypeOK, Request
  <2>2. CASE c \in Live /\ req[c].age < RequestTicks
    <3>1. req'[c] = [req[c] EXCEPT !.age = @ + 1]
      BY <1>1, <2>2
    <3>2. req[c].age + 1 \in 0..RequestTicks
      BY <2>1, <2>2, LifecycleAssumption
    <3> QED
      BY <2>1, <3>1, <3>2, LifecycleAssumption DEF Request
  <2>3. CASE ~(c \in Live /\ req[c].age < RequestTicks)
    <3>1. req'[c] = req[c]
      BY <1>1, <2>3
    <3>2. Alive(c) => c \in Live
      BY DEF Live, Alive
    <3> QED
      BY <2>1, <2>3, <3>1, <3>2, LifecycleAssumption
  <2> QED
    BY <2>2, <2>3
<1>3. /\ UNCHANGED <<proc, sigterm, exit>>
      /\ proc \in {"serving", "draining"}
      /\ drain' \in 0..DrainTicks
      /\ drain' = IF proc = "draining" THEN drain + 1 ELSE drain
  BY LifecycleAssumption DEF Tick, TypeOK
<1>4. TypeOK'
  <2>1. req' \in [Conn -> Request]
    BY <1>2 DEF Tick
  <2> QED
    BY <1>3, <2>1 DEF TypeOK
<1>5. CutRequestsHadTheirTime'
  BY <1>2, <1>3 DEF CutRequestsHadTheirTime, Waited, Up
<1>6. ASSUME proc = "draining", NEW c \in Conn, Alive(c)'
      PROVE  req'[c].age >= drain'
  <2>1. Alive(c) /\ req[c].age >= drain
    BY <1>2, <1>3, <1>6 DEF Waited, Alive
  <2>2. /\ req[c].age \in Nat
        /\ drain \in Nat
        /\ drain' <= RequestTicks
    BY <1>3, LifecycleAssumption DEF TypeOK, Request
  <2> QED
    BY <1>2, <1>3, <1>6, <2>1, <2>2, LifecycleAssumption
<1>7. Waited'
  BY <1>2, <1>3, <1>6 DEF Waited, Up, Alive
<1> QED
  BY <1>4, <1>5, <1>7

LEMMA NextLInv == LInv /\ [Next]_vars => LInv'
<1> SUFFICES ASSUME LInv, [Next]_vars
             PROVE  LInv'
  OBVIOUS
<1>1. CASE \E c \in Conn : Handler(c)
  BY <1>1, HandlerStep
<1>2. CASE Run \/ ServeFails \/ Sigterm
  BY <1>2, RunStep, EndStep DEF Run
<1>3. CASE Kill
  BY <1>3, EndStep
<1>4. CASE Restart
  BY <1>4, RestartStep
<1>5. CASE Tick
  BY <1>5, TickStep
<1>6. CASE UNCHANGED vars
  BY <1>6 DEF vars, procVars, LInv, TypeOK, Live, CutRequestsHadTheirTime,
              Waited, Up, Alive
<1> QED
  BY <1>1, <1>2, <1>3, <1>4, <1>5, <1>6 DEF Next

LEMMA SpecLInv == Spec => []LInv
  BY InitLInv, NextLInv, PTL DEF Spec

\* The process, its deadlines and its requests keep their types, and requests
\* are only under way between the bind of the listener and the end.
THEOREM TypeCorrect == Spec => []TypeOK
  BY SpecLInv, PTL DEF LInv

\* A request left without an answer was given the whole of shutdownTimeout,
\* unless the process was killed or its listener failed.
THEOREM DrainsGiveRequestsTheirTime == Spec => []CutRequestsHadTheirTime
  BY SpecLInv, PTL DEF LInv

=============================================================================
