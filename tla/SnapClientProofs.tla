--------------------------- MODULE SnapClientProofs ---------------------------
(* The Snapcast client's life, for every number of tasks that could be made, *)
(* of servers and of sockets: the sockets in use never exceed those there    *)
(* are, and a client whose server streams is stopped without one.  As long   *)
(* as app_main's start and a request have not met halfway there is one       *)
(* client at most, s_task names it, and s_running says whether there is one. *)
EXTENDS SnapClient, FiniteSetTheorems, TLAPS

Places == {"none", "outer", "resolve", "connect", "retry", "inner", "recv", "close",
           "pause", "exit"}
Holding == {"connect", "inner", "recv", "close"}
TaskStates == [at : Places, sock : Hosts \union {NULL}, fresh : BOOLEAN]

CallTypes == [Callers -> {"idle", "start", "create", "stop", "wait", "gone"}]

Types ==
    /\ cfg \in Configs
    /\ responsive \in BOOLEAN /\ led \in BOOLEAN /\ forced \in BOOLEAN
    /\ running \in BOOLEAN /\ raced \in BOOLEAN /\ panicked \in BOOLEAN
    /\ handle \in Tasks \union {NULL}
    /\ host \in Hosts \union {NULL}
    /\ task \in [Tasks -> TaskStates]
    /\ lost \in Nat
    /\ call \in CallTypes

(* A socket is held from connect to close only, and lost only by a client    *)
(* deleted there.                                                            *)
With(f) == {t \in Tasks : f[t].sock # NULL}

Held == \A t \in Tasks : task[t].sock # NULL => task[t].at \in Holding
Budget == IsFiniteSet(With(task)) /\ lost + Cardinality(With(task)) <= MaxSockets
Kept == responsive => lost = 0

(* What holds however the calls meet.                                        *)
Basic == Types /\ Held /\ Budget /\ Kept

(* One call at a time is halfway.                                            *)
Turns == \A c \in Callers : \A d \in Callers \ {c} : ~(Midway(c) /\ Midway(d))

(* s_task is the one task, until its function returns.                       *)
Named ==
    /\ \A t \in Tasks : Alive(t) => handle = t \/ (panicked /\ task[t].at = "exit")
    /\ ~panicked /\ handle # NULL => Alive(handle)

(* s_running between and during the calls.                                   *)
Truthful ==
    ~panicked =>
      /\ \A c \in Callers : /\ call[c] = "create" => running /\ handle = NULL
                            /\ call[c] = "wait" => ~running /\ handle # NULL
      /\ (\A c \in Callers : ~Midway(c)) => (running <=> handle # NULL)

Single == Turns /\ Named /\ Truthful

Inv == Basic /\ (~raced => Single)
-----------------------------------------------------------------------------
(* One task's socket more or less.                                           *)
One(x) == IF x # NULL THEN 1 ELSE 0

LEMMA Recount ==
    ASSUME NEW f \in [Tasks -> TaskStates], NEW t \in Tasks, NEW s \in TaskStates,
           IsFiniteSet(With(f))
    PROVE  /\ IsFiniteSet(With([f EXCEPT ![t] = s]))
           /\ Cardinality(With([f EXCEPT ![t] = s])) + One(f[t].sock)
                = Cardinality(With(f)) + One(s.sock)
<1> DEFINE g == [f EXCEPT ![t] = s]
<1>1. g[t] = s /\ \A u \in Tasks : u # t => g[u] = f[u]
  OBVIOUS
<1>2. With(g) = IF s.sock # NULL THEN With(f) \cup {t} ELSE With(f) \ {t}
  BY <1>1 DEF With
<1>3. t \in With(f) <=> f[t].sock # NULL
  BY DEF With
<1> HIDE DEF g
<1>4. Cardinality(With(f)) \in Nat
  BY FS_CardinalityType
<1>5. /\ IsFiniteSet(With(g))
      /\ Cardinality(With(g)) + One(f[t].sock) = Cardinality(With(f)) + One(s.sock)
  <2>1. CASE s.sock # NULL
    <3>1. With(g) = With(f) \cup {t}
      BY <1>2, <2>1
    <3>2. /\ IsFiniteSet(With(g))
          /\ Cardinality(With(g)) = IF t \in With(f) THEN Cardinality(With(f))
                                    ELSE Cardinality(With(f)) + 1
      BY <3>1, FS_AddElement
    <3>3. QED  BY <1>3, <1>4, <2>1, <3>2 DEF One
  <2>2. CASE s.sock = NULL
    <3>1. With(g) = With(f) \ {t}
      BY <1>2, <2>2
    <3>2. /\ IsFiniteSet(With(g))
          /\ Cardinality(With(g)) = IF t \in With(f) THEN Cardinality(With(f)) - 1
                                    ELSE Cardinality(With(f))
      BY <3>1, FS_RemoveElement
    <3>3. QED  BY <1>3, <1>4, <2>2, <3>2 DEF One
  <2>3. QED  BY <2>1, <2>2
<1>6. QED  BY <1>5 DEF g
-----------------------------------------------------------------------------
(* The task goes on to another place, with a socket only where one is held.  *)
MovesOn(t) ==
    /\ UNCHANGED <<handle, panicked>>
    /\ \E s \in TaskStates :
         /\ task' = [task EXCEPT ![t] = s] /\ s.at # "none"
         /\ s.sock # NULL => s.at \in Holding
         /\ s.sock # NULL => task[t].sock # NULL \/ lost + Cardinality(With(task)) < MaxSockets

(* A step of the client's task: it goes on to another place, or returns.     *)
LEMMA TaskStep ==
    ASSUME Basic, NEW t \in Tasks, Step(t)
    PROVE  /\ ~panicked /\ Alive(t)
           /\ UNCHANGED <<responsive, cfg, led, forced, running, host, lost, call, raced>>
           /\ \/ MovesOn(t)
              \/ Exit(t)
<1>1. /\ task \in [Tasks -> TaskStates] /\ host \in Hosts \union {NULL}
      /\ task[t] \in TaskStates /\ Stopping \in BOOLEAN
      /\ task[t].sock # NULL => task[t].at \in Holding
  BY DEF Basic, Types, Held, Stopping
<1>2. ASSUME NEW l \in Places, Goto(t, l), l # "none", UNCHANGED <<handle, panicked>>,
             task[t].sock # NULL => l \in Holding
      PROVE  MovesOn(t)
  <2> DEFINE s == [task[t] EXCEPT !.at = l]
  <2>1. s \in TaskStates /\ s.at = l /\ s.sock = task[t].sock
    BY <1>1 DEF TaskStates
  <2>2. task' = [task EXCEPT ![t] = s]
    BY <1>2 DEF Goto
  <2> HIDE DEF s
  <2>3. QED  BY <1>2, <2>1, <2>2 DEF MovesOn
<1>3. ASSUME NEW l \in {"retry", "pause"}, Sleep(t, l), UNCHANGED <<handle, panicked>>
      PROVE  MovesOn(t)
  <2> DEFINE s == [at |-> l, sock |-> NULL, fresh |-> Stopping]
  <2>1. s \in TaskStates /\ s.at = l /\ s.sock = NULL
    BY <1>1 DEF TaskStates, Places
  <2>2. task' = [task EXCEPT ![t] = s]
    BY <1>3 DEF Sleep
  <2> HIDE DEF s
  <2>3. s.at # "none"
    BY <2>1
  <2>4. QED  BY <1>3, <2>1, <2>2, <2>3 DEF MovesOn
<1>4. ASSUME Resolve(t)
      PROVE  MovesOn(t)
  <2> DEFINE s == [task[t] EXCEPT !.at = "connect", !.sock = host]
  <2>1. s \in TaskStates /\ s.at = "connect"
    BY <1>1 DEF TaskStates, Places
  <2>2. task' = [task EXCEPT ![t] = s]
    BY <1>4 DEF Resolve
  <2>3. lost + Cardinality(With(task)) < MaxSockets /\ UNCHANGED <<handle, panicked>>
    BY <1>4 DEF Resolve, Used, With
  <2> HIDE DEF s
  <2>4. s.at \in Holding /\ s.at # "none"
    BY <2>1 DEF Holding
  <2>5. QED  BY <2>1, <2>2, <2>3, <2>4 DEF MovesOn
<1>5. ASSUME \/ Outer(t) \/ Connected(t) \/ DelayEnd(t) \/ Inner(t) \/ RecvData(t)
             \/ RecvEnd(t)
      PROVE  MovesOn(t)
  <2>1. UNCHANGED <<handle, panicked>>
    BY <1>5 DEF Outer, Connected, DelayEnd, Inner, RecvData, RecvEnd
  <2>2. \/ \E l \in {"resolve", "exit", "outer"} :
             Goto(t, l) /\ task[t].at \in {"outer", "retry", "pause"}
        \/ \E l \in Holding : Goto(t, l)
    <3>1. CASE Outer(t)
      BY <3>1 DEF Outer, At
    <3>2. CASE DelayEnd(t)
      BY <3>2 DEF DelayEnd, At
    <3>3. CASE Inner(t)
      BY <3>3 DEF Inner, Holding
    <3>4. CASE Connected(t) \/ RecvData(t) \/ RecvEnd(t)
      BY <3>4 DEF Connected, RecvData, RecvEnd, Holding
    <3>5. QED  BY <1>5, <3>1, <3>2, <3>3, <3>4
  <2>3. CASE \E l \in {"resolve", "exit", "outer"} :
               Goto(t, l) /\ task[t].at \in {"outer", "retry", "pause"}
    <3>1. PICK l \in {"resolve", "exit", "outer"} :
            Goto(t, l) /\ task[t].at \in {"outer", "retry", "pause"}
      BY <2>3
    <3>2. task[t].sock = NULL
      BY <1>1, <3>1 DEF Holding
    <3>3. l \in Places /\ l # "none"
      BY DEF Places
    <3>4. QED  BY <1>2, <2>1, <3>1, <3>2, <3>3
  <2>4. CASE \E l \in Holding : Goto(t, l)
    <3>1. PICK l \in Holding : Goto(t, l)
      BY <2>4
    <3>2. l \in Places /\ l # "none"
      BY DEF Holding, Places
    <3>3. QED  BY <1>2, <2>1, <3>1, <3>2
  <2>5. QED  BY <2>2, <2>3, <2>4
<1>6. ASSUME ResolveFail(t) \/ ConnectFail(t) \/ Close(t)
      PROVE  MovesOn(t)
  <2>1. UNCHANGED <<handle, panicked>> /\ \E l \in {"retry", "pause"} : Sleep(t, l)
    BY <1>6 DEF ResolveFail, ConnectFail, Close
  <2>2. QED  BY <1>3, <2>1
<1>7. /\ ~panicked /\ task[t].at # "none"
      /\ UNCHANGED <<responsive, cfg, led, forced, running, host, lost, call, raced>>
  BY DEF Step, Outer, Resolve, ResolveFail, Connected, ConnectFail, DelayEnd, Inner,
         RecvData, RecvEnd, Close, Exit, At
<1>8. Alive(t)
  BY <1>7 DEF Alive
<1>9. QED  BY <1>4, <1>5, <1>6, <1>7, <1>8 DEF Step

LEMMA InitInv == Init => Inv
<1> SUFFICES ASSUME Init PROVE Inv
  OBVIOUS
<1>1. Types
  <2>1. NoTask \in TaskStates
    BY DEF NoTask, TaskStates, Places
  <2>2. BootCall \in {"idle", "start"}
    BY DEF BootCall
  <2>3. led \in BOOLEAN
    BY FlagsAssumption DEF Init
  <2>4. call \in CallTypes
    BY <2>2 DEF Init, Callers, CallTypes
  <2>5. QED  BY <2>1, <2>3, <2>4 DEF Init, Types
<1>2. \A t \in Tasks : task[t].at = "none" /\ task[t].sock = NULL
  BY DEF Init, NoTask
<1>3. \A c \in Callers : ~Midway(c) /\ call[c] # "create" /\ call[c] # "wait"
  BY DEF Init, Callers, BootCall, Midway
<1>4. Turns /\ Truthful
  BY <1>3 DEF Init, Turns, Truthful
<1>5. Named /\ Held
  BY <1>2 DEF Init, Named, Held, Alive
<1>6. Budget
  <2>1. With(task) = {}
    BY <1>2 DEF With
  <2>2. QED  BY <2>1, FS_EmptySet, SocketsAssumption DEF Budget, Init
<1>7. Kept
  BY DEF Init, Kept
<1>8. QED  BY <1>1, <1>4, <1>5, <1>6, <1>7 DEF Inv, Basic, Single

(* What a request may change: settings, and the HTTP server's call, which    *)
(* begins when its last one has returned.                                    *)
LEMMA RequestStep ==
    ASSUME Basic, Requests
    PROVE  /\ UNCHANGED <<responsive, running, handle, host, task, lost, raced, panicked>>
           /\ cfg' \in Configs /\ led' \in BOOLEAN /\ forced' \in BOOLEAN
           /\ \/ UNCHANGED call
              \/ /\ call["httpd"] = "idle"
                 /\ \E what \in {"idle", "start", "stop"} :
                      call' = [call EXCEPT !["httpd"] = what]
<1>1. cfg \in Configs /\ led \in BOOLEAN /\ forced \in BOOLEAN
  BY DEF Basic, Types
<1>2. ASSUME NEW on \in BOOLEAN
      PROVE  SwitchCall(on) \in {"idle", "start", "stop"}
  BY DEF SwitchCall
<1>3. CASE \E on \in BOOLEAN : LedState(on)
  BY <1>1, <1>2, <1>3 DEF LedState, Request
<1>4. CASE \E on \in BOOLEAN : AudioState(on)
  <2>1. PICK on \in BOOLEAN : AudioState(on)
    BY <1>4
  <2>2. Request(SwitchCall(on)) /\ SwitchCall(on) \in {"idle", "start", "stop"}
    BY <1>2, <2>1 DEF AudioState
  <2>3. /\ UNCHANGED <<responsive, running, handle, host, task, lost, panicked, cfg, led>>
        /\ forced' = ~on
    BY <2>1 DEF AudioState
  <2>4. QED  BY <1>1, <2>2, <2>3 DEF Request
<1>5. CASE \E c \in Configs : SaveLed(c)
  BY <1>1, <1>5 DEF SaveLed, Request
<1>6. CASE \E on \in BOOLEAN : MqttSet(on)
  BY <1>1, <1>6 DEF MqttSet
<1>7. QED  BY <1>3, <1>4, <1>5, <1>6 DEF Requests

(* A step of a call; if it meets no other one halfway, the calls stay apart. *)
LEMMA CallStep ==
    ASSUME Basic, NEW c \in Callers, Calls(c)
    PROVE  /\ ~panicked /\ UNCHANGED <<responsive, cfg, led, forced, panicked>>
           /\ call' \in CallTypes /\ raced' \in BOOLEAN
           /\ \A d \in Callers : d # c => call'[d] = call[d]
           /\ ~raced' => ~raced /\ \A d \in Callers : d # c => ~Midway(d)
<1>1. call \in CallTypes /\ raced \in BOOLEAN
  BY DEF Basic, Types
<1>2. /\ ~panicked /\ UNCHANGED <<responsive, cfg, led, forced, panicked>>
  BY DEF Calls, StartCheck, StartCreate, StartFail, StopFlag, StopDelete, StopSelf
<1>3. PICK x \in {"idle", "create", "wait", "gone"} : Become(c, x)
  BY DEF Calls, StartCheck, StartCreate, StartFail, StopFlag, StopDelete, StopSelf
<1>4. call' \in CallTypes
  BY <1>1, <1>3 DEF Become, CallTypes
<1>5. \A d \in Callers : d # c => call'[d] = call[d]
  BY <1>1, <1>3 DEF Become, CallTypes
<1>6. /\ raced' \in BOOLEAN
      /\ ~raced' => ~raced /\ \A d \in Callers : d # c => ~Midway(d)
  BY <1>1, <1>3 DEF Become
<1>7. QED  BY <1>2, <1>4, <1>5, <1>6

(* What the steps of a call leave to check.                                  *)
LEMMA Started ==
    ASSUME Basic, NEW c \in Callers, StartCreate(c)
    PROVE  \E t \in Tasks :
             /\ handle' = t /\ ~Alive(t) /\ task[t].sock = NULL
             /\ \E s \in TaskStates : /\ task' = [task EXCEPT ![t] = s]
                                     /\ s.at = "outer" /\ s.sock = NULL
<1>1. PICK t \in Tasks : /\ ~Alive(t) /\ handle' = t
                         /\ task' = [task EXCEPT ![t].at = "outer"]
  BY DEF StartCreate
<1>2. task[t] \in TaskStates
  BY DEF Basic, Types
<1>3. task[t].sock = NULL
  BY <1>1 DEF Basic, Held, Alive, Holding
<1> DEFINE s == [task[t] EXCEPT !.at = "outer"]
<1>4. s \in TaskStates /\ s.at = "outer" /\ s.sock = NULL
  BY <1>2, <1>3 DEF TaskStates, Places
<1>5. task' = [task EXCEPT ![t] = s]
  BY <1>1
<1> HIDE DEF s
<1>6. QED  BY <1>1, <1>3, <1>4, <1>5

LEMMA Deleted ==
    ASSUME Basic, NEW c \in Callers, StopDelete(c)
    PROVE  /\ handle \in Tasks /\ handle' = NULL
           /\ NoTask \in TaskStates /\ NoTask.at = "none" /\ NoTask.sock = NULL
           /\ task' = [task EXCEPT ![handle] = NoTask]
           /\ lost' = lost + One(task[handle].sock)
           /\ responsive => task[handle].sock = NULL
<1>1. /\ handle # NULL /\ handle' = NULL
      /\ task' = [task EXCEPT ![handle] = NoTask]
      /\ lost' = IF task[handle].sock = NULL THEN lost ELSE lost + 1
      /\ responsive => Settled(handle)
  BY DEF StopDelete
<1>2. handle \in Tasks /\ lost \in Nat
  BY <1>1 DEF Basic, Types
<1>3. Settled(handle) => task[handle].sock = NULL
  BY <1>2 DEF Basic, Held, Settled, Holding
<1>4. NoTask \in TaskStates /\ NoTask.at = "none" /\ NoTask.sock = NULL
  BY DEF NoTask, TaskStates, Places
<1>5. lost' = lost + One(task[handle].sock)
  BY <1>1, <1>2 DEF One
<1>6. QED  BY <1>1, <1>2, <1>3, <1>4, <1>5

LEMMA TypesStep == Basic /\ [Next]_vars => Types'
<1> SUFFICES ASSUME Basic, [Next]_vars PROVE Types'
  OBVIOUS
<1>1. Types /\ handle \in Tasks \union {NULL}
  BY DEF Basic, Types
<1>2. CASE Requests
  <2>1. call' \in CallTypes
    BY <1>1, <1>2, RequestStep DEF Types, CallTypes
  <2>2. /\ UNCHANGED <<responsive, running, handle, host, task, lost, raced, panicked>>
        /\ cfg' \in Configs /\ led' \in BOOLEAN /\ forced' \in BOOLEAN
    BY <1>2, RequestStep
  <2>3. QED  BY <1>1, <2>1, <2>2 DEF Types
<1>3. ASSUME NEW c \in Callers, Calls(c)
      PROVE  Types'
  <2>1. /\ UNCHANGED <<responsive, cfg, led, forced, panicked>>
        /\ call' \in CallTypes /\ raced' \in BOOLEAN
    BY <1>3, CallStep
  <2>2. ASSUME running' \in BOOLEAN, handle' \in Tasks \union {NULL},
               host' \in Hosts \union {NULL}, task' \in [Tasks -> TaskStates],
               lost' \in Nat
        PROVE  Types'
    BY <1>1, <2>1, <2>2 DEF Types
  <2>3. CASE StartCheck(c)
    <3>1. host' \in Hosts \union {NULL}
      BY <1>1, <2>3 DEF StartCheck, Types, Configs
    <3>2. running' \in BOOLEAN
      BY <2>3 DEF StartCheck
    <3>3. UNCHANGED <<handle, task, lost>>
      BY <2>3 DEF StartCheck
    <3>4. QED  BY <1>1, <2>2, <3>1, <3>2, <3>3 DEF Types
  <2>4. CASE StartCreate(c)
    <3>1. handle' \in Tasks \union {NULL} /\ task' \in [Tasks -> TaskStates]
      BY <1>1, <2>4, Started DEF Types
    <3>2. UNCHANGED <<running, host, lost>>
      BY <2>4 DEF StartCreate
    <3>3. QED  BY <1>1, <2>2, <3>1, <3>2 DEF Types
  <2>5. CASE StartFail(c) \/ StopFlag(c)
    <3>1. running' = FALSE /\ handle' \in {handle, NULL} /\ UNCHANGED <<host, task, lost>>
      BY <2>5 DEF StartFail, StopFlag
    <3>2. QED  BY <1>1, <2>2, <3>1 DEF Types
  <2>6. CASE StopDelete(c)
    <3>1. /\ handle' = NULL /\ task' \in [Tasks -> TaskStates]
          /\ lost' = lost + One(task[handle].sock)
      BY <1>1, <2>6, Deleted DEF Types
    <3>2. lost' \in Nat
      BY <1>1, <3>1 DEF Types, One
    <3>3. UNCHANGED <<running, host>>
      BY <2>6 DEF StopDelete
    <3>4. QED  BY <1>1, <2>2, <3>1, <3>2, <3>3 DEF Types
  <2>7. CASE StopSelf(c)
    <3>1. UNCHANGED <<running, handle, host, task, lost>>
      BY <2>7 DEF StopSelf
    <3>2. QED  BY <1>1, <2>2, <3>1 DEF Types
  <2>8. QED  BY <1>3, <2>3, <2>4, <2>5, <2>6, <2>7 DEF Calls
<1>4. ASSUME NEW t \in Tasks, Step(t)
      PROVE  Types'
  <2>1. UNCHANGED <<responsive, cfg, led, forced, running, host, lost, call, raced>>
    BY <1>4, TaskStep
  <2>2. /\ handle' \in Tasks \union {NULL} /\ task' \in [Tasks -> TaskStates]
        /\ panicked' \in BOOLEAN
    <3>1. CASE MovesOn(t)
      BY <1>1, <3>1 DEF MovesOn, Types
    <3>2. CASE Exit(t)
      BY <1>1, <3>2 DEF Exit, Types
    <3>3. QED  BY <1>4, <3>1, <3>2, TaskStep
  <2>3. QED  BY <1>1, <2>1, <2>2 DEF Types
<1>5. CASE Reboot
  <2>1. NoTask \in TaskStates /\ BootCall \in {"idle", "start"}
    BY DEF NoTask, TaskStates, Places, BootCall
  <2>2. task' \in [Tasks -> TaskStates]
    BY <1>5, <2>1 DEF Reboot
  <2>3. call' \in CallTypes
    BY <1>5, <2>1 DEF Reboot, Callers, CallTypes
  <2>4. led' \in BOOLEAN
    BY <1>5, FlagsAssumption DEF Reboot
  <2>5. /\ forced' = FALSE /\ running' = FALSE /\ raced' = FALSE /\ panicked' = FALSE
        /\ handle' = NULL /\ host' = NULL /\ lost' = 0
        /\ UNCHANGED <<responsive, cfg>>
    BY <1>5 DEF Reboot
  <2>6. QED  BY <1>1, <2>2, <2>3, <2>4, <2>5 DEF Types
<1>6. CASE UNCHANGED vars
  BY <1>1, <1>6 DEF Types, vars
<1>7. QED  BY <1>2, <1>3, <1>4, <1>5, <1>6 DEF Next

LEMMA HeldStep == Basic /\ [Next]_vars => Held'
<1> SUFFICES ASSUME Basic, [Next]_vars PROVE Held'
  OBVIOUS
<1>1. Held /\ task \in [Tasks -> TaskStates]
  BY DEF Basic, Types
<1>2. CASE UNCHANGED task
  BY <1>1, <1>2 DEF Held
<1>3. ASSUME NEW t \in Tasks, NEW s, task' = [task EXCEPT ![t] = s],
             s.sock # NULL => s.at \in Holding
      PROVE  Held'
  <2>1. task'[t] = s /\ \A u \in Tasks : u # t => task'[u] = task[u]
    BY <1>1, <1>3
  <2>2. QED  BY <1>1, <1>3, <2>1 DEF Held
<1>4. CASE Requests
  BY <1>2, <1>4, RequestStep
<1>5. ASSUME NEW c \in Callers, Calls(c)
      PROVE  Held'
  <2>1. CASE StartCheck(c) \/ StopFlag(c) \/ StartFail(c) \/ StopSelf(c)
    BY <1>2, <2>1 DEF StartCheck, StopFlag, StartFail, StopSelf
  <2>2. CASE StartCreate(c)
    BY <1>3, <2>2, Started
  <2>3. CASE StopDelete(c)
    BY <1>3, <2>3, Deleted
  <2>4. QED  BY <1>5, <2>1, <2>2, <2>3 DEF Calls
<1>6. ASSUME NEW t \in Tasks, Step(t)
      PROVE  Held'
  <2>1. CASE MovesOn(t)
    BY <1>3, <2>1 DEF MovesOn
  <2>2. CASE Exit(t)
    BY <1>2, <2>2 DEF Exit
  <2>3. QED  BY <1>6, <2>1, <2>2, TaskStep
<1>7. CASE Reboot
  <2>1. \A t \in Tasks : task'[t].sock = NULL
    BY <1>7 DEF Reboot, NoTask
  <2>2. QED  BY <2>1 DEF Held
<1>8. CASE UNCHANGED vars
  BY <1>2, <1>8 DEF vars
<1>9. QED  BY <1>4, <1>5, <1>6, <1>7, <1>8 DEF Next

LEMMA BudgetStep == Basic /\ [Next]_vars => Budget'
<1> SUFFICES ASSUME Basic, [Next]_vars PROVE Budget'
  OBVIOUS
<1>1. /\ Budget /\ lost \in Nat /\ MaxSockets \in Nat /\ task \in [Tasks -> TaskStates]
      /\ IsFiniteSet(With(task)) /\ Cardinality(With(task)) \in Nat
  BY SocketsAssumption, FS_CardinalityType DEF Basic, Types, Budget
<1>2. CASE UNCHANGED <<lost, task>>
  BY <1>1, <1>2 DEF Budget
<1>3. ASSUME NEW t \in Tasks, NEW s \in TaskStates, task' = [task EXCEPT ![t] = s]
      PROVE  /\ IsFiniteSet(With(task')) /\ Cardinality(With(task')) \in Nat
             /\ Cardinality(With(task')) + One(task[t].sock)
                  = Cardinality(With(task)) + One(s.sock)
  <2>1. /\ IsFiniteSet(With(task'))
        /\ Cardinality(With(task')) + One(task[t].sock)
             = Cardinality(With(task)) + One(s.sock)
    BY <1>1, <1>3, Recount
  <2>2. QED  BY <2>1, FS_CardinalityType
<1>4. CASE Requests
  BY <1>2, <1>4, RequestStep
<1>5. ASSUME NEW c \in Callers, Calls(c)
      PROVE  Budget'
  <2>1. CASE StartCheck(c) \/ StopFlag(c) \/ StartFail(c) \/ StopSelf(c)
    BY <1>2, <2>1 DEF StartCheck, StopFlag, StartFail, StopSelf
  <2>2. CASE StartCreate(c)
    <3>1. PICK t \in Tasks, s \in TaskStates :
            task[t].sock = NULL /\ task' = [task EXCEPT ![t] = s] /\ s.sock = NULL
      BY <2>2, Started
    <3>2. /\ IsFiniteSet(With(task')) /\ Cardinality(With(task')) \in Nat
          /\ Cardinality(With(task')) + One(task[t].sock)
               = Cardinality(With(task)) + One(s.sock)
      BY <1>3, <3>1
    <3>3. lost' = lost
      BY <2>2 DEF StartCreate
    <3>4. QED  BY <1>1, <3>1, <3>2, <3>3 DEF Budget, One
  <2>3. CASE StopDelete(c)
    <3>1. /\ handle \in Tasks /\ NoTask \in TaskStates /\ NoTask.sock = NULL
          /\ task' = [task EXCEPT ![handle] = NoTask]
          /\ lost' = lost + One(task[handle].sock)
      BY <2>3, Deleted
    <3>2. /\ IsFiniteSet(With(task')) /\ Cardinality(With(task')) \in Nat
          /\ Cardinality(With(task')) + One(task[handle].sock)
               = Cardinality(With(task)) + One(NoTask.sock)
      BY <1>3, <3>1
    <3>3. One(task[handle].sock) \in Nat
      BY DEF One
    <3>4. QED  BY <1>1, <3>1, <3>2, <3>3 DEF Budget, One
  <2>4. QED  BY <1>5, <2>1, <2>2, <2>3 DEF Calls
<1>6. ASSUME NEW t \in Tasks, Step(t)
      PROVE  Budget'
  <2>1. CASE MovesOn(t)
    <3>1. PICK s \in TaskStates :
            /\ task' = [task EXCEPT ![t] = s]
            /\ s.sock # NULL => \/ task[t].sock # NULL
                               \/ lost + Cardinality(With(task)) < MaxSockets
      BY <2>1 DEF MovesOn
    <3>2. /\ IsFiniteSet(With(task')) /\ Cardinality(With(task')) \in Nat
          /\ Cardinality(With(task')) + One(task[t].sock)
               = Cardinality(With(task)) + One(s.sock)
      BY <1>3, <3>1
    <3>3. lost' = lost
      BY <1>6, TaskStep
    <3>4. QED  BY <1>1, <3>1, <3>2, <3>3 DEF Budget, One
  <2>2. CASE Exit(t)
    BY <1>2, <2>2 DEF Exit
  <2>3. QED  BY <1>6, <2>1, <2>2, TaskStep
<1>7. CASE Reboot
  <2>1. lost' = 0 /\ \A t \in Tasks : task'[t].sock = NULL
    BY <1>7 DEF Reboot, NoTask
  <2>2. With(task') = {}
    BY <2>1 DEF With
  <2>3. QED  BY <1>1, <2>1, <2>2, FS_EmptySet DEF Budget
<1>8. CASE UNCHANGED vars
  BY <1>2, <1>8 DEF vars
<1>9. QED  BY <1>4, <1>5, <1>6, <1>7, <1>8 DEF Next

LEMMA KeptStep == Basic /\ [Next]_vars => Kept'
<1> SUFFICES ASSUME Basic, [Next]_vars, responsive' PROVE lost' = 0
  BY DEF Kept
<1>1. ASSUME UNCHANGED <<responsive, lost>>
      PROVE  lost' = 0
  BY <1>1 DEF Basic, Kept
<1>2. CASE Requests
  BY <1>1, <1>2, RequestStep
<1>3. ASSUME NEW c \in Callers, Calls(c)
      PROVE  lost' = 0
  <2>1. CASE StartCheck(c) \/ StopFlag(c) \/ StartFail(c) \/ StartCreate(c)
          \/ StopSelf(c)
    BY <1>1, <2>1 DEF StartCheck, StopFlag, StartFail, StartCreate, StopSelf
  <2>2. CASE StopDelete(c)
    <3>1. responsive
      BY <1>3, CallStep
    <3>2. lost = 0
      BY <3>1 DEF Basic, Kept
    <3>3. task[handle].sock = NULL
      BY <2>2, <3>1, Deleted
    <3>4. QED  BY <2>2, <3>2, <3>3 DEF StopDelete
  <2>3. QED  BY <1>3, <2>1, <2>2 DEF Calls
<1>4. CASE \E t \in Tasks : Step(t)
  BY <1>1, <1>4, TaskStep
<1>5. CASE Reboot
  BY <1>5 DEF Reboot
<1>6. CASE UNCHANGED vars
  BY <1>1, <1>6 DEF vars
<1>7. QED  BY <1>2, <1>3, <1>4, <1>5, <1>6 DEF Next
-----------------------------------------------------------------------------
(* While no two calls have met halfway.                                      *)
LEMMA Apart ==
    ASSUME Inv, [Next]_vars, ~Reboot, ~raced'
    PROVE  Single
<1>1. CASE Requests
  BY <1>1, RequestStep DEF Inv
<1>2. CASE \E c \in Callers : Calls(c)
  BY <1>2, CallStep DEF Inv
<1>3. CASE \E t \in Tasks : Step(t)
  BY <1>3, TaskStep DEF Inv
<1>4. CASE UNCHANGED vars
  BY <1>4 DEF Inv, vars
<1>5. QED  BY <1>1, <1>2, <1>3, <1>4 DEF Next

LEMMA Rebooted ==
    ASSUME Basic, Reboot
    PROVE  Single'
<1>1. /\ running' = FALSE /\ handle' = NULL
      /\ \A t \in Tasks : task'[t].at = "none"
  BY DEF Reboot, NoTask
<1>2. \A c \in Callers : call'[c] \in {"idle", "start"}
  BY DEF Reboot, BootCall
<1>3. Turns' /\ Truthful'
  BY <1>1, <1>2 DEF Turns, Truthful, Midway
<1>4. Named'
  BY <1>1 DEF Named, Alive
<1>5. QED  BY <1>3, <1>4 DEF Single

LEMMA NamedStep ==
    ASSUME Basic, Single, [Next]_vars, ~Reboot
    PROVE  Named'
<1>1. Named /\ task \in [Tasks -> TaskStates] /\ handle \in Tasks \union {NULL}
  BY DEF Basic, Types, Single
<1>2. ASSUME UNCHANGED <<handle, task, panicked>>
      PROVE  Named'
  BY <1>1, <1>2 DEF Named, Alive
<1>3. CASE Requests
  BY <1>2, <1>3, RequestStep
<1>4. ASSUME NEW c \in Callers, Calls(c)
      PROVE  Named'
  <2>1. CASE StartCheck(c) \/ StopFlag(c) \/ StopSelf(c)
    BY <1>2, <2>1 DEF StartCheck, StopFlag, StopSelf
  <2>2. CASE StartCreate(c)
    <3>1. ~panicked /\ handle = NULL
      BY <2>2 DEF StartCreate, Single, Truthful
    <3>2. \A u \in Tasks : ~Alive(u)
      BY <1>1, <3>1, NullAssumption DEF Named
    <3>3. PICK t \in Tasks : /\ handle' = t
                             /\ \E s \in TaskStates : /\ task' = [task EXCEPT ![t] = s]
                                                     /\ s.at = "outer"
      BY <2>2, Started
    <3>4. task'[t].at = "outer" /\ \A u \in Tasks : u # t => task'[u] = task[u]
      BY <1>1, <3>3
    <3>5. QED  BY <3>2, <3>3, <3>4 DEF Named, Alive
  <2>3. CASE StartFail(c)
    <3>1. handle = NULL
      BY <2>3 DEF StartFail, Single, Truthful
    <3>2. UNCHANGED <<handle, task, panicked>>
      BY <2>3, <3>1 DEF StartFail
    <3>3. QED  BY <1>2, <3>2
  <2>4. CASE StopDelete(c)
    <3>1. /\ handle \in Tasks /\ handle' = NULL
          /\ task' = [task EXCEPT ![handle] = NoTask] /\ NoTask.at = "none"
      BY <2>4, Deleted
    <3>2. /\ task'[handle].at = "none"
          /\ \A u \in Tasks : u # handle => task'[u] = task[u]
      BY <1>1, <3>1
    <3>3. ~panicked /\ ~panicked'
      BY <2>4 DEF StopDelete
    <3>4. QED  BY <1>1, <3>1, <3>2, <3>3 DEF Named, Alive
  <2>5. QED  BY <1>4, <2>1, <2>2, <2>3, <2>4 DEF Calls
<1>5. ASSUME NEW t \in Tasks, Step(t)
      PROVE  Named'
  <2>1. ~panicked /\ Alive(t) /\ handle = t /\ (MovesOn(t) \/ Exit(t))
    BY <1>1, <1>5, TaskStep DEF Named
  <2>2. \A u \in Tasks : u # t => ~Alive(u)
    BY <1>1, <2>1 DEF Named
  <2>3. CASE MovesOn(t)
    <3>1. UNCHANGED <<handle, panicked>>
      BY <2>3 DEF MovesOn
    <3>2. task'[t].at # "none" /\ \A u \in Tasks : u # t => task'[u] = task[u]
      BY <1>1, <2>3 DEF MovesOn
    <3>3. QED  BY <2>1, <2>2, <3>1, <3>2 DEF Named, Alive
  <2>4. CASE Exit(t)
    <3>1. task[t].at = "exit" /\ handle' = NULL /\ panicked' /\ UNCHANGED task
      BY <2>4 DEF Exit, At
    <3>2. QED  BY <2>2, <3>1 DEF Named, Alive
  <2>5. QED  BY <2>1, <2>3, <2>4
<1>6. CASE UNCHANGED vars
  BY <1>2, <1>6 DEF vars
<1>7. QED  BY <1>3, <1>4, <1>5, <1>6 DEF Next

LEMMA TurnsStep ==
    ASSUME Basic, Single, [Next]_vars, ~Reboot, ~raced'
    PROVE  Turns'
<1>1. Turns /\ call \in CallTypes
  BY DEF Basic, Types, Single
<1>2. CASE Requests
  <2>1. CASE UNCHANGED call
    BY <1>1, <2>1 DEF Turns, Midway
  <2>2. CASE \E what \in {"idle", "start", "stop"} :
               call' = [call EXCEPT !["httpd"] = what]
    BY <1>1, <2>2 DEF Turns, Midway, CallTypes
  <2>3. QED  BY <1>2, <2>1, <2>2, RequestStep
<1>3. ASSUME NEW c \in Callers, Calls(c)
      PROVE  Turns'
  <2>1. \A d \in Callers : d # c => call'[d] = call[d] /\ ~Midway(d)
    BY <1>3, CallStep
  <2>2. QED  BY <2>1 DEF Turns, Midway
<1>4. CASE \E t \in Tasks : Step(t)
  BY <1>1, <1>4, TaskStep DEF Turns, Midway
<1>5. CASE UNCHANGED vars
  BY <1>1, <1>5 DEF Turns, Midway, vars
<1>6. QED  BY <1>2, <1>3, <1>4, <1>5 DEF Next

LEMMA TruthfulStep ==
    ASSUME Basic, Single, [Next]_vars, ~Reboot, ~raced'
    PROVE  Truthful'
<1>1. /\ Truthful /\ running \in BOOLEAN /\ handle \in Tasks \union {NULL}
      /\ NULL \notin Tasks /\ call \in CallTypes
  BY NullAssumption DEF Basic, Types, Single
<1>2. ASSUME UNCHANGED <<running, handle, panicked, call>>
      PROVE  Truthful'
  BY <1>1, <1>2 DEF Truthful, Midway
<1>3. CASE Requests
  <2>1. UNCHANGED <<running, handle, panicked>>
    BY <1>3, RequestStep
  <2>2. CASE UNCHANGED call
    BY <1>2, <2>1, <2>2
  <2>3. CASE /\ call["httpd"] = "idle"
             /\ \E what \in {"idle", "start", "stop"} :
                  call' = [call EXCEPT !["httpd"] = what]
    <3>1. \A c \in Callers : /\ call'[c] = "create" <=> call[c] = "create"
                             /\ call'[c] = "wait" <=> call[c] = "wait"
      BY <1>1, <2>3 DEF CallTypes
    <3>2. QED  BY <1>1, <2>1, <3>1 DEF Truthful, Midway
  <2>4. QED  BY <1>3, <2>2, <2>3, RequestStep
<1>4. ASSUME NEW c \in Callers, Calls(c)
      PROVE  Truthful'
  <2>1. /\ ~panicked
        /\ \A d \in Callers : d # c => ~Midway(d) /\ call'[d] = call[d]
    BY <1>4, CallStep
  <2>2. call[c] \in {"start", "stop"} => (running <=> handle # NULL)
    BY <1>1, <2>1 DEF Truthful, Midway
  <2>3. /\ call[c] = "create" => running /\ handle = NULL
        /\ call[c] = "wait" => ~running /\ handle # NULL
    BY <1>1, <2>1 DEF Truthful
  <2>4. \A d \in Callers : d # c => call'[d] # "create" /\ call'[d] # "wait"
    BY <2>1 DEF Midway
  <2>5. ASSUME call'[c] = "idle", running' <=> handle' # NULL
        PROVE  Truthful'
    <3>1. \A d \in Callers : call'[d] # "create" /\ call'[d] # "wait"
      BY <2>4, <2>5
    <3>2. QED  BY <2>5, <3>1 DEF Truthful
  <2>6. ASSUME NEW x, Become(c, x)
        PROVE  call'[c] = x
    BY <1>1, <2>6 DEF Become, CallTypes
  <2>7. CASE StartCheck(c)
    <3> DEFINE create == ~(~cfg.enabled \/ cfg.host = NULL) /\ handle = NULL
    <3>1. /\ call[c] = "start" /\ Become(c, IF create THEN "create" ELSE "idle")
          /\ running' = (create \/ running) /\ handle' = handle
      BY <2>7 DEF StartCheck
    <3>2. CASE create
      <4>1. call'[c] = "create" /\ running' /\ handle' = NULL
        BY <2>6, <3>1, <3>2
      <4>2. Midway(c)'
        BY <4>1 DEF Midway
      <4>3. QED  BY <2>4, <4>1, <4>2 DEF Truthful
    <3>3. CASE ~create
      <4>1. call'[c] = "idle"
        BY <2>6, <3>1, <3>3
      <4>2. running' = running
        BY <1>1, <3>1, <3>3
      <4>3. running' <=> handle' # NULL
        BY <2>2, <3>1, <4>2
      <4>4. QED  BY <2>5, <4>1, <4>3
    <3>4. QED  BY <3>2, <3>3
  <2>8. CASE StartCreate(c)
    <3>1. call'[c] = "idle" /\ call[c] = "create" /\ running' = running /\ handle' \in Tasks
      BY <2>6, <2>8 DEF StartCreate
    <3>2. running' /\ handle' # NULL
      BY <1>1, <2>3, <3>1
    <3>3. QED  BY <2>5, <3>1, <3>2
  <2>9. CASE StartFail(c)
    <3>1. call'[c] = "idle" /\ ~running' /\ handle' = NULL
      BY <2>6, <2>9 DEF StartFail
    <3>2. QED  BY <2>5, <3>1
  <2>10. CASE StopFlag(c)
    <3>1. /\ Become(c, IF handle = NULL THEN "idle" ELSE "wait")
          /\ ~running' /\ handle' = handle
      BY <2>10 DEF StopFlag
    <3>2. CASE handle = NULL
      <4>1. call'[c] = "idle" /\ handle' = NULL
        BY <2>6, <3>1, <3>2
      <4>2. QED  BY <2>5, <3>1, <4>1
    <3>3. CASE handle # NULL
      <4>1. call'[c] = "wait" /\ handle' # NULL
        BY <2>6, <3>1, <3>3
      <4>2. Midway(c)'
        BY <4>1 DEF Midway
      <4>3. QED  BY <2>4, <3>1, <4>1, <4>2 DEF Truthful
    <3>4. QED  BY <3>2, <3>3
  <2>11. CASE StopDelete(c)
    <3>1. call'[c] = "idle" /\ handle' = NULL /\ running' = running /\ call[c] = "wait"
      BY <2>6, <2>11 DEF StopDelete
    <3>2. ~running'
      BY <2>3, <3>1
    <3>3. QED  BY <2>5, <3>1, <3>2
  <2>12. CASE StopSelf(c)
    BY <2>3, <2>12 DEF StopSelf
  <2>13. QED  BY <1>4, <2>7, <2>8, <2>9, <2>10, <2>11, <2>12 DEF Calls
<1>5. ASSUME NEW t \in Tasks, Step(t)
      PROVE  Truthful'
  <2>1. CASE MovesOn(t)
    <3>1. UNCHANGED <<handle, panicked>>
      BY <2>1 DEF MovesOn
    <3>2. UNCHANGED <<running, call>>
      BY <1>5, TaskStep
    <3>3. QED  BY <1>2, <3>1, <3>2
  <2>2. CASE Exit(t)
    BY <2>2 DEF Exit, Truthful
  <2>3. QED  BY <1>5, <2>1, <2>2, TaskStep
<1>6. CASE UNCHANGED vars
  BY <1>2, <1>6 DEF vars
<1>7. QED  BY <1>3, <1>4, <1>5, <1>6 DEF Next
-----------------------------------------------------------------------------
(* The invariant holds throughout.                                           *)
LEMMA Invariance == Spec => []Inv
<1>1. Inv /\ [Next]_vars => Inv'
  <2> SUFFICES ASSUME Inv, [Next]_vars PROVE Inv'
    OBVIOUS
  <2>1. Basic
    BY DEF Inv
  <2>2. Types'
    BY <2>1, TypesStep
  <2>3. Held'
    BY <2>1, HeldStep
  <2>4. Budget' /\ Kept'
    BY <2>1, BudgetStep, KeptStep
  <2>5. CASE Reboot
    BY <2>1, <2>2, <2>3, <2>4, <2>5, Rebooted DEF Inv, Basic
  <2>6. CASE raced'
    BY <2>2, <2>3, <2>4, <2>6 DEF Inv, Basic
  <2>7. CASE ~Reboot /\ ~raced'
    <3>1. Single
      BY <2>7, Apart
    <3>2. Named'
      BY <2>1, <2>7, <3>1, NamedStep
    <3>3. Turns'
      BY <2>1, <2>7, <3>1, TurnsStep
    <3>4. Truthful'
      BY <2>1, <2>7, <3>1, TruthfulStep
    <3>5. QED  BY <2>2, <2>3, <2>4, <3>2, <3>3, <3>4 DEF Inv, Basic, Single
  <2>8. QED  BY <2>5, <2>6, <2>7
<1>2. QED  BY InitInv, <1>1, PTL DEF Spec

(* The client never has more sockets than there are, those that were lost    *)
(* included, for every number of sockets, however it is stopped and however  *)
(* the calls meet.                                                           *)
THEOREM SocketsBounded == Spec => []TypeOK
<1>1. Inv => TypeOK
  <2> SUFFICES ASSUME Inv PROVE TypeOK
    OBVIOUS
  <2>1. Types /\ Budget
    BY DEF Inv, Basic
  <2>2. /\ Cardinality(With(task)) \in Nat /\ lost \in Nat /\ MaxSockets \in Nat
        /\ Used = lost + Cardinality(With(task))
    BY <2>1, FS_CardinalityType, SocketsAssumption DEF Types, Budget, Used, With
  <2>3. lost \in 0..MaxSockets /\ Used <= MaxSockets
    BY <2>1, <2>2 DEF Budget
  <2>4. {responsive, led, forced, running, raced, panicked} \subseteq BOOLEAN
    BY <2>1, Zenon DEF Types
  <2>5. QED  BY <2>1, <2>3, <2>4 DEF TypeOK, Types, TaskStates, Places, CallTypes
<1>2. QED  BY Invariance, <1>1, PTL

(* Every live client is the one the next stop deletes, for every number of   *)
(* tasks that could be made and whatever fails, as long as app_main's start  *)
(* and a request have not met halfway.                                       *)
THEOREM OneClientAtATime == Spec => []OneClient
<1>1. Inv => OneClient
  BY DEF Inv, Single, Named, OneClient
<1>2. QED  BY Invariance, <1>1, PTL

(* Between the calls s_running says whether there is a client, as long as    *)
(* app_main's start and a request have not met halfway.                      *)
THEOREM RunningTellsTheTruth == Spec => []RunningMeansClient
<1>1. Inv => RunningMeansClient
  <2> SUFFICES ASSUME Inv, ~raced, ~panicked, \A c \in Callers : ~Midway(c)
               PROVE running <=> ~NoClient
    BY DEF RunningMeansClient
  <2>1. running <=> handle # NULL
    BY DEF Inv, Single, Truthful
  <2>2. handle # NULL => ~NoClient
    BY DEF Inv, Basic, Types, Single, Named, NoClient
  <2>3. ~NoClient => handle # NULL
    BY NullAssumption DEF Inv, Single, Named, NoClient
  <2>4. QED  BY <2>1, <2>2, <2>3
<1>2. QED  BY Invariance, <1>1, PTL

(* A client of a server that streams is never deleted with a socket open,    *)
(* also when calls met halfway.                                              *)
THEOREM StreamingStopsClean == Spec => []NoSocketLost
<1>1. Inv => NoSocketLost
  BY DEF Inv, Basic, Kept, NoSocketLost
<1>2. QED  BY Invariance, <1>1, PTL

-----------------------------------------------------------------------------
(* The safe half of ClientReaches: a client of servers that answer finds a   *)
(* socket whenever it wants one, however often it was stopped, started and   *)
(* disconnected before: nothing can starve it, as long as calls have not met *)
(* halfway (snapclient_light.cpp:601-695).                                   *)
SocketLeft ==
    responsive /\ ~raced =>
      \A t \in Tasks : task[t].at = "resolve" => Used < MaxSockets

THEOREM NeverOutOfSockets == Spec => []SocketLeft
<1>1. Inv => SocketLeft
  <2> SUFFICES ASSUME Inv, responsive, ~raced, NEW t \in Tasks, task[t].at = "resolve"
               PROVE  Used < MaxSockets
    BY DEF SocketLeft
  <2>1. lost = 0
    BY DEF Inv, Basic, Kept
  <2>2. handle = t /\ task[t].sock = NULL
    BY DEF Inv, Basic, Held, Holding, Single, Named, Alive
  <2>3. \A u \in Tasks : task[u].sock = NULL
    BY <2>2 DEF Inv, Basic, Held, Holding, Single, Named, Alive
  <2>4. {u \in Tasks : task[u].sock # NULL} = {}
    BY <2>3
  <2>5. Used = 0
    BY <2>1, <2>4, FS_EmptySet DEF Used
  <2>6. QED  BY <2>5, SocketsAssumption
<1>2. QED  BY Invariance, <1>1, PTL

(* The task's function is about to return only if a stop told it to.         *)
ExitsTold == ~raced => \A t \in Tasks : task[t].at = "exit" => ~running \/ panicked

LEMMA ExitsToldStep == Inv /\ ExitsTold /\ [Next]_vars => ExitsTold'
<1> SUFFICES ASSUME Inv, ExitsTold, [Next]_vars, ~raced',
                    NEW t \in Tasks, task'[t].at = "exit"
             PROVE  ~running' \/ panicked'
  BY DEF ExitsTold
<1>1. CASE Reboot
  BY <1>1 DEF Reboot
<1>2. SUFFICES ASSUME ~Reboot PROVE ~running' \/ panicked'
  BY <1>1
<1>3. Single /\ Basic
  BY <1>2, Apart DEF Inv
<1>4. ~raced
  <2>1. CASE Requests
    BY <1>3, <2>1, RequestStep
  <2>2. CASE \E c \in Callers : Calls(c)
    BY <1>3, <2>2, CallStep
  <2>3. CASE \E u \in Tasks : Step(u)
    BY <1>3, <2>3, TaskStep
  <2>4. CASE UNCHANGED vars
    BY <2>4 DEF vars
  <2>5. QED  BY <1>2, <2>1, <2>2, <2>3, <2>4 DEF Next
<1>5. /\ Named /\ task \in [Tasks -> TaskStates]
      /\ task[t].at = "exit" => ~running \/ panicked
  BY <1>3, <1>4 DEF Basic, Single, Types, ExitsTold
<1>6. CASE UNCHANGED <<task, running, panicked>>
  BY <1>5, <1>6
<1>7. CASE Requests
  BY <1>3, <1>6, <1>7, RequestStep
<1>8. ASSUME NEW c \in Callers, Calls(c)
      PROVE  ~running' \/ panicked'
  <2>1. CASE StartCheck(c)
    <3>1. /\ UNCHANGED task /\ ~panicked
          /\ running' => running \/ handle = NULL
      BY <2>1 DEF StartCheck
    <3>2. task[t].at = "exit"
      BY <3>1
    <3>3. handle = t /\ t # NULL
      BY <1>5, <3>1, <3>2, NullAssumption DEF Named, Alive
    <3>4. QED  BY <1>5, <3>1, <3>2, <3>3
  <2>2. CASE StartCreate(c)
    <3>1. PICK u \in Tasks : \E s \in TaskStates :
            task' = [task EXCEPT ![u] = s] /\ s.at = "outer"
      BY <1>3, <2>2, Started
    <3>2. t # u /\ task'[t] = task[t]
      BY <1>5, <3>1
    <3>3. UNCHANGED <<running, panicked>>
      BY <2>2 DEF StartCreate
    <3>4. QED  BY <1>5, <3>2, <3>3
  <2>3. CASE StartFail(c) \/ StopFlag(c)
    BY <2>3 DEF StartFail, StopFlag
  <2>4. CASE StopDelete(c)
    <3>1. call[c] = "wait" /\ ~panicked /\ running' = running
      BY <2>4 DEF StopDelete
    <3>2. QED  BY <1>3, <3>1 DEF Single, Truthful
  <2>5. CASE StopSelf(c)
    BY <1>6, <2>5 DEF StopSelf
  <2>6. QED  BY <1>8, <2>1, <2>2, <2>3, <2>4, <2>5 DEF Calls
<1>9. ASSUME NEW u \in Tasks, Step(u)
      PROVE  ~running' \/ panicked'
  <2>1. UNCHANGED running
    BY <1>3, <1>9, TaskStep
  <2>2. CASE Exit(u)
    BY <2>2 DEF Exit
  <2>3. CASE ~running
    BY <2>1, <2>3
  <2>4. CASE ~Exit(u) /\ running
    <3>1. UNCHANGED panicked /\ ~panicked
      BY <1>3, <1>9, <2>4, TaskStep DEF MovesOn
    <3>2. task[t].at # "exit"
      BY <1>5, <2>4, <3>1
    <3>3. /\ task'[t] # task[t]
          /\ \E x \in Places \ {"exit"} : Goto(u, x) \/ Sleep(u, x)
                \/ task' = [task EXCEPT ![u] = [@ EXCEPT !.at = "connect", !.sock = host]]
      <4>1. CASE Outer(u)
        BY <2>4, <3>2, <4>1 DEF Outer, Places
      <4>2. CASE Inner(u)
        BY <2>4, <3>2, <4>2 DEF Inner, Places
      <4>3. CASE Resolve(u)
        BY <3>2, <4>3 DEF Resolve, Places
      <4>4. CASE ResolveFail(u) \/ Connected(u) \/ ConnectFail(u) \/ DelayEnd(u)
        BY <3>2, <4>4 DEF ResolveFail, Connected, ConnectFail, DelayEnd, Places
      <4>5. CASE RecvData(u) \/ RecvEnd(u) \/ Close(u)
        BY <3>2, <4>5 DEF RecvData, RecvEnd, Close, Places
      <4>6. QED  BY <1>9, <2>4, <4>1, <4>2, <4>3, <4>4, <4>5 DEF Step
    <3>4. PICK x \in Places \ {"exit"} :
            \/ task' = [task EXCEPT ![u] = [@ EXCEPT !.at = x]]
            \/ task' = [task EXCEPT ![u] = [at |-> x, sock |-> NULL, fresh |-> Stopping]]
            \/ task' = [task EXCEPT ![u] = [@ EXCEPT !.at = "connect", !.sock = host]]
      BY <3>3 DEF Goto, Sleep
    <3>5. u = t
      BY <1>5, <3>3, <3>4
    <3>6. task'[t].at \in {x, "connect"}
      <4>1. task[u] \in TaskStates
        BY <1>5
      <4>2. CASE task' = [task EXCEPT ![u] = [task[u] EXCEPT !.at = x]]
        BY <1>5, <3>5, <4>1, <4>2 DEF TaskStates
      <4>3. CASE task' = [task EXCEPT ![u] = [at |-> x, sock |-> NULL, fresh |-> Stopping]]
        BY <1>5, <3>5, <4>3
      <4>4. CASE task' = [task EXCEPT ![u] = [task[u] EXCEPT !.at = "connect", !.sock = host]]
        BY <1>5, <3>5, <4>1, <4>4 DEF TaskStates
      <4>5. QED  BY <3>4, <4>2, <4>3, <4>4
    <3>7. QED  BY <3>4, <3>6
  <2>5. QED  BY <2>2, <2>3, <2>4
<1>10. CASE UNCHANGED vars
  BY <1>6, <1>10 DEF vars
<1>11. QED  BY <1>2, <1>7, <1>8, <1>9, <1>10 DEF Next

(* The client's function returns, which makes FreeRTOS abort, only when a    *)
(* stop has told it to end and has not yet deleted it: no start, request or  *)
(* failure of the network makes a client that is left running end, as long   *)
(* as calls have not met halfway                                             *)
(* (snapclient_light.cpp:601-606, 697-701, 726-733).                         *)
THEOREM EndsOnlyWhenTold ==
    Spec => [][~raced /\ ~panicked /\ panicked' => ~running /\ Stopping]_vars
<1>1. Init => ExitsTold
  BY DEF Init, ExitsTold, NoTask
<1>2. Inv /\ ExitsTold /\ [Next]_vars
        => [~raced /\ ~panicked /\ panicked' => ~running /\ Stopping]_vars
  <2> SUFFICES ASSUME Inv, ExitsTold, Next, ~raced, ~panicked, panicked'
               PROVE  ~running /\ Stopping
    OBVIOUS
  <2>1. Basic /\ Single
    BY DEF Inv
  <2>2. PICK t \in Tasks : Exit(t)
    <3>1. ~Requests /\ ~Reboot
      BY DEF Requests, LedState, AudioState, SaveLed, MqttSet, Reboot
    <3>2. \A c \in Callers : ~Calls(c)
      BY DEF Calls, StartCheck, StartCreate, StartFail, StopFlag, StopDelete, StopSelf
    <3>3. PICK t \in Tasks : Step(t)
      BY <3>1, <3>2 DEF Next
    <3>4. QED  BY <2>1, <3>3, TaskStep DEF MovesOn
  <2>3. task[t].at = "exit" /\ ~running /\ handle = t
    BY <2>1, <2>2 DEF Exit, At, ExitsTold, Single, Named, Alive
  <2>4. PICK c \in Callers : Midway(c)
    BY <2>1, <2>3, NullAssumption DEF Single, Truthful
  <2>5. call[c] # "create"
    BY <2>1, <2>3 DEF Single, Truthful
  <2>6. QED  BY <2>3, <2>4, <2>5 DEF Stopping, Midway
<1>3. ExitsTold /\ Inv /\ [Next]_vars => ExitsTold'
  BY ExitsToldStep
<1>4. QED  BY <1>1, <1>2, <1>3, Invariance, PTL DEF Spec
=============================================================================
