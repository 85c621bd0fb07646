-------------------------- MODULE SessionAgentProofs --------------------------
(***************************************************************************)
(* For any number of clients and daemons and any times: the types, the     *)
(* expiry of keys, and that a stop holds.  As long as no two clients make  *)
(* sure of a daemon at once, and none while a daemon starts or ends, there *)
(* is at most one daemon, the files lead to it, a held key can be reached, *)
(* and all of them together act as the one cell of SessionCell.            *)
(***************************************************************************)
EXTENDS SessionAgent, TLAPS

AgentState == [st : {"off", "closing"} \cup Starting \cup Serving,
               held : BOOLEAN, age : Nat, unused : Nat, idleIn : Nat, absIn : Nat]

LEMMA TypeInit == Init => TypeOK
<1>1. Off \in AgentState
  BY DEF Off, AgentState
<1>2. AtRest \in [at : Steps, tok : AgentOrNone]
  BY DEF AtRest, Steps, AgentOrNone
<1> QED
  BY <1>1, <1>2 DEF Init, TypeOK, AgentOrNone, AgentState

\* What clearKey, armTimers and the put leave is a daemon's state.
LEMMA StatesTyped ==
  ASSUME TypeOK, NEW a \in Agent
  PROVE  /\ Cleared(a) \in AgentState
         /\ Touched(a) \in AgentState
         /\ Holding(a) \in AgentState
         /\ Off \in AgentState
         /\ [Off EXCEPT !.st = "closing"] \in AgentState
         /\ [Off EXCEPT !.st = "stopping"] \in AgentState
         /\ agent[a] \in AgentState
<1>1. agent[a] \in AgentState
  BY DEF TypeOK, AgentState
<1>2. Off \in AgentState
  BY DEF Off, AgentState, Starting, Serving
<1>3. \A x \in AgentState : ArmTimers(x) \in AgentState
  <2> TAKE x \in AgentState
  <2>1. IdleTtl \in Nat
    BY TtlAssumption
  <2>2. (IF x.age <= Absolute THEN Absolute - x.age ELSE 0) \in Nat
    BY TtlAssumption DEF AgentState
  <2> QED
    BY <2>1, <2>2 DEF ArmTimers, AgentState
<1>4. [agent[a] EXCEPT !.unused = 0] \in AgentState
  BY <1>1 DEF AgentState
<1>5. [agent[a] EXCEPT !.held = TRUE, !.age = 0, !.unused = 0] \in AgentState
  BY <1>1 DEF AgentState
<1>6. Cleared(a) \in AgentState
  BY <1>1, <1>2 DEF Cleared, AgentState
<1>7. /\ [Off EXCEPT !.st = "closing"] \in AgentState
      /\ [Off EXCEPT !.st = "stopping"] \in AgentState
  BY <1>2 DEF AgentState, Serving
<1> QED
  BY <1>1, <1>2, <1>3, <1>4, <1>5, <1>6, <1>7 DEF Touched, Holding

\* What a tick makes of one daemon.
LEMMA TickOf ==
  ASSUME Tick, NEW a \in Agent
  PROVE  /\ agent[a].held => agent'[a] = [agent[a] EXCEPT !.age = @ + 1, !.unused = @ + 1,
                                                     !.idleIn = @ - 1, !.absIn = @ - 1]
         /\ ~agent[a].held => agent'[a] = agent[a]
         /\ agent[a].held => agent[a].idleIn > 0 /\ agent[a].absIn > 0
BY DEF Tick

\* It leaves a daemon's state.
LEMMA TickTyped ==
  ASSUME Tick, NEW a \in Agent, agent[a] \in AgentState
  PROVE  agent'[a] \in AgentState
<1>1. CASE agent[a].held
  <2>1. agent[a].idleIn \in Nat /\ agent[a].absIn \in Nat
    BY DEF AgentState
  <2>2. agent[a].idleIn - 1 \in Nat /\ agent[a].absIn - 1 \in Nat
    <3>1. agent[a].idleIn > 0 /\ agent[a].absIn > 0
      BY <1>1, TickOf
    <3> QED
      BY <2>1, <3>1
  <2>3. agent'[a] = [agent[a] EXCEPT !.age = @ + 1, !.unused = @ + 1,
                                     !.idleIn = @ - 1, !.absIn = @ - 1]
    BY <1>1, TickOf
  <2>4. agent[a].age + 1 \in Nat /\ agent[a].unused + 1 \in Nat
    BY DEF AgentState
  <2> QED
    BY <2>2, <2>3, <2>4 DEF AgentState
<1>2. CASE ~agent[a].held
  BY <1>2, TickOf
<1> QED
  BY <1>1, <1>2

\* Every step keeps the types.
LEMMA TypeStep == TypeOK /\ [Next]_vars => TypeOK'
<1> SUFFICES ASSUME TypeOK, [Next]_vars PROVE TypeOK'
  OBVIOUS
<1> USE DEF TypeOK, files
<1>1. ASSUME NEW p \in Client,
             StartGet(p) \/ StartEnsure(p) \/ Ping(p) \/ UnlinkSock(p)
               \/ UnlinkCookie(p) \/ Poll(p) \/ PollPing(p) \/ StartPut(p)
               \/ StartStop(p) \/ Leave(p)
      PROVE  TypeOK'
  <2>1. client' \in [Client -> [at : Steps, tok : AgentOrNone]]
    BY <1>1
       DEF StartGet, StartEnsure, Ping, UnlinkSock, UnlinkCookie, Poll, PollPing,
           StartPut, StartStop, Leave, Go, GoWith, Rest, AtRest, AgentOrNone,
           Steps, Ensuring
  <2>2. raced' \in BOOLEAN
    BY <1>1
       DEF StartGet, StartEnsure, Ping, UnlinkSock, UnlinkCookie, Poll, PollPing,
           StartPut, StartStop, Leave, Busy
  <2> QED
    BY <1>1, <2>1, <2>2
       DEF StartGet, StartEnsure, Ping, UnlinkSock, UnlinkCookie, Poll, PollPing,
           StartPut, StartStop, Leave, AgentOrNone
<1>2. ASSUME NEW p \in Client, Get(p) PROVE TypeOK'
  <2>1. client' \in [Client -> [at : Steps, tok : AgentOrNone]]
    BY <1>2 DEF Get, Go, Rest, AtRest, Steps, AgentOrNone
  <2>2. agent' \in [Agent -> AgentState]
    BY <1>2, StatesTyped DEF Get, Answers, AgentOrNone, AgentState
  <2> QED
    BY <1>2, <2>1, <2>2 DEF Get, AgentState
<1>3. ASSUME NEW p \in Client, Put(p) PROVE TypeOK'
  <2>1. client' \in [Client -> [at : Steps, tok : AgentOrNone]]
    BY <1>3 DEF Put, Rest, AtRest, Steps, AgentOrNone
  <2>2. agent' \in [Agent -> AgentState]
    BY <1>3, StatesTyped DEF Put, Answers, AgentOrNone, AgentState
  <2> QED
    BY <1>3, <2>1, <2>2 DEF Put, AgentState
<1>4. ASSUME NEW p \in Client, Stop(p) PROVE TypeOK'
  <2>1. client' \in [Client -> [at : Steps, tok : AgentOrNone]]
    BY <1>4 DEF Stop, Rest, AtRest, Steps, AgentOrNone
  <2>2. agent' \in [Agent -> AgentState]
    BY <1>4, StatesTyped DEF Stop, Answers, AgentOrNone, AgentState
  <2> QED
    BY <1>4, <2>1, <2>2 DEF Stop, AgentState
<1>5. ASSUME NEW p \in Client, Spawn(p) PROVE TypeOK'
  BY <1>5 DEF Spawn, GoWith, Steps, Ensuring, AgentOrNone, Starting
<1>6. ASSUME NEW a \in Agent,
             AgentUnlinks(a) \/ AgentWritesCookie(a) \/ AgentListens(a)
               \/ AgentExits(a) \/ IdleFires(a) \/ AgentDies(a) \/ Closes(a)
      PROVE  TypeOK'
  <2>1. agent' \in [Agent -> AgentState]
    BY <1>6, StatesTyped
       DEF AgentUnlinks, AgentWritesCookie, AgentListens, AgentExits, IdleFires,
           AgentDies, Closes, AgentState, Starting, Serving
  <2> QED
    BY <1>6, <2>1
       DEF AgentUnlinks, AgentWritesCookie, AgentListens, AgentExits, IdleFires,
           AgentDies, Closes, AgentState, AgentOrNone
<1>7. CASE Tick
  <2>1. \A a \in Agent : agent'[a] \in AgentState
    BY <1>7, TickTyped, StatesTyped
  <2>2. agent' = [a \in Agent |-> agent'[a]]
    BY <1>7 DEF Tick
  <2>3. agent' \in [Agent -> AgentState]
    BY <2>1, <2>2
  <2> QED
    BY <1>7, <2>3 DEF Tick, AgentState
<1>8. CASE UNCHANGED vars
  BY <1>8 DEF vars
<1> QED
  BY <1>1, <1>2, <1>3, <1>4, <1>5, <1>6, <1>7, <1>8
     DEF Next, Ensure, AgentShutsDown, AbsoluteFires

\* Every reachable state is well typed.
THEOREM TypeCorrect == Spec => []TypeOK
BY TypeInit, TypeStep, PTL DEF Spec

-----------------------------------------------------------------------------
(* Expiry *)

\* Timed speaks of the daemons only.
LEMMA TimedStep == TypeOK /\ Timed /\ [Next]_vars => Timed'
<1> SUFFICES ASSUME TypeOK, Timed, [Next]_vars PROVE Timed'
  OBVIOUS
<1> USE DEF Timed
<1>1. CASE UNCHANGED agent
  BY <1>1
<1>2. ASSUME NEW p \in Client, Get(p) PROVE Timed'
  <2>1. CASE agent' = [agent EXCEPT ![sock] = Touched(sock)] /\ Answers(p)
                /\ agent[sock].held
    <3>1. sock \in Agent
      BY <2>1 DEF Answers, TypeOK, AgentOrNone
    <3>2. agent[sock].age <= Absolute /\ agent[sock].age \in Nat
      BY <2>1, <3>1, TtlAssumption DEF TypeOK
    <3> QED
      BY <2>1, <3>1, <3>2, TtlAssumption DEF Touched, ArmTimers, TypeOK
  <2> QED
    BY <1>1, <1>2, <2>1 DEF Get
<1>3. ASSUME NEW p \in Client, Put(p) PROVE Timed'
  <2>1. CASE agent' = [agent EXCEPT ![sock] = Holding(sock)] /\ Answers(p)
    <3>1. sock \in Agent
      BY <2>1 DEF Answers, TypeOK, AgentOrNone
    <3> QED
      BY <2>1, <3>1, TtlAssumption DEF Holding, ArmTimers, TypeOK, Answers
  <2> QED
    BY <1>1, <1>3, <2>1 DEF Put
<1>4. ASSUME NEW p \in Client, Stop(p) PROVE Timed'
  BY <1>4 DEF Stop, Off, TypeOK
<1>5. ASSUME NEW p \in Client, Spawn(p) PROVE Timed'
  BY <1>5 DEF Spawn, Unreferenced, Off, TypeOK
<1>6. ASSUME NEW a \in Agent,
             AgentUnlinks(a) \/ AgentWritesCookie(a) \/ AgentListens(a)
      PROVE  Timed'
  BY <1>6 DEF AgentUnlinks, AgentWritesCookie, AgentListens, Serving, Off, TypeOK
<1>7. ASSUME NEW a \in Agent,
             AgentExits(a) \/ IdleFires(a) \/ AgentDies(a) \/ Closes(a)
      PROVE  Timed'
  BY <1>7 DEF AgentExits, IdleFires, AgentDies, Closes, Cleared, Off, TypeOK
<1>8. CASE Tick
  <2> SUFFICES ASSUME NEW a \in Agent, agent'[a].held
               PROVE  /\ agent'[a].st \in Serving
                      /\ agent'[a].age + agent'[a].absIn = Absolute
                      /\ agent'[a].unused + agent'[a].idleIn = IdleTtl
    OBVIOUS
  <2>1. agent[a] \in AgentState
    BY DEF TypeOK, AgentState
  <2>2. agent[a].held
    BY <1>8, TickOf
  <2>3. agent'[a] = [agent[a] EXCEPT !.age = @ + 1, !.unused = @ + 1,
                                     !.idleIn = @ - 1, !.absIn = @ - 1]
    BY <1>8, <2>2, TickOf
  <2>4. /\ agent'[a].st = agent[a].st
        /\ agent'[a].age = agent[a].age + 1
        /\ agent'[a].unused = agent[a].unused + 1
        /\ agent'[a].idleIn = agent[a].idleIn - 1
        /\ agent'[a].absIn = agent[a].absIn - 1
    BY <2>1, <2>3 DEF AgentState
  <2> QED
    BY <2>1, <2>2, <2>4, TtlAssumption DEF AgentState
<1> QED
  BY <1>1, <1>2, <1>3, <1>4, <1>5, <1>6, <1>7, <1>8
     DEF Next, Ensure, AgentShutsDown, AbsoluteFires, StartGet, StartEnsure, Ping,
         UnlinkSock, UnlinkCookie, Poll, PollPing, StartPut, StartStop, Leave, vars

LEMMA TimedHolds == Spec => []Timed
<1>1. Init => Timed
  BY DEF Init, Timed, Off
<1> QED
  BY <1>1, TimedStep, TypeCorrect, PTL DEF Spec

\* A key is held no longer than the absolute time after its put, and the idle
\* time after its last use, by whatever daemon.
THEOREM KeysExpire == Spec => []KeyExpires
<1>1. TypeOK /\ Timed => KeyExpires
  BY TtlAssumption DEF TypeOK, Timed, KeyExpires
<1> QED
  BY <1>1, TypeCorrect, TimedHolds, PTL

-----------------------------------------------------------------------------
(* A stop holds *)

LEMMA StopStep == TypeOK /\ Timed /\ StopHolds /\ [Next]_vars => StopHolds'
<1> SUFFICES ASSUME TypeOK, Timed, StopHolds, [Next]_vars PROVE StopHolds'
  OBVIOUS
<1> USE DEF StopHolds
<1>1. CASE UNCHANGED <<agent, sock, stopped>>
  BY <1>1
<1>2. ASSUME NEW p \in Client, UnlinkSock(p) PROVE StopHolds'
  BY <1>2, AgentAssumption DEF UnlinkSock
<1>3. ASSUME NEW p \in Client, Get(p) PROVE StopHolds'
  BY <1>3 DEF Get, Touched, ArmTimers, TypeOK, files
<1>4. ASSUME NEW p \in Client, Put(p) PROVE StopHolds'
  BY <1>4 DEF Put, files
<1>5. ASSUME NEW p \in Client, Stop(p) PROVE StopHolds'
  BY <1>5 DEF Stop, Off, TypeOK, files
<1>6. ASSUME NEW p \in Client, Spawn(p) PROVE StopHolds'
  BY <1>6 DEF Spawn, Unreferenced, TypeOK, files
<1>7. ASSUME NEW a \in Agent, AgentListens(a) PROVE StopHolds'
  BY <1>7 DEF AgentListens, Timed, Serving, TypeOK, Off
<1>8. ASSUME NEW a \in Agent,
             AgentUnlinks(a) \/ AgentWritesCookie(a) \/ AgentExits(a)
               \/ IdleFires(a) \/ AgentDies(a) \/ Closes(a)
      PROVE  StopHolds'
  <2>1. CASE AgentUnlinks(a) \/ Closes(a)
    BY <2>1, AgentAssumption DEF AgentUnlinks, Closes
  <2>2. CASE AgentWritesCookie(a)
    BY <2>2 DEF AgentWritesCookie, TypeOK
  <2>3. CASE AgentExits(a) \/ IdleFires(a) \/ AgentDies(a)
    <3>1. \A b \in Agent : agent'[b].held => agent[b].held
      BY <2>3 DEF AgentExits, IdleFires, AgentDies, Cleared, Off, TypeOK
    <3> QED
      BY <2>3, <3>1 DEF AgentExits, IdleFires, AgentDies, files
  <2> QED
    BY <1>8, <2>1, <2>2, <2>3
<1>9. CASE Tick
  BY <1>9 DEF Tick, TypeOK, files
<1> QED
  BY <1>1, <1>2, <1>3, <1>4, <1>5, <1>6, <1>7, <1>8, <1>9
     DEF Next, Ensure, AgentShutsDown, AbsoluteFires, StartGet, StartEnsure, Ping,
         UnlinkCookie, Poll, PollPing, StartPut, StartStop, Leave, vars, files

\* After "Session stopped." nobody is served a key before another is put, however
\* many daemons have been left behind.
THEOREM StopsHold == Spec => []StopHolds
<1>1. Init => StopHolds
  BY DEF Init, StopHolds
<1> QED
  BY <1>1, StopStep, TypeCorrect, TimedHolds, PTL DEF Spec

-----------------------------------------------------------------------------
(* One daemon, and the files lead to it *)

Alone == OneEnsures /\ OneLives /\ FilesAgree /\ EnsureAlone

\* Nothing is taken back.
LEMMA RacedStays == [Next]_vars /\ raced => raced'
BY DEF Next, vars, Ensure, StartGet, Get, StartEnsure, Ping, UnlinkSock, UnlinkCookie,
       Spawn, Poll, PollPing, StartPut, Put, StartStop, Stop, Leave, AgentUnlinks,
       AgentWritesCookie, AgentListens, AgentShutsDown, AbsoluteFires, Closes,
       AgentExits, IdleFires, AgentDies, Tick

\* A use or a put leaves what the daemon is doing.
LEMMA StatesKept ==
  ASSUME TypeOK, NEW a \in Agent
  PROVE  Touched(a).st = agent[a].st /\ Holding(a).st = agent[a].st
<1>1. agent[a] \in AgentState
  BY StatesTyped
<1> QED
  BY <1>1 DEF AgentState, Touched, Holding, ArmTimers

\* A stop only changes what the daemon it reached is doing.
LEMMA StopStates ==
  ASSUME TypeOK, NEW p \in Client, Stop(p)
  PROVE  \A a \in Agent : \/ agent'[a].st = agent[a].st
                          \/ agent[a].st \in Serving /\ agent'[a].st = "stopping"
<1> TAKE a \in Agent
<1>1. CASE UNCHANGED agent
  BY <1>1
<1>2. CASE Answers(p) /\ agent' = [agent EXCEPT ![sock] = [Off EXCEPT !.st = "stopping"]]
  <2>1. [Off EXCEPT !.st = "stopping"].st = "stopping"
    BY DEF Off
  <2>2. CASE a = sock
    BY <1>2, <2>1, <2>2 DEF Answers, TypeOK
  <2>3. CASE a # sock
    BY <1>2, <2>3 DEF TypeOK
  <2> QED
    BY <2>2, <2>3
<1> QED
  BY <1>1, <1>2 DEF Stop

\* Every step that does not race keeps the daemon and the files together.
LEMMA AloneStep ==
  ASSUME TypeOK, Timed, Alone, Next, ~raced'
  PROVE  Alone'
<1> USE DEF TypeOK, Alone, OneEnsures, OneLives, FilesAgree, EnsureAlone, Ensuring,
            Serving, Starting, files
<1>1. ASSUME NEW p \in Client, StartGet(p) \/ StartStop(p) \/ Leave(p)
      PROVE  Alone'
  BY <1>1 DEF StartGet, StartStop, Leave, GoWith, Rest, AtRest, At
<1>2. ASSUME NEW p \in Client, Get(p) PROVE Alone'
  <2>1. \A a \in Agent : agent'[a].st = agent[a].st
    BY <1>2, StatesKept DEF Get
  <2>2. /\ \A q \in Client : client'[q].at \in Ensuring => client'[q] = client[q]
        /\ UNCHANGED files
    BY <1>2 DEF Get, Go, Rest, AtRest, At
  <2> QED
    BY <2>1, <2>2
<1>3. ASSUME NEW p \in Client, StartEnsure(p) PROVE Alone'
  <2>1. /\ \A q \in Client \ {p} : client[q].at \notin Ensuring
        /\ \A a \in Agent : agent[a].st \in {"off", "up"}
    BY <1>3 DEF StartEnsure, Busy
  <2>2. /\ UNCHANGED <<files, agent>>
        /\ \A q \in Client \ {p} : client'[q] = client[q]
        /\ client'[p] = [at |-> IF cookie = NoAgent THEN "unlinkSock" ELSE "ping",
                         tok |-> cookie]
    BY <1>3 DEF StartEnsure, GoWith
  <2>3. cookie = NoAgent => \A a \in Agent : agent[a].st = "off"
    BY <2>1, AgentAssumption
  <2> QED
    BY <2>1, <2>2, <2>3
<1>4. ASSUME NEW p \in Client, Ping(p) PROVE Alone'
  BY <1>4, AgentAssumption DEF Ping, Answers, Go, At
<1>5. ASSUME NEW p \in Client, UnlinkSock(p) \/ UnlinkCookie(p) PROVE Alone'
  BY <1>5 DEF UnlinkSock, UnlinkCookie, Go, GoWith, At
<1>6. ASSUME NEW p \in Client, Spawn(p) PROVE Alone'
  BY <1>6 DEF Spawn, GoWith, At, Unreferenced
<1>7. ASSUME NEW p \in Client, Poll(p) \/ PollPing(p) \/ StartPut(p) PROVE Alone'
  BY <1>7 DEF Poll, PollPing, StartPut, Go, GoWith, Rest, AtRest, At
<1>8. ASSUME NEW p \in Client, Put(p) PROVE Alone'
  <2>1. \A a \in Agent : agent'[a].st = agent[a].st
    BY <1>8, StatesKept DEF Put
  <2>2. /\ \A q \in Client : client'[q].at \in Ensuring => client'[q] = client[q]
        /\ UNCHANGED files
    BY <1>8 DEF Put, Rest, AtRest
  <2> QED
    BY <2>1, <2>2
<1>9. ASSUME NEW p \in Client, Stop(p) PROVE Alone'
  <2>1. \A a \in Agent : \/ agent'[a].st = agent[a].st
                         \/ agent[a].st \in Serving /\ agent'[a].st = "stopping"
    BY <1>9, StopStates
  <2>2. /\ \A q \in Client : client'[q].at \in Ensuring => client'[q] = client[q]
        /\ UNCHANGED files
    BY <1>9 DEF Stop, Rest, AtRest
  <2> QED
    BY <2>1, <2>2
<1>10. ASSUME NEW a \in Agent, AgentUnlinks(a) PROVE Alone'
  BY <1>10 DEF AgentUnlinks
<1>11. ASSUME NEW a \in Agent, AgentWritesCookie(a) PROVE Alone'
  BY <1>11 DEF AgentWritesCookie
<1>12. ASSUME NEW a \in Agent, AgentListens(a) PROVE Alone'
  BY <1>12 DEF AgentListens, Off
<1>13. ASSUME NEW a \in Agent, agent[a].st \in Serving, Closes(a) PROVE Alone'
  BY <1>13 DEF Closes, Off
<1>14. ASSUME NEW a \in Agent, AgentExits(a) PROVE Alone'
  BY <1>14 DEF AgentExits, Off
<1>15. ASSUME NEW a \in Agent, IdleFires(a) \/ AgentDies(a) PROVE Alone'
  BY <1>15 DEF IdleFires, AgentDies, Cleared, Off
<1>16. CASE Tick
  <2>1. \A a \in Agent : agent'[a].st = agent[a].st
    BY <1>16, TickOf
  <2> QED
    BY <1>16, <2>1 DEF Tick
<1> QED
  BY <1>1, <1>2, <1>3, <1>4, <1>5, <1>6, <1>7, <1>8, <1>9, <1>10, <1>11, <1>12,
     <1>13, <1>14, <1>15, <1>16
     DEF Next, Ensure, AgentShutsDown, AbsoluteFires, Timed

\* Two clients, or a client and a daemon, are what it takes to lose track of a
\* daemon: the invariant.
THEOREM ReachInvariantHolds == Spec => []ReachInvariant
<1>1. Init => ReachInvariant
  BY AgentAssumption, TypeInit
     DEF Init, ReachInvariant, Timed, OneEnsures, OneLives, FilesAgree, EnsureAlone,
         Off, AtRest, Ensuring, Serving, Starting
<1>2. ReachInvariant /\ [Next]_vars => ReachInvariant'
  <2> SUFFICES ASSUME ReachInvariant, [Next]_vars PROVE ReachInvariant'
    OBVIOUS
  <2>1. TypeOK' /\ Timed'
    BY TypeStep, TimedStep DEF ReachInvariant
  <2>2. CASE Next
    BY <2>1, <2>2, RacedStays, AloneStep DEF ReachInvariant, Alone
  <2>3. CASE UNCHANGED vars
    BY <2>1, <2>3 DEF vars, files, ReachInvariant, OneEnsures, OneLives, FilesAgree,
                      EnsureAlone
  <2> QED
    BY <2>2, <2>3
<1> QED
  BY <1>1, <1>2, PTL DEF Spec

\* A daemon that holds a key can be asked for it and told to forget it, unless
\* clients or daemons got in each other's way.
THEOREM HeldKeysAreReachable == Spec => []HeldIsReachable
<1>1. ReachInvariant => HeldIsReachable
  BY DEF ReachInvariant, HeldIsReachable, Timed, FilesAgree
<1> QED
  BY <1>1, ReachInvariantHolds, PTL

\* And then up session stop wipes whatever is cached.
THEOREM UnracedStopWipes == Spec => [](~raced => StopWipes)
<1>1. HeldIsReachable /\ StopHolds => (~raced => StopWipes)
  BY DEF HeldIsReachable, StopHolds, StopWipes
<1> QED
  BY <1>1, HeldKeysAreReachable, StopsHold, PTL

-----------------------------------------------------------------------------
(* The daemons as one cell *)

\* If at most one daemon holds a key, the one that does is the holder.
LEMMA HolderIs ==
  ASSUME NEW f, \A a, b \in Agent : f[a].held /\ f[b].held => a = b,
         NEW x \in Agent, f[x].held
  PROVE  (CHOOSE a \in Agent : f[a].held) = x
OBVIOUS

\* What the cell holds for daemons f.
HeldIn(f)   == \E a \in Agent : f[a].held
HolderIn(f) == CHOOSE a \in Agent : f[a].held
AgeIn(f)    == IF HeldIn(f) THEN f[HolderIn(f)].age ELSE 0
UnusedIn(f) == IF HeldIn(f) THEN f[HolderIn(f)].unused ELSE 0

LEMMA CellIs ==
  /\ Cell!cell = <<HeldIn(agent), AgeIn(agent), UnusedIn(agent), stopped>>
  /\ AnyHeld = HeldIn(agent) /\ AnyHeld' = HeldIn(agent')
  /\ Cell!cell' = <<HeldIn(agent'), AgeIn(agent'), UnusedIn(agent'), stopped'>>
BY DEF Cell!cell, AnyHeld, Holder, HeldIn, HolderIn, AgeIn, UnusedIn

LEMMA InCell ==
  ASSUME NEW f, \A a, b \in Agent : f[a].held /\ f[b].held => a = b,
         NEW x \in Agent, f[x].held
  PROVE  HeldIn(f) = TRUE /\ AgeIn(f) = f[x].age /\ UnusedIn(f) = f[x].unused
BY HolderIs DEF HeldIn, HolderIn, AgeIn, UnusedIn

LEMMA EmptyCell ==
  ASSUME NEW f, \A a \in Agent : ~f[a].held
  PROVE  HeldIn(f) = FALSE /\ AgeIn(f) = 0 /\ UnusedIn(f) = 0
BY DEF HeldIn, AgeIn, UnusedIn

LEMMA SameCell ==
  ASSUME NEW f, NEW g,
         \A a, b \in Agent : f[a].held /\ f[b].held => a = b,
         \A a \in Agent : g[a].held <=> f[a].held,
         \A a \in Agent : f[a].held => g[a].age = f[a].age /\ g[a].unused = f[a].unused
  PROVE  HeldIn(g) = HeldIn(f) /\ AgeIn(g) = AgeIn(f) /\ UnusedIn(g) = UnusedIn(f)
<1>1. CASE \E x \in Agent : f[x].held
  <2>1. PICK x \in Agent : f[x].held
    BY <1>1
  <2>2. \A a, b \in Agent : g[a].held /\ g[b].held => a = b
    OBVIOUS
  <2>3. g[x].held /\ g[x].age = f[x].age /\ g[x].unused = f[x].unused
    BY <2>1
  <2>4. HeldIn(f) = TRUE /\ AgeIn(f) = f[x].age /\ UnusedIn(f) = f[x].unused
    BY <2>1, InCell
  <2>5. HeldIn(g) = TRUE /\ AgeIn(g) = g[x].age /\ UnusedIn(g) = g[x].unused
    BY <2>2, <2>3, InCell
  <2> QED
    BY <2>3, <2>4, <2>5
<1>2. CASE ~\E x \in Agent : f[x].held
  BY <1>2, EmptyCell
<1> QED
  BY <1>1, <1>2

LEMMA HeldServes ==
  ASSUME ReachInvariant, ~raced
  PROVE  /\ \A a \in Agent : agent[a].held => agent[a].st \in Serving
         /\ \A a, b \in Agent : agent[a].held /\ agent[b].st # "off" => a = b
         /\ \A a, b \in Agent : agent[a].held /\ agent[b].held => a = b
BY DEF ReachInvariant, Timed, OneLives, Serving

\* A daemon that loses its key, or had none.
LEMMA LosesKey ==
  ASSUME ReachInvariant, ~raced, NEW x \in Agent, stopped' = stopped,
         ~agent'[x].held, \A a \in Agent \ {x} : agent'[a] = agent[a]
  PROVE  Cell!Next \/ UNCHANGED Cell!cell
<1>1. CASE agent[x].held
  <2>1. \A a \in Agent : ~agent'[a].held
    BY <1>1, HeldServes
  <2>2. HeldIn(agent')= FALSE /\ AgeIn(agent') = 0 /\ UnusedIn(agent') = 0
    BY <2>1, EmptyCell
  <2>3. HeldIn(agent) = TRUE
    BY <1>1 DEF HeldIn
  <2> QED
    BY <2>2, <2>3 DEF Cell!Next, Cell!Forget, Cell!Empty, AnyHeld, Holder, HeldIn, HolderIn,
                      AgeIn, UnusedIn
<1>2. CASE ~agent[x].held
  <2>1. HeldIn(agent') = HeldIn(agent) /\ AgeIn(agent') = AgeIn(agent)
        /\ UnusedIn(agent') = UnusedIn(agent)
    <3>1. \A a \in Agent : agent'[a].held <=> agent[a].held
      BY <1>2
    <3>2. \A a \in Agent : agent[a].held => agent'[a].age = agent[a].age
                                            /\ agent'[a].unused = agent[a].unused
      BY <1>2
    <3> QED
      BY <3>1, <3>2, HeldServes, SameCell
  <2> QED
    BY <2>1, CellIs
<1> QED
  BY <1>1, <1>2

\* Nobody's key, its age and its disuse change.
LEMMA KeepsKeys ==
  ASSUME ReachInvariant, ~raced, stopped' = stopped,
         \A a \in Agent : agent'[a].held <=> agent[a].held,
         \A a \in Agent : agent[a].held => agent'[a].age = agent[a].age
                                           /\ agent'[a].unused = agent[a].unused
  PROVE  Cell!Next \/ UNCHANGED Cell!cell
<1>1. HeldIn(agent') = HeldIn(agent) /\ AgeIn(agent') = AgeIn(agent)
      /\ UnusedIn(agent') = UnusedIn(agent)
  BY HeldServes, SameCell
<1> QED
  BY <1>1, CellIs

\* Each step of a client or a daemon is one of the cell.
LEMMA CellStep ==
  ASSUME ReachInvariant, ReachInvariant', Next, ~raced, ~raced'
  PROVE  Cell!Next \/ UNCHANGED Cell!cell
<1> USE DEF Off
<1>1. agent \in [Agent -> AgentState] /\ agent' \in [Agent -> AgentState]
  BY DEF ReachInvariant, TypeOK, AgentState
<1>2. \A a, b \in Agent : agent'[a].held /\ agent'[b].held => a = b
  BY DEF ReachInvariant, Timed, OneLives, Serving
<1>3. CASE agent' = agent /\ stopped' = stopped
  BY <1>3, KeepsKeys
<1>4. ASSUME NEW p \in Client, Get(p), Answers(p), agent[sock].held,
             agent' = [agent EXCEPT ![sock] = Touched(sock)]
      PROVE  Cell!Next
  <2>1. sock \in Agent /\ agent'[sock] = Touched(sock)
    BY <1>4, <1>1 DEF Answers, ReachInvariant, TypeOK, AgentOrNone
  <2>2. agent'[sock].held = TRUE /\ agent'[sock].age = agent[sock].age /\ agent'[sock].unused = 0
    BY <1>1, <1>4, <2>1 DEF Touched, ArmTimers, AgentState
  <2>3. HeldIn(agent) = TRUE /\ AgeIn(agent) = agent[sock].age
    BY <1>4, <2>1, HeldServes, InCell
  <2>4. HeldIn(agent') = TRUE /\ AgeIn(agent') = agent[sock].age /\ UnusedIn(agent') = 0
    BY <1>2, <2>1, <2>2, InCell
  <2>5. stopped' = stopped
    BY <1>4 DEF Get
  <2>6. Cell!Use
    BY <2>3, <2>4, <2>5 DEF Cell!Use, AnyHeld, Holder, HeldIn, HolderIn, AgeIn, UnusedIn
  <2> QED
    BY <2>6 DEF Cell!Next
<1>5. ASSUME NEW p \in Client, Put(p), Answers(p) PROVE Cell!Next
  <2>1. sock \in Agent /\ agent'[sock] = Holding(sock) /\ stopped' = FALSE
    BY <1>5, <1>1 DEF Put, Answers, ReachInvariant, TypeOK, AgentOrNone
  <2>2. agent'[sock].held = TRUE /\ agent'[sock].age = 0 /\ agent'[sock].unused = 0
    BY <1>1, <2>1 DEF Holding, ArmTimers, AgentState
  <2>3. HeldIn(agent') = TRUE /\ AgeIn(agent') = 0 /\ UnusedIn(agent') = 0
    BY <1>2, <2>1, <2>2, InCell
  <2>4. Cell!Put
    BY <2>1, <2>3 DEF Cell!Put, AnyHeld, Holder, HeldIn, HolderIn, AgeIn, UnusedIn
  <2> QED
    BY <2>4 DEF Cell!Next
<1>6. ASSUME NEW p \in Client, Stop(p), Answers(p) PROVE Cell!Next
  <2>1. sock \in Agent /\ agent[sock].st \in Serving
        /\ agent' = [agent EXCEPT ![sock] = [Off EXCEPT !.st = "stopping"]]
        /\ stopped' \in {stopped, TRUE}
    BY <1>6, <1>1 DEF Stop, Answers, ReachInvariant, TypeOK, AgentOrNone
  <2>2. \A a \in Agent \ {sock} : ~agent[a].held
    BY <2>1, HeldServes DEF Serving
  <2>3. \A a \in Agent : ~agent'[a].held
    BY <1>1, <2>1, <2>2
  <2>4. HeldIn(agent') = FALSE /\ AgeIn(agent') = 0 /\ UnusedIn(agent') = 0
    BY <2>3, EmptyCell
  <2>5. Cell!Stop
    BY <2>1, <2>4 DEF Cell!Stop, Cell!Empty, AnyHeld, Holder, HeldIn, HolderIn, AgeIn, UnusedIn
  <2> QED
    BY <2>5 DEF Cell!Next
<1>7. ASSUME NEW a \in Agent, Closes(a) \/ AgentExits(a) \/ AgentDies(a) \/ IdleFires(a)
      PROVE  Cell!Next \/ UNCHANGED Cell!cell
  <2>1. stopped' = stopped /\ ~agent'[a].held /\ \A b \in Agent \ {a} : agent'[b] = agent[b]
    BY <1>1, <1>7 DEF Closes, AgentExits, AgentDies, IdleFires, Cleared
  <2> QED
    BY <2>1, LosesKey
<1>8. ASSUME NEW a \in Agent, AgentUnlinks(a) \/ AgentWritesCookie(a) \/ AgentListens(a)
      PROVE  Cell!Next \/ UNCHANGED Cell!cell
  <2>1. agent[a].st \in Starting /\ stopped' = stopped /\ ~agent[a].held
    BY <1>8, HeldServes DEF AgentUnlinks, AgentWritesCookie, AgentListens, Starting, Serving
  <2>2. ~agent'[a].held /\ \A b \in Agent \ {a} : agent'[b] = agent[b]
    BY <1>1, <1>8, <2>1 DEF AgentUnlinks, AgentWritesCookie, AgentListens, AgentState
  <2> QED
    BY <2>1, <2>2, LosesKey
<1>9. ASSUME NEW p \in Client, Spawn(p) PROVE Cell!Next \/ UNCHANGED Cell!cell
  <2>1. PICK a \in Agent : agent[a] = Off /\ agent' = [agent EXCEPT ![a].st = "spawned"]
    BY <1>9 DEF Spawn, Unreferenced
  <2>2. stopped' = stopped /\ ~agent'[a].held /\ \A b \in Agent \ {a} : agent'[b] = agent[b]
    BY <1>1, <1>9, <2>1 DEF Spawn
  <2> QED
    BY <2>2, LosesKey
<1>10. CASE Tick
  <2>1. PICK x \in Agent : agent[x].held
    BY <1>10 DEF Tick
  <2>2. /\ stopped' = stopped
        /\ agent[x].idleIn > 0 /\ agent[x].absIn > 0
        /\ agent'[x].held = TRUE /\ agent'[x].age = agent[x].age + 1
        /\ agent'[x].unused = agent[x].unused + 1
    BY <1>1, <1>10, <2>1 DEF Tick, AgentState
  <2>3. agent[x].age < Absolute /\ agent[x].unused < IdleTtl
    BY <1>1, <2>1, <2>2, TtlAssumption DEF ReachInvariant, Timed, AgentState
  <2>4. HeldIn(agent) = TRUE /\ AgeIn(agent) = agent[x].age /\ UnusedIn(agent) = agent[x].unused
    BY <2>1, HeldServes, InCell
  <2>5. HeldIn(agent') = TRUE /\ AgeIn(agent') = agent[x].age + 1
        /\ UnusedIn(agent') = agent[x].unused + 1
    BY <1>2, <2>2, InCell
  <2>6. Cell!Wait
    BY <2>2, <2>3, <2>4, <2>5
       DEF Cell!Wait, AnyHeld, Holder, HeldIn, HolderIn, AgeIn, UnusedIn
  <2> QED
    BY <2>6 DEF Cell!Next
<1>11. ASSUME NEW p \in Client, StartGet(p) \/ Get(p) \/ Ensure(p) \/ StartStop(p) \/ Stop(p) \/ Leave(p)
       PROVE  Cell!Next \/ UNCHANGED Cell!cell
  BY <1>3, <1>4, <1>5, <1>6, <1>9, <1>11
     DEF Ensure, StartGet, Get, StartEnsure, Ping, UnlinkSock, UnlinkCookie, Poll, PollPing,
         StartPut, Put, StartStop, Stop, Leave
<1>12. ASSUME NEW a \in Agent, AgentShutsDown(a) \/ AbsoluteFires(a)
       PROVE  Cell!Next \/ UNCHANGED Cell!cell
  BY <1>7, <1>12 DEF AgentShutsDown, AbsoluteFires
<1> QED
  BY <1>7, <1>8, <1>10, <1>11, <1>12 DEF Next

\* Until clients or daemons get in each other's way, all daemons together implement
\* the one cell of SessionCell: every step of any of them is one of its steps.
THEOREM SessionIsOneCell == Spec => ActsAsOneCell
<1>1. Init => Cell!Init
  <2> SUFFICES ASSUME Init PROVE Cell!Init
    OBVIOUS
  <2>1. ~AnyHeld /\ stopped = FALSE
    BY DEF Init, Off, AnyHeld
  <2> QED
    BY <2>1 DEF Cell!Init
<1>2. ReachInvariant /\ ReachInvariant' /\ [Next]_vars => [raced' \/ Cell!Next]_(Cell!cell)
  <2> SUFFICES ASSUME ReachInvariant, ReachInvariant', [Next]_vars, ~raced'
               PROVE  Cell!Next \/ UNCHANGED Cell!cell
    OBVIOUS
  <2>1. CASE Next
    BY <2>1, RacedStays, CellStep
  <2>2. CASE UNCHANGED vars
    BY <2>2, CellIs DEF vars
  <2> QED
    BY <2>1, <2>2
<1>3. Spec => []ReachInvariant
  BY ReachInvariantHolds
<1> QED
  BY <1>1, <1>2, <1>3, PTL DEF Spec, ActsAsOneCell
=============================================================================
