----------------------------- MODULE SessionAgent -----------------------------
(***************************************************************************)
(* The session agent: a detached daemon that keeps the private key in      *)
(* memory behind a socket and a cookie file, and the commands that read    *)
(* the key from it, hand it one, start it and stop it.                     *)
(*                                                                         *)
(* Every access of a client to the two files, every request and every      *)
(* access of a starting or ending daemon to the files is an action; a      *)
(* daemon handles a request in one go.  Time passes in ticks, and a        *)
(* running timer goes off before time passes its end.                      *)
(***************************************************************************)
EXTENDS Naturals

CONSTANTS
  Client,    \* commands and editor windows that load a key
  Agent,     \* daemon processes alive or referred to at a time
  NoAgent,   \* none of them
  IdleTtl,   \* idleMs, in ticks
  Absolute   \* absoluteMs, in ticks

ASSUME AgentAssumption == NoAgent \notin Agent
ASSUME TtlAssumption   == IdleTtl \in Nat /\ Absolute \in Nat /\ IdleTtl <= Absolute

VARIABLES
  sock,      \* the daemon that bound the socket path last (it may be gone)
  cookie,    \* the daemon whose token the cookie file holds
  agent,     \* the daemons
  client,    \* what each client does next, and the cookie it has read
  stopped,   \* "Session stopped." was said and no key has been put since
  raced      \* two clients made sure of a daemon at once, or one did while a
             \* daemon was starting or ending, or an answer came too late

files == <<sock, cookie>>
vars  == <<files, agent, client, stopped, raced>>

-----------------------------------------------------------------------------
(* Types *)

AgentOrNone == Agent \cup {NoAgent}
Starting    == {"spawned", "unlinked", "written"}
Serving     == {"up", "stopping"}
Off  == [st |-> "off", held |-> FALSE, age |-> 0, unused |-> 0,
         idleIn |-> 0, absIn |-> 0]
\* What ensureSessionAgent and the put after it do next.
Ensuring  == {"ping", "unlinkSock", "unlinkCookie", "spawn", "poll", "pollPing",
              "put", "putting"}
Steps     == {"idle", "get", "prompt", "stop"} \cup Ensuring
AtRest    == [at |-> "idle", tok |-> NoAgent]

TypeOK ==
  /\ sock \in AgentOrNone
  /\ cookie \in AgentOrNone
  /\ agent \in [Agent -> [st : {"off", "closing"} \cup Starting \cup Serving,
                          held : BOOLEAN, age : Nat, unused : Nat,
                          idleIn : Nat, absIn : Nat]]
  /\ client \in [Client -> [at : Steps, tok : AgentOrNone]]
  /\ stopped \in BOOLEAN
  /\ raced \in BOOLEAN

Init ==
  /\ sock = NoAgent
  /\ cookie = NoAgent
  /\ agent = [a \in Agent |-> Off]
  /\ client = [p \in Client |-> AtRest]
  /\ stopped = FALSE
  /\ raced = FALSE

-----------------------------------------------------------------------------
(* A daemon's key and timers *)

\* clearKey: the key and both timers go.
Cleared(a) == [Off EXCEPT !.st = agent[a].st]

\* Mutant: a use of the key pushes the absolute deadline too.
ArmTimersFromNow(x) == [x EXCEPT !.idleIn = IdleTtl, !.absIn = Absolute]

\* armTimers: the idle timer from now, the absolute one from the put.
ArmTimers(x) ==
  [x EXCEPT !.idleIn = IdleTtl,
            !.absIn = IF x.age <= Absolute THEN Absolute - x.age ELSE 0]

Touched(a) == ArmTimers([agent[a] EXCEPT !.unused = 0])

Holding(a) ==
  ArmTimers([agent[a] EXCEPT !.held = TRUE, !.age = 0, !.unused = 0])

-----------------------------------------------------------------------------
(* Clients *)

Go(p, at) == client' = [client EXCEPT ![p].at = at]

GoWith(p, at, tok) == client' = [client EXCEPT ![p] = [at |-> at, tok |-> tok]]

Rest(p) == client' = [client EXCEPT ![p] = AtRest]

At(p, at) == client[p].at = at

\* The request reaches a daemon at the socket and carries its token.
Answers(p) ==
  /\ sock # NoAgent
  /\ agent[sock].st \in Serving
  /\ client[p].tok = sock

\* sessionGet reads the cookie; without one there is nothing to ask.
StartGet(p) ==
  /\ At(p, "idle")
  /\ GoWith(p, IF cookie = NoAgent THEN "prompt" ELSE "get", cookie)
  /\ UNCHANGED <<files, agent, stopped, raced>>

\* The daemon serves the key and starts its idle time anew.  A key of another
\* identity, or an answer after the 1.5 seconds, is as good as none.
Get(p) ==
  /\ At(p, "get")
  /\ \/ /\ Answers(p) /\ agent[sock].held
        /\ agent' = [agent EXCEPT ![sock] = Touched(sock)]
        /\ Rest(p) \/ Go(p, "prompt")
     \/ /\ ~(Answers(p) /\ agent[sock].held)
        /\ Go(p, "prompt")
        /\ UNCHANGED agent
  /\ UNCHANGED <<files, stopped, raced>>

\* Somebody else makes sure of a daemon, or one is starting or ending.
Busy(p) ==
  \/ \E q \in Client \ {p} : client[q].at \in Ensuring
  \/ \E a \in Agent : agent[a].st \notin {"off", "up"}

\* The key came out of the Keychain: sessionPut makes sure of a daemon first.
StartEnsure(p) ==
  /\ At(p, "prompt")
  /\ GoWith(p, IF cookie = NoAgent THEN "unlinkSock" ELSE "ping", cookie)
  /\ raced' = (raced \/ Busy(p))
  /\ UNCHANGED <<files, agent, stopped>>

\* Mutant: whoever is not answered at the first get starts a daemon of its own.
PingSkipped(p) ==
  /\ At(p, "ping")
  /\ Go(p, "unlinkSock")
  /\ UNCHANGED <<files, agent, stopped, raced>>

\* A daemon that answers in time is used, else it is taken for dead.
Ping(p) ==
  /\ At(p, "ping")
  /\ \/ Answers(p) /\ Go(p, "put") /\ UNCHANGED raced
     \/ Answers(p) /\ Go(p, "unlinkSock") /\ raced' = TRUE
     \/ ~Answers(p) /\ Go(p, "unlinkSock") /\ UNCHANGED raced
  /\ UNCHANGED <<files, agent, stopped>>

UnlinkSock(p) ==
  /\ At(p, "unlinkSock")
  /\ sock' = NoAgent
  /\ GoWith(p, "unlinkCookie", NoAgent)
  /\ UNCHANGED <<cookie, agent, stopped, raced>>

UnlinkCookie(p) ==
  /\ At(p, "unlinkCookie")
  /\ cookie' = NoAgent
  /\ Go(p, "spawn")
  /\ UNCHANGED <<sock, agent, stopped, raced>>

\* A process slot nothing refers to any more.
Unreferenced(a) ==
  /\ agent[a] = Off
  /\ a \notin {sock, cookie}
  /\ \A q \in Client : client[q].tok # a

Spawn(p) ==
  \E a \in Agent :
    /\ At(p, "spawn")
    /\ Unreferenced(a)
    /\ agent' = [agent EXCEPT ![a].st = "spawned"]
    /\ GoWith(p, "poll", NoAgent)
    /\ UNCHANGED <<files, stopped, raced>>

\* Up to 40 times: read the cookie, ping.
Poll(p) ==
  /\ At(p, "poll")
  /\ cookie # NoAgent
  /\ GoWith(p, "pollPing", cookie)
  /\ UNCHANGED <<files, agent, stopped, raced>>

PollPing(p) ==
  /\ At(p, "pollPing")
  /\ Go(p, IF Answers(p) THEN "put" ELSE "poll")
  /\ UNCHANGED <<files, agent, stopped, raced>>

\* The cookie is read once more for the put.
StartPut(p) ==
  /\ At(p, "put")
  /\ IF cookie = NoAgent THEN Rest(p) ELSE GoWith(p, "putting", cookie)
  /\ UNCHANGED <<files, agent, stopped, raced>>

Put(p) ==
  /\ At(p, "putting")
  /\ IF Answers(p)
       THEN /\ agent' = [agent EXCEPT ![sock] = Holding(sock)]
            /\ stopped' = FALSE
       ELSE UNCHANGED <<agent, stopped>>
  /\ Rest(p)
  /\ UNCHANGED <<files, raced>>

\* up session stop, and Lock session of the extension.
StartStop(p) ==
  /\ At(p, "idle")
  /\ cookie # NoAgent
  /\ GoWith(p, "stop", cookie)
  /\ UNCHANGED <<files, agent, stopped, raced>>

\* Mutant: stop leaves the key to the shutdown.
StopWithoutClear(p) ==
  /\ At(p, "stop")
  /\ Answers(p)
  /\ agent' = [agent EXCEPT ![sock].st = "stopping"]
  /\ stopped' = TRUE
  /\ Rest(p)
  /\ UNCHANGED <<files, raced>>

\* The daemon forgets the key, answers and then shuts down.  The client says
\* "stopped" if the answer comes in time.
Stop(p) ==
  /\ At(p, "stop")
  /\ \/ /\ Answers(p)
        /\ agent' = [agent EXCEPT ![sock] = [Off EXCEPT !.st = "stopping"]]
        /\ stopped' \in {stopped, TRUE}
     \/ /\ ~Answers(p)
        /\ UNCHANGED <<agent, stopped>>
  /\ Rest(p)
  /\ UNCHANGED <<files, raced>>

\* The client gives up waiting, the prompt is refused, or the process is killed.
Leave(p) ==
  /\ client[p] # AtRest
  /\ Rest(p)
  /\ UNCHANGED <<files, agent, stopped, raced>>

-----------------------------------------------------------------------------
(* Daemons *)

AgentUnlinks(a) ==
  /\ agent[a].st = "spawned"
  /\ sock' = NoAgent
  /\ agent' = [agent EXCEPT ![a].st = "unlinked"]
  /\ UNCHANGED <<cookie, client, stopped, raced>>

AgentWritesCookie(a) ==
  /\ agent[a].st = "unlinked"
  /\ cookie' = a
  /\ agent' = [agent EXCEPT ![a].st = "written"]
  /\ UNCHANGED <<sock, client, stopped, raced>>

\* listen fails if somebody bound the path meanwhile; the cookie stays.
AgentListens(a) ==
  /\ agent[a].st = "written"
  /\ IF sock = NoAgent
       THEN sock' = a /\ agent' = [agent EXCEPT ![a].st = "up"]
       ELSE UNCHANGED sock /\ agent' = [agent EXCEPT ![a] = Off]
  /\ UNCHANGED <<cookie, client, stopped, raced>>

\* Mutant: shutdown closes the socket and leaves the key.
ClosesWithoutClear(a) ==
  /\ agent' = [agent EXCEPT ![a].st = "closing"]
  /\ sock' = NoAgent
  /\ raced' = (raced \/ \E p \in Client : client[p].at \in Ensuring)
  /\ UNCHANGED <<cookie, client, stopped>>

\* shutdown: the key goes and the socket path with it, whoever bound it.
Closes(a) ==
  /\ agent' = [agent EXCEPT ![a] = [Off EXCEPT !.st = "closing"]]
  /\ sock' = NoAgent
  /\ raced' = (raced \/ \E p \in Client : client[p].at \in Ensuring)
  /\ UNCHANGED <<cookie, client, stopped>>

\* After a stop; on the screen lock, sleep or logout that this daemon's watcher
\* reports; on a signal.
AgentShutsDown(a) == agent[a].st \in Serving /\ Closes(a)

\* The end of the absolute time.
AbsoluteFires(a) ==
  /\ agent[a].held /\ agent[a].absIn = 0
  /\ Closes(a)

\* The cookie file goes, whoever wrote it, and the process ends.
AgentExits(a) ==
  /\ agent[a].st = "closing"
  /\ cookie' = NoAgent
  /\ agent' = [agent EXCEPT ![a] = Off]
  /\ UNCHANGED <<sock, client, stopped, raced>>

\* The idle timer clears the key; the daemon stays.
IdleFires(a) ==
  /\ agent[a].held /\ agent[a].idleIn = 0
  /\ agent' = [agent EXCEPT ![a] = Cleared(a)]
  /\ UNCHANGED <<files, client, stopped, raced>>

\* The process is killed and leaves both files.
AgentDies(a) ==
  /\ agent[a].st # "off"
  /\ agent' = [agent EXCEPT ![a] = Off]
  /\ UNCHANGED <<files, client, stopped, raced>>

\* Time passes, but not past a running timer.
Tick ==
  /\ \A a \in Agent : agent[a].held => agent[a].idleIn > 0 /\ agent[a].absIn > 0
  /\ \E a \in Agent : agent[a].held
  /\ agent' = [a \in Agent |->
                 IF agent[a].held
                   THEN [agent[a] EXCEPT !.age = @ + 1, !.unused = @ + 1,
                                         !.idleIn = @ - 1, !.absIn = @ - 1]
                   ELSE agent[a]]
  /\ UNCHANGED <<files, client, stopped, raced>>

-----------------------------------------------------------------------------
Ensure(p) ==
  \/ StartEnsure(p) \/ Ping(p) \/ UnlinkSock(p) \/ UnlinkCookie(p)
  \/ Spawn(p) \/ Poll(p) \/ PollPing(p) \/ StartPut(p) \/ Put(p)

Next ==
  \/ \E p \in Client : StartGet(p) \/ Get(p) \/ Ensure(p)
                       \/ StartStop(p) \/ Stop(p) \/ Leave(p)
  \/ \E a \in Agent : AgentUnlinks(a) \/ AgentWritesCookie(a) \/ AgentListens(a)
                      \/ AgentShutsDown(a) \/ AgentExits(a)
                      \/ AbsoluteFires(a) \/ IdleFires(a) \/ AgentDies(a)
  \/ Tick

Spec == Init /\ [][Next]_vars

-----------------------------------------------------------------------------
(* Properties *)

\* No daemon, not even one nobody can reach, holds a key longer than the absolute
\* time after it was put or the idle time after its last use (armTimers).
KeyExpires ==
  \A a \in Agent :
    agent[a].held => agent[a].age <= Absolute /\ agent[a].unused <= IdleTtl

\* After "Session stopped." no client is served a key before another is put.
StopHolds == stopped => \A a \in Agent : agent[a].held => sock # a

\* A daemon that holds a key can be asked for it, and so be told to forget it,
\* unless clients or daemons got in each other's way.
HeldIsReachable ==
  ~raced => \A a \in Agent : agent[a].held => sock = a /\ cookie = a

\* USER_GUIDE.md: up session stop wipes the in-memory cache.
StopWipes == stopped => \A a \in Agent : ~agent[a].held

-----------------------------------------------------------------------------
(* Why a held key can be reached *)

\* A key is held behind its two timers, which tell the time since put and use.
Timed ==
  \A a \in Agent :
    agent[a].held => /\ agent[a].st \in Serving
                     /\ agent[a].age + agent[a].absIn = Absolute
                     /\ agent[a].unused + agent[a].idleIn = IdleTtl

OneEnsures ==
  \A p, q \in Client : client[p].at \in Ensuring /\ client[q].at \in Ensuring => p = q

OneLives == \A a, b \in Agent : agent[a].st # "off" /\ agent[b].st # "off" => a = b

\* The files belong to the daemon that serves, the cookie to one that will listen.
FilesAgree ==
  \A a \in Agent :
    /\ agent[a].st \in Serving => sock = a /\ cookie = a
    /\ agent[a].st = "written" => cookie = a

\* What whoever makes sure of a daemon may count on.
EnsureAlone ==
  \A p \in Client, a \in Agent :
    /\ client[p].at \in {"unlinkSock", "unlinkCookie", "spawn"} => agent[a].st = "off"
    /\ client[p].at \in Ensuring => agent[a].st # "closing"
    /\ client[p].at = "ping" => client[p].tok = cookie /\ agent[a].st \notin Starting

ReachInvariant ==
  /\ TypeOK
  /\ Timed
  /\ ~raced => OneEnsures /\ OneLives /\ FilesAgree /\ EnsureAlone

-----------------------------------------------------------------------------
(* All daemons together as the one cell of SessionCell *)

Holder  == CHOOSE a \in Agent : agent[a].held
AnyHeld == \E a \in Agent : agent[a].held

Cell == INSTANCE SessionCell WITH
          full <- AnyHeld,
          age <- IF AnyHeld THEN agent[Holder].age ELSE 0,
          unused <- IF AnyHeld THEN agent[Holder].unused ELSE 0

\* Until clients or daemons get in each other's way, every step of any of them puts,
\* uses, forgets, stops or waits as the one cell does, or leaves it alone: no put adds
\* a second copy, no use prolongs the absolute time, no stop leaves a copy.
ActsAsOneCell == Cell!Init /\ [][raced' \/ Cell!Next]_(Cell!cell)

=============================================================================
