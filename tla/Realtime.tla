------------------------------ MODULE Realtime -------------------------------
(***************************************************************************)
(* Realtime hints, from the commit that causes one to the screen that      *)
(* refetches: ActivityService.transact, RealtimeService, RealtimeGateway   *)
(* (apps/api/src), useRealtimeHints and HomeScreen's load (apps/mobile).   *)
(*                                                                         *)
(* One house, one API instance with Redis, and one phone, whose sockets    *)
(* come and go: an old one may linger at the server while a new one is     *)
(* being set up.  A hint carries nothing; the house is a version.          *)
(***************************************************************************)
EXTENDS Integers, Sequences, FiniteSets, SequencesExt

CONSTANTS
  Sockets,    \* connections, used again when nothing is left of them
  MaxWrites,  \* bound on the changes to the house
  MaxReqs,    \* bound on the requests in flight
  None        \* no socket

ASSUME RealtimeAssumption ==
  None \notin Sockets /\ "unsubscribe" \notin Sockets /\ MaxWrites \in Nat /\ MaxReqs \in Nat \ {0}

VARIABLES
  version,    \* the committed changes to the house
  unsent,     \* those whose hint is yet to be published
  serving,    \* the gateway is attached, not shutting down
  server,     \* socket -> how far its upgrade has come
  listeners,  \* the sockets registered with the local emitter
  wire,       \* commands to Redis on the subscriber's connection
  channel,    \* Redis has the house's channel subscribed
  alive,      \* the open sockets with isAlive set
  link,       \* sockets whose two ends still reach each other
  hint,       \* sockets with a hint on its way to the phone
  phone,      \* [app, sock, cur, opens, shown, banner]; app is closed for good when HOME goes
  reqs,       \* snapshot requests in flight: [ver, newest]
  lost,       \* a hint was lost since the last request began (history)
  owed        \* the version when the person last looked (history)

serverVars == <<serving, server, listeners, wire, channel, alive>>
phoneVars  == <<phone, reqs, lost, owed>>
vars == <<version, unsent, serverVars, link, hint, phoneVars>>

Nothing == -1   \* no snapshot yet; a request the server has not read for

Requests == [ver : {Nothing} \cup 0..MaxWrites, newest : BOOLEAN]

Newest == {r \in reqs : r.newest}

(* The screen is focused and mounts: it loads, and dials. *)
Init ==
  /\ version = 0 /\ unsent = 0 /\ serving = TRUE
  /\ listeners = {} /\ wire = <<>> /\ channel = FALSE /\ alive = {} /\ hint = {}
  /\ \E s \in Sockets :
       /\ server = [x \in Sockets |-> IF x = s THEN "checking" ELSE "none"]
       /\ link = {s}
       /\ phone = [app |-> "active", sock |-> "connecting", cur |-> s, opens |-> 0,
                   shown |-> Nothing, banner |-> FALSE]
  /\ reqs = {[ver |-> Nothing, newest |-> TRUE]}
  /\ lost = FALSE /\ owed = 0

-----------------------------------------------------------------------------
(* transact, publish *)

(* A mutation commits; its hint is published afterwards. *)
Commit ==
  /\ version < MaxWrites
  /\ version' = version + 1 /\ unsent' = unsent + 1
  /\ UNCHANGED <<serverVars, link, hint, phoneVars>>

(* Redis passes it on, and the local emitter to every listener whose       *)
(* socket is open.                                                         *)
Publish ==
  /\ unsent > 0
  /\ unsent' = unsent - 1
  /\ hint' = IF channel THEN hint \cup {s \in listeners \cap link : server[s] = "open"} ELSE hint
  /\ UNCHANGED <<version, serverVars, link, phoneVars>>

(* Fire and forget: Redis is away, or the process died after the commit. *)
LoseHint ==
  /\ unsent > 0
  /\ unsent' = unsent - 1 /\ lost' = TRUE
  /\ UNCHANGED <<version, serverVars, link, hint, phone, reqs, owed>>

-----------------------------------------------------------------------------
(* The gateway *)

(* The commands a change of the listeners sends: the last one off          *)
(* unsubscribes the channel.                                               *)
OffAlways(L) == listeners' = L /\ wire' = Append(wire, "unsubscribe")

Off(L) == /\ listeners' = L
          /\ wire' = IF L = {} THEN Append(wire, "unsubscribe") ELSE wire

Set(s, at) == server' = [server EXCEPT ![s] = at]

(* The session and the membership are found good, and the subscription     *)
(* goes out; or not.                                                       *)
Subscribe(s) ==
  /\ server[s] = "checking"
  /\ Set(s, "subscribing")
  /\ listeners' = listeners \cup {s} /\ wire' = Append(wire, s)
  /\ UNCHANGED <<version, unsent, serving, channel, alive, link, hint, phoneVars>>

Refuse(s) ==
  /\ server[s] = "checking"
  /\ Set(s, "gone") /\ link' = link \ {s}
  /\ UNCHANGED <<version, unsent, serving, listeners, wire, channel, alive, hint, phoneVars>>

(* Redis takes the next command.  SUBSCRIBE's reply completes the upgrade: *)
(* of a peer that is there, while the gateway is; a peer that has gone     *)
(* leaves its listener behind.                                             *)
Acked(s) ==
  CASE ~ serving  -> /\ Set(s, "gone") /\ link' = link \ {s}
                     /\ listeners' = listeners \ {s} /\ UNCHANGED alive
                     /\ wire' = IF listeners \subseteq {s} THEN Append(Tail(wire), "unsubscribe")
                                ELSE Tail(wire)
    [] serving /\ s \in link ->
                     /\ Set(s, "open") /\ alive' = alive \cup {s}
                     /\ wire' = Tail(wire) /\ UNCHANGED <<listeners, link>>
    [] OTHER      -> Set(s, "gone") /\ wire' = Tail(wire) /\ UNCHANGED <<listeners, link, alive>>

RedisTakes ==
  /\ wire # <<>>
  /\ IF Head(wire) = "unsubscribe"
     THEN channel' = FALSE /\ wire' = Tail(wire) /\ UNCHANGED <<server, listeners, link, alive>>
     ELSE channel' = TRUE /\ Acked(Head(wire))
  /\ UNCHANGED <<version, unsent, serving, hint, phoneVars>>

(* A command runs out of retries: 500, and the listener stays; a failed    *)
(* UNSUBSCRIBE is swallowed.                                               *)
RedisFails ==
  /\ wire # <<>>
  /\ wire' = Tail(wire)
  /\ IF Head(wire) = "unsubscribe" THEN UNCHANGED <<server, link>>
     ELSE Set(Head(wire), "gone") /\ link' = link \ {Head(wire)}
  /\ UNCHANGED <<version, unsent, serving, listeners, channel, alive, hint, phoneVars>>

(* A socket whose close TCP reports: it may, in its own time or never.     *)
Gone(s) ==
  /\ server[s] = "open" /\ s \notin link
  /\ Set(s, "gone") /\ Off(listeners \ {s}) /\ alive' = alive \ {s}
  /\ UNCHANGED <<version, unsent, serving, channel, link, hint, phoneVars>>

(* terminate, each with its unsubscribe; nothing, of nobody.               *)
Terminate(S) ==
  /\ server' = [s \in Sockets |-> IF s \in S THEN "gone" ELSE server[s]]
  /\ link' = link \ S
  /\ IF S # {} THEN Off(listeners \ S) ELSE UNCHANGED <<listeners, wire>>

OpenOnes == {s \in Sockets : server[s] = "open"}

(* reapDeadSockets, every 30 seconds: who did not answer the last ping is  *)
(* terminated, and the others are to answer the next.                      *)
HeartbeatTrusting ==
  /\ serving
  /\ Terminate(OpenOnes \ alive)
  /\ alive' = alive \cap OpenOnes
  /\ UNCHANGED <<version, unsent, serving, channel, hint, phoneVars>>

Heartbeat ==
  /\ serving
  /\ Terminate(OpenOnes \ alive)
  /\ alive' = {}
  /\ UNCHANGED <<version, unsent, serving, channel, hint, phoneVars>>

(* The peer's answer to a ping; a suspended or slow one may be too late.   *)
Pong(s) ==
  /\ server[s] = "open" /\ s \in link \ alive
  /\ alive' = alive \cup {s}
  /\ UNCHANGED <<version, unsent, serving, server, listeners, wire, channel, link, hint, phoneVars>>

(* beforeApplicationShutdown terminates every socket; then the process     *)
(* ends, and another is started.                                           *)
Shutdown ==
  /\ serving
  /\ serving' = FALSE
  /\ Terminate(OpenOnes) /\ alive' = {}
  /\ UNCHANGED <<version, unsent, channel, hint, phoneVars>>

Boot ==
  /\ ~ serving
  /\ serving' = TRUE
  /\ server' = [s \in Sockets |-> IF server[s] = "none" THEN "none" ELSE "gone"]
  /\ link' = {} /\ listeners' = {} /\ wire' = <<>> /\ channel' = FALSE /\ alive' = {}
  /\ UNCHANGED <<version, unsent, hint, phoneVars>>

-----------------------------------------------------------------------------
(* The network between the two *)

Break(s) ==
  /\ s \in link
  /\ link' = link \ {s} /\ hint' = hint \ {s}
  /\ UNCHANGED <<version, unsent, serverVars, phoneVars>>

(* A suspended app loses what arrives, without a close. *)
Doze ==
  /\ phone.app = "background" /\ phone.cur \in hint
  /\ hint' = hint \ {phone.cur}
  /\ UNCHANGED <<version, unsent, serverVars, link, phoneVars>>

-----------------------------------------------------------------------------
(* The phone *)

(* load: the newest request alone may write the screen. *)
Load == {[ver |-> r.ver, newest |-> FALSE] : r \in reqs} \cup {[ver |-> Nothing, newest |-> TRUE]}

Loads == Cardinality(Load) =< MaxReqs /\ reqs' = Load /\ lost' = FALSE

(* Sockets of which nothing is left. *)
Unused == {s \in Sockets : server[s] \in {"none", "gone"} /\ s \notin listeners \cup Range(wire)}

(* connect: to a server that may be there or not. *)
Dial(p, s) ==
  /\ phone' = [p EXCEPT !.sock = "connecting", !.cur = s]
  /\ IF serving THEN Set(s, "checking") /\ link' = link \cup {s}
     ELSE UNCHANGED <<server, link>>

Retry ==
  /\ phone.sock = "down"
  /\ \E s \in Unused : Dial(phone, s)
  /\ UNCHANGED <<version, unsent, serving, listeners, wire, channel, alive, hint, reqs, lost, owed>>

(* onopen: not the first one refetches. *)
OnOpenQuietly ==
  /\ phone.sock = "connecting" /\ phone.cur \in link /\ server[phone.cur] = "open"
  /\ phone' = [phone EXCEPT !.sock = "open", !.opens = IF @ = 0 THEN 1 ELSE 2]
  /\ UNCHANGED <<reqs, lost>>
  /\ UNCHANGED <<version, unsent, serverVars, link, hint, owed>>

OnOpen ==
  /\ phone.sock = "connecting" /\ phone.cur \in link /\ server[phone.cur] = "open"
  /\ phone' = [phone EXCEPT !.sock = "open", !.opens = IF @ = 0 THEN 1 ELSE 2]
  /\ IF phone.opens > 0 THEN Loads ELSE UNCHANGED <<reqs, lost>>
  /\ UNCHANGED <<version, unsent, serverVars, link, hint, owed>>

OnMessage ==
  /\ phone.sock = "open" /\ phone.cur \in hint
  /\ hint' = hint \ {phone.cur} /\ Loads
  /\ UNCHANGED <<version, unsent, serverVars, link, phone, owed>>

OnClose ==
  /\ phone.sock \notin {"down", "closed"} /\ phone.cur \notin link
  /\ phone' = [phone EXCEPT !.sock = "down", !.cur = None]
  /\ hint' = hint \ {phone.cur}
  /\ UNCHANGED <<version, unsent, serverVars, link, reqs, lost, owed>>

(* The tab is focused, or pulled down. *)
Focus ==
  /\ phone.app = "active"
  /\ Loads /\ owed' = version
  /\ UNCHANGED <<version, unsent, serverVars, link, hint, phone>>

Background ==
  /\ phone.app = "active"
  /\ phone' = [phone EXCEPT !.app = "background"]
  /\ UNCHANGED <<version, unsent, serverVars, link, hint, reqs, lost, owed>>

(* Back in the foreground: refetch, and dial at once if the socket is down.*)
ForegroundQuietly ==
  LET p == [phone EXCEPT !.app = "active"]
  IN  /\ phone.app = "background"
      /\ UNCHANGED <<reqs, lost>> /\ owed' = version
      /\ phone' = p /\ UNCHANGED <<server, link>>
      /\ UNCHANGED <<version, unsent, serving, listeners, wire, channel, alive, hint>>

Foreground ==
  LET p == [phone EXCEPT !.app = "active"]
  IN  /\ phone.app = "background"
      /\ Loads /\ owed' = version
      /\ IF phone.sock = "down" /\ Unused # {} THEN \E s \in Unused : Dial(p, s)
         ELSE phone' = p /\ UNCHANGED <<server, link>>
      /\ UNCHANGED <<version, unsent, serving, listeners, wire, channel, alive, hint>>

(* The hook's teardown, when HOME goes: no retry, no answer to its close,  *)
(* and no callback of the requests under way does anything any more.       *)
Teardown ==
  /\ phone.sock # "closed"
  /\ phone' = [phone EXCEPT !.app = "closed", !.sock = "closed", !.cur = None]
  /\ link' = link \ {phone.cur} /\ hint' = hint \ {phone.cur} /\ reqs' = {}
  /\ UNCHANGED <<version, unsent, serverVars, lost, owed>>

(* getSnapshot reads the house in one snapshot. *)
Read(r) ==
  /\ r.ver = Nothing
  /\ reqs' = (reqs \ {r}) \cup {[ver |-> version, newest |-> r.newest]}
  /\ UNCHANGED <<version, unsent, serverVars, link, hint, phone, lost, owed>>

(* An answer writes the screen, a failure the banner, of the newest only.  *)
AnswerAny(r) ==
  /\ r.ver # Nothing
  /\ reqs' = reqs \ {r}
  /\ phone' = [phone EXCEPT !.shown = r.ver, !.banner = FALSE]
  /\ UNCHANGED <<version, unsent, serverVars, link, hint, lost, owed>>

Answer(r) ==
  /\ r.ver # Nothing
  /\ reqs' = reqs \ {r}
  /\ phone' = IF r.newest THEN [phone EXCEPT !.shown = r.ver, !.banner = FALSE] ELSE phone
  /\ UNCHANGED <<version, unsent, serverVars, link, hint, lost, owed>>

Fail(r) ==
  /\ reqs' = reqs \ {r}
  /\ phone' = IF r.newest THEN [phone EXCEPT !.banner = TRUE] ELSE phone
  /\ UNCHANGED <<version, unsent, serverVars, link, hint, lost, owed>>

Next ==
  \/ Commit \/ Publish \/ LoseHint
  \/ \E s \in Sockets : Subscribe(s) \/ Refuse(s) \/ Gone(s) \/ Pong(s) \/ Break(s)
  \/ RedisTakes \/ RedisFails \/ Heartbeat \/ Shutdown \/ Boot
  \/ Doze \/ Retry \/ OnOpen \/ OnMessage \/ OnClose \/ Focus \/ Background \/ Foreground
  \/ Teardown
  \/ \E r \in reqs : Read(r) \/ Answer(r) \/ Fail(r)

Spec == Init /\ [][Next]_vars

(* The heartbeat's timer and the event loops run on, and requests end: a   *)
(* newest one before the next, since reconnects back off and people rest.  *)
(* No fault, no person, no pong and no report of a close is fair.          *)
Fairness ==
  /\ WF_vars(Heartbeat)
  /\ \A r \in Requests : WF_vars(r \in reqs /\ Read(r))
  /\ SF_vars(\E r \in Newest : Answer(r) \/ Fail(r))

FairSpec == Spec /\ Fairness

-----------------------------------------------------------------------------
(* "Once the client sees 'open' the subscription is live": no unsubscribe  *)
(* of an older socket, however late, silences a newer one.                 *)
OpenHears ==
  \A s \in Sockets : server[s] = "open" => channel /\ ~ Contains(wire, "unsubscribe")

(* "An older response landing last would put a stale ledger back on        *)
(* screen": the screen never goes back.                                    *)
NeverBackwards == [][phone'.shown >= phone.shown]_vars

(* Nothing is under way that would refresh the screen, and nothing says    *)
(* that it may be out of date.                                             *)
Quiet ==
  /\ phone.app = "active" /\ phone.sock = "open" /\ phone.cur \in link \ hint
  /\ server[phone.cur] = "open"
  /\ unsent = 0 /\ reqs = {} /\ ~ phone.banner

(* A quiet screen whose socket was ever reconnected is the house as it is, *)
(* unless a hint was lost on the server's side since it last asked: the    *)
(* refetch covers the gap, and a hint that meets a request in flight       *)
(* starts another.                                                         *)
QuietAfterReconnect == Quiet /\ phone.opens = 2 /\ ~ lost => phone.shown = version

(* What useRealtimeHints.ts says: onHint fires "whenever hints could have  *)
(* been missed".                                                           *)
QuietIsFresh == Quiet /\ ~ lost => phone.shown = version

(* Whatever was lost, looking heals: the screen comes to show the house as *)
(* it was when the person looked, or says that it may be out of date, or   *)
(* the person leaves it.                                                   *)
LookingHeals ==
  phone.shown < owed ~> phone.shown >= owed \/ phone.banner \/ phone.app = "closed"

(* A peer that vanished from an open socket does not hold its subscription *)
(* for ever, although TCP may never tell: the ping it cannot answer does,  *)
(* on the second heartbeat.                                                *)
DeadSocketsGo ==
  \A s \in Sockets : (server[s] = "open" /\ s \notin link) ~> s \notin listeners

(* The same of a peer that vanished at any time, or whose SUBSCRIBE failed.*)
GhostsGo == \A s \in Sockets : (s \in listeners /\ s \notin link) ~> s \notin listeners
=============================================================================
