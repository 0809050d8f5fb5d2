------------------------------- MODULE Session -------------------------------
(***************************************************************************)
(* client.py: login, registration and presence on top of the mission load, *)
(* with the roster of playerlist.py.  Replies carry no request number: the *)
(* client matches them by their kind, by text and by user name.  The       *)
(* server holds a refusal back until the load is complete (phases.py:345). *)
(***************************************************************************)
EXTENDS MissionPhases

CONSTANTS
  User,          \* the configured account
  Other,         \* another character
  LoggedOut,     \* placeholder name of a client without a character
  Absent,        \* no such client
  Zones,         \* world regions
  CreateUser,    \* AOT_CREATE_USER
  AnswersRelogin,\* a refused login that is sent again is refused again
  SharedAccount, \* another session may log in as User
  QuietUser,     \* bridge commands come only while nothing is in flight
  MaxExtras      \* bound: moves of the other client, bridge commands, respawns, missions

ASSUME SessionAssumption ==
  /\ User # Other /\ {LoggedOut, Absent} \cap {User, Other} = {} /\ LoggedOut # Absent
  /\ Absent \notin [name : {User, Other, LoggedOut}, zone : Zones, used : SUBSET {User, Other}]
  /\ {CreateUser, AnswersRelogin, SharedAccount, QuietUser} \subseteq BOOLEAN
  /\ MaxExtras \in Nat /\ Zones # {}

VARIABLES
  client,    \* AotClient: login, registration, control object
  players,   \* PlayerListRegistry: client id -> entry
  server,    \* accounts and sessions
  budget,    \* how many of MaxExtras are left
  misread    \* history: mistakes the consumers were told

vars == <<missionVars, client, players, server, budget, misread>>

Me == 0
Ids == {Me, 1}
Names == {User, Other}

Login(u)     == [type |-> "login", user |-> u]
Register(u)  == [type |-> "newCharacter", user |-> u]
DropCamera   == [type |-> "dropCameraAtPlayer"]
Join(i, n, z) == [type |-> "Join", id |-> i, name |-> n, zone |-> z]
Text(t, n)   == [type |-> "Text", text |-> t, name |-> n]
\* re: the request the reply is about, which the client cannot see.
Warning(w, re) == [type |-> "WarningBox", text |-> w, re |-> re]
Control(c)   == [type |-> "Control", class |-> c]

Entry(n, z, used) == [name |-> n, zone |-> z, used |-> used]

Start == CHOOSE z \in Zones : TRUE

FreshClient ==
  [loggedIn |-> FALSE, loginUser |-> Absent, registerPending |-> FALSE,
   registerName |-> Absent, loginDeferred |-> FALSE,
   control |-> "none", justDropped |-> FALSE, debounced |-> FALSE]

\* A crashed session may still hold the account.
Init ==
  /\ MissionInit
  /\ client = FreshClient
  /\ players = [i \in Ids |-> Absent]
  /\ \E accounts \in SUBSET {User}, refuses \in BOOLEAN,
        them \in {Absent, LoggedOut, User} :
       /\ them = User => User \in accounts
       /\ server = [accounts |-> accounts, refuses |-> refuses, synced |-> FALSE,
                    refused |-> {}, held |-> <<>>, control |-> "none",
                    session |-> [i \in Ids |-> IF i = Me THEN LoggedOut ELSE them],
                    zone |-> Start,
                    used |-> [i \in Ids |-> IF i = 1 /\ them = User THEN {User} ELSE {}]]
  /\ budget = MaxExtras
  /\ misread = [reply |-> FALSE, history |-> FALSE]

-----------------------------------------------------------------------------
(* Login and registration.                                                 *)

Online(roster, u) == \E i \in Ids : roster[i] # Absent /\ roster[i].name = u

\* _maybe_auto_login: the client it leaves and what it sends.
AutoLogin(c, roster) ==
  IF c.loggedIn THEN [client |-> c, sent |-> <<>>]
  ELSE IF Online(roster, User)
       THEN [client |-> [c EXCEPT !.loginDeferred = TRUE], sent |-> <<>>]
       ELSE [client |-> [c EXCEPT !.loginDeferred = FALSE, !.loginUser = User],
             sent |-> <<Login(User)>>]

\* _mark_logged_in
MarkLoggedIn(c) ==
  IF c.loggedIn THEN [client |-> c, sent |-> <<>>]
  ELSE [client |-> [c EXCEPT !.loggedIn = TRUE, !.loginDeferred = FALSE,
                             !.justDropped = TRUE, !.debounced = FALSE],
        sent |-> <<DropCamera>>]

Registering(c, u) ==
  [client |-> [c EXCEPT !.registerPending = TRUE, !.registerName = u, !.loginUser = u],
   sent |-> <<Register(u)>>]

\* The hooks of the mission load.
LoadHook(first) == IF first THEN AutoLogin(client, players)
                            ELSE [client |-> client, sent |-> <<>>]

ReceivePhase2 ==
  /\ OnPhase2(AutoLogin(client, players).sent)
  /\ client' = LoadHook(~phases.eagerLoginDone).client
  /\ UNCHANGED <<mission, players, server, budget, misread>>

ReceiveEnterInGame ==
  /\ OnEnterInGame(AutoLogin(client, players).sent)
  /\ client' = LoadHook(~InGame).client
  /\ UNCHANGED <<mission, players, server, budget, misread>>

ReceiveLoad ==
  /\ ClientLoads
  /\ UNCHANGED <<mission, client, players, server, budget, misread>>

AnswerBurst ==
  /\ IdleCheck
  /\ UNCHANGED <<client, players, server, budget, misread>>

\* A handler of the session: it leaves r.client and queues r.sent.
Becomes(r) ==
  /\ client' = r.client
  /\ Handled(r.sent)
  /\ UNCHANGED <<phases, mission, server, budget>>

ReceiveLoginSuccess ==
  /\ Got("LoginSuccess")
  /\ Becomes(MarkLoggedIn(client))
  /\ UNCHANGED <<players, misread>>

\* _on_warning_box
Warned(c, text) ==
  IF c.registerPending THEN [client |-> [c EXCEPT !.registerPending = FALSE], sent |-> <<>>]
  ELSE IF ~c.loggedIn /\ text = "missing" /\ CreateUser
       THEN Registering(c, IF c.loginUser # Absent THEN c.loginUser ELSE User)
       ELSE [client |-> [c EXCEPT !.loginDeferred = @ \/ (~c.loggedIn /\ text = "inuse")],
             sent |-> <<>>]

ReceiveWarningBox ==
  /\ Got("WarningBox")
  /\ LET m == Head(toClient)
     IN /\ Becomes(Warned(client, m.text))
        /\ misread' = [misread EXCEPT
                         !.reply = @ \/ (client.registerPending /\ m.re # "newCharacter")]
  /\ UNCHANGED players

ReceiveConfirmOverwrite ==
  /\ Got("ConfirmOverwrite")
  /\ Becomes([client |-> [client EXCEPT !.registerPending = FALSE], sent |-> <<>>])
  /\ UNCHANGED <<players, misread>>

-----------------------------------------------------------------------------
(* Server messages: roster first, then the texts, then a deferred login.   *)

\* Mutant: a client keeps its first name and region.
JoinedFirst(roster, m) ==
  IF roster[m.id] # Absent
  THEN [roster EXCEPT ![m.id].used = @ \cup ({m.name} \cap Names)]
  ELSE [roster EXCEPT ![m.id] = Entry(m.name, m.zone, {m.name} \cap Names)]

\* PlayerListRegistry._join; only names of characters enter the history.
Joined(roster, m) ==
  LET old == IF roster[m.id] = Absent THEN {} ELSE roster[m.id].used
  IN [roster EXCEPT ![m.id] = Entry(m.name, m.zone, old \cup ({m.name} \cap Names))]

Dropped(roster, m) == [roster EXCEPT ![m.id] = Absent]

\* Mutant: a deferred login is not tried again.
RetryNever(c, roster) == [client |-> c, sent |-> <<>>]

Retry(c, roster) ==
  IF c.loginDeferred THEN AutoLogin(c, roster) ELSE [client |-> c, sent |-> <<>>]

\* PlayerListRegistry._zone_change, for clients on the roster.
Moved(roster, m) ==
  IF roster[m.id] = Absent THEN roster ELSE [roster EXCEPT ![m.id].zone = m.zone]

\* PlayerListRegistry.handle_server_message
RosterAfter(roster, m) ==
  CASE m.type = "Join" -> Joined(roster, m)
    [] m.type = "Drop" -> Dropped(roster, m)
    [] m.type = "Zone" -> Moved(roster, m)
    [] OTHER -> roster

\* Mutant: only the last name is reported.
DropReportCurrent(m) ==
  IF players[m.id] = Absent THEN {} ELSE {players[m.id].name} \cap Names

\* player_dropped reports the names the client had, taken before the entry goes.
DropReport(m) == IF players[m.id] = Absent THEN {} ELSE players[m.id].used

\* Mutant: any login message is taken for ours.
TextReadAny(c, m) ==
  IF m.text = "logged in" THEN MarkLoggedIn(c) ELSE [client |-> c, sent |-> <<>>]

\* "<name> logged in." and "New character created: <name>".
TextRead(c, m) ==
  IF m.text = "created" /\ c.registerPending /\ c.registerName = m.name
  THEN MarkLoggedIn([c EXCEPT !.registerPending = FALSE])
  ELSE IF m.text = "logged in" /\ ~c.loggedIn /\ c.loginUser = m.name
       THEN MarkLoggedIn(c)
       ELSE [client |-> c, sent |-> <<>>]

\* _on_server_message: the roster comes first, for the other two read it.
ReceiveServerMessage ==
  /\ toClient # <<>> /\ Head(toClient).type \in {"Join", "Drop", "Zone", "Text"}
  /\ LET m == Head(toClient)
     IN /\ players' = RosterAfter(players, m)
        /\ misread' = [misread EXCEPT
                         !.history = @ \/ (m.type = "Drop" /\ DropReport(m) # m.used)]
        /\ Becomes(CASE m.type = "Text" -> TextRead(client, m)
                     [] m.type \in {"Join", "Drop"} -> Retry(client, players')
                     [] OTHER -> [client |-> client, sent |-> <<>>])

\* Mutant: the camera is left at the login only.
ControlledQuietly(c, class) ==
  [client |-> [c EXCEPT !.control = class, !.debounced = FALSE], sent |-> <<>>]

\* _on_control_object: our player is left again, but not within 3 s of the last time.
Controlled(c, class) ==
  IF class # "player" \/ ~c.loggedIn
  THEN [client |-> [c EXCEPT !.control = class, !.debounced = FALSE], sent |-> <<>>]
  ELSE IF c.justDropped
       THEN [client |-> [c EXCEPT !.control = class, !.debounced = TRUE], sent |-> <<>>]
       ELSE [client |-> [c EXCEPT !.control = class, !.justDropped = TRUE],
             sent |-> <<DropCamera>>]

ReceiveControl ==
  /\ Got("Control")
  /\ Becomes(Controlled(client, Head(toClient).class))
  /\ UNCHANGED <<players, misread>>

ThreeSecondsPass ==
  /\ client.justDropped
  /\ client' = [client EXCEPT !.justDropped = FALSE]
  /\ UNCHANGED <<missionVars, players, server, budget, misread>>

-----------------------------------------------------------------------------
(* Commands of the bridges.                                                *)

Quiet == toServer = <<>> /\ toClient = <<>> /\ server.held = <<>>

UserActs(c, sent) ==
  /\ budget > 0
  /\ QuietUser => Quiet /\ ~client.registerPending
  /\ budget' = budget - 1
  /\ client' = c
  /\ toServer' = toServer \o sent
  /\ UNCHANGED <<phases, mission, toClient, players, server, misread>>

UserLogsIn == UserActs([client EXCEPT !.loginUser = User], <<Login(User)>>)
UserLogsOut == UserActs([client EXCEPT !.loggedIn = FALSE], <<[type |-> "logout"]>>)
UserRegisters == UserActs(Registering(client, User).client, <<Register(User)>>)

-----------------------------------------------------------------------------
(* The server.                                                             *)

Answer(s, sent) ==
  /\ server' = s
  /\ toServer' = Tail(toServer)
  /\ toClient' = toClient \o sent
  /\ UNCHANGED <<phases, mission, client, players, budget, misread>>

Asked(type) == toServer # <<>> /\ Head(toServer).type = type

EnterWorld(s, u) ==
  [s EXCEPT !.session[Me] = u, !.used[Me] = @ \cup {u}, !.control = "player"]

\* A refusal waits for the end of the load.
Refuse(s, w) ==
  IF mission.stage = "done" THEN Answer(s, <<w>>)
  ELSE Answer([s EXCEPT !.held = Append(@, w)], <<>>)

Held(u) == \E i \in Ids \ {Me} : server.session[i] = u

ServerLogin ==
  /\ Asked("login")
  /\ LET u == Head(toServer).user
     IN IF server.session[Me] # LoggedOut
        THEN Answer(server, <<[type |-> "LoginSuccess"]>>)
        ELSE IF u \notin server.accounts
        THEN IF u \in server.refused /\ ~AnswersRelogin THEN Answer(server, <<>>)
             ELSE Refuse([server EXCEPT !.refused = @ \cup {u}], Warning("missing", "login"))
        ELSE IF Held(u) THEN Refuse(server, Warning("inuse", "login"))
        ELSE Answer(EnterWorld(server, u),
                    <<Join(Me, u, Start), Text("logged in", u), [type |-> "LoginSuccess"],
                      Control("player")>>)

ServerRegister ==
  /\ Asked("newCharacter")
  /\ LET u == Head(toServer).user
     IN IF u \in server.accounts THEN Answer(server, <<[type |-> "ConfirmOverwrite"]>>)
        ELSE IF server.refuses THEN Answer(server, <<Warning("other", "newCharacter")>>)
        ELSE Answer(EnterWorld([server EXCEPT !.accounts = @ \cup {u}], u),
                    <<Join(Me, u, Start), Text("created", u), Control("player")>>)

ServerLogout ==
  /\ Asked("logout")
  /\ IF server.session[Me] = LoggedOut THEN Answer(server, <<>>)
     ELSE Answer([server EXCEPT !.session[Me] = LoggedOut, !.control = "camera"],
                 <<Join(Me, LoggedOut, Start), Control("camera")>>)

ServerDropsCamera ==
  /\ Asked("dropCameraAtPlayer")
  /\ IF server.control = "player"
     THEN Answer([server EXCEPT !.control = "camera"], <<Control("camera")>>)
     ELSE Answer(server, <<>>)

ServerLoad ==
  /\ ServerLoads(server.held)
  /\ server' = IF mission'.stage = "done" THEN [server EXCEPT !.held = <<>>] ELSE server
  /\ UNCHANGED <<client, players, budget, misread>>

\* What the server sends unasked.
Tells(s, b, sent) ==
  /\ server' = s
  /\ budget' = b
  /\ toClient' = toClient \o sent
  /\ UNCHANGED <<phases, mission, toServer, client, players, misread>>

\* The roster of everyone online, sent once some time after the connect.
RosterSync ==
  /\ ~server.synced
  /\ Tells([server EXCEPT !.synced = TRUE, !.used[1] = {server.session[1]} \cap Names],
           budget,
           <<Join(Me, server.session[Me], Start)>>
           \o IF server.session[1] = Absent THEN <<>> ELSE <<Join(1, server.session[1], server.zone)>>)

\* Everyone present is told of a change, once the roster was sent.
Broadcast(m) == IF server.synced THEN <<m>> ELSE <<>>

OtherLeaves ==
  /\ server.session[1] # Absent
  /\ Tells([server EXCEPT !.session[1] = Absent, !.used[1] = {}], budget,
           Broadcast([type |-> "Drop", id |-> 1, used |-> server.used[1]]))

OtherMoves(n) ==
  /\ budget > 0 /\ n # server.session[1]
  /\ IF server.session[1] = Absent THEN n = LoggedOut ELSE TRUE
  /\ n = User => SharedAccount /\ User \in server.accounts /\ server.session[Me] # User
  /\ Tells([server EXCEPT !.session[1] = n, !.used[1] = @ \cup ({n} \cap Names)],
           budget - 1,
           Broadcast(Join(1, n, server.zone))
           \o (IF n \in Names THEN <<Text("logged in", n)>> ELSE <<>>))

OtherTravels(z) ==
  /\ budget > 0 /\ server.session[1] \in Names /\ z # server.zone
  /\ Tells([server EXCEPT !.zone = z], budget - 1,
           Broadcast([type |-> "Zone", id |-> 1, zone |-> z]))

Respawn ==
  /\ budget > 0 /\ server.control = "camera" /\ server.session[Me] # LoggedOut
  /\ Tells([server EXCEPT !.control = "player"], budget - 1,
           <<Control("player")>>)

StartNextMission ==
  /\ budget > 0 /\ budget' = budget - 1
  /\ NextMission
  /\ UNCHANGED <<client, players, server, misread>>

-----------------------------------------------------------------------------
Receive ==
  \/ ReceiveLoad \/ ReceivePhase2 \/ ReceiveEnterInGame
  \/ ReceiveLoginSuccess \/ ReceiveWarningBox \/ ReceiveConfirmOverwrite
  \/ ReceiveServerMessage \/ ReceiveControl

ServerStep ==
  ServerLoad \/ ServerLogin \/ ServerRegister \/ ServerLogout \/ ServerDropsCamera

Next ==
  \/ Receive \/ AnswerBurst \/ ThreeSecondsPass
  \/ UserLogsIn \/ UserLogsOut \/ UserRegisters
  \/ ServerStep \/ RosterSync \/ OtherLeaves \/ Respawn \/ StartNextMission
  \/ \E n \in Names \cup {LoggedOut} : OtherMoves(n)
  \/ \E z \in Zones : OtherTravels(z)

Spec == Init /\ [][Next]_vars

\* Both ends execute what arrives, packets keep coming after a burst, the roster
\* is sent, and the server times a dead session out.
FairSpec ==
  /\ Spec
  /\ WF_vars(Receive) /\ WF_vars(AnswerBurst) /\ WF_vars(ServerStep)
  /\ WF_vars(RosterSync) /\ WF_vars(OtherLeaves)

-----------------------------------------------------------------------------
Name == Names \cup {LoggedOut}

\* What the server sends.
Loading ==
  [type : {"MissionStartPhase1", "MissionStartPhase2", "MissionStartPhase3", "MissionStart",
           "StartLogin", "DataBlocksDone", "GhostAlwaysStarting", "GhostAlwaysDone",
           "GhostAlwaysObject", "EndGhosting"}, seq : 0..Missions]
Joins == [type : {"Join"}, id : Ids, name : Name, zone : Zones]
Drops == [type : {"Drop"}, id : {1}, used : SUBSET Names]
ZoneChanges == [type : {"Zone"}, id : {1}, zone : Zones]
Texts == [type : {"Text"}, text : {"logged in", "created"}, name : Names]
Warnings == [type : {"WarningBox"}, text : {"missing", "inuse", "other"},
             re : {"login", "newCharacter"}]
Controls == [type : {"Control"}, class : {"player", "camera"}]
ToClient == Loading \cup Joins \cup Drops \cup ZoneChanges \cup Texts \cup Warnings \cup Controls
            \cup [type : {"LoginSuccess", "ConfirmOverwrite"}]

\* What the client sends.
ToServer == [type : LoadMessages, seq : 0..Missions]
            \cup [type : {"login", "newCharacter"}, user : {User}]
            \cup [type : {"logout", "dropCameraAtPlayer"}]

PhasesState ==
  [state : {"loading", "phase1_done", "ingame_loggedout"}, phaseAcked : SUBSET {2, 3},
   eagerLoginDone : BOOLEAN, ghostingActive : BOOLEAN, ghostingSequence : 0..Missions,
   seenGhostAlwaysStarting : BOOLEAN, ghostAlwaysCount : Nat, readyForNormalSent : BOOLEAN]

\* A client that is logged in has no login deferred.
ClientState ==
  {c \in [loggedIn : BOOLEAN, loginUser : {User, Absent}, registerPending : BOOLEAN,
          registerName : {User, Absent}, loginDeferred : BOOLEAN,
          control : {"none", "player", "camera"}, justDropped : BOOLEAN, debounced : BOOLEAN] :
     c.loggedIn => ~c.loginDeferred}

Entries == [name : Name, zone : Zones, used : SUBSET Names]

ServerState ==
  [accounts : SUBSET {User}, refuses : BOOLEAN, synced : BOOLEAN, refused : SUBSET {User},
   held : Seq(Warnings), control : {"none", "player", "camera"},
   session : [Ids -> Name \cup {Absent}], zone : Zones, used : [Ids -> SUBSET Names]]

TypeOK ==
  /\ phases \in PhasesState
  /\ mission \in [cycle : 1..Missions, stage : DOMAIN Awaited \cup {"done"}]
  /\ toClient \in Seq(ToClient) /\ toServer \in Seq(ToServer)
  /\ client \in ClientState
  /\ players \in [Ids -> Entries \cup {Absent}]
  /\ server \in ServerState /\ server.session[Me] \in {User, LoggedOut}
  /\ budget \in 0..MaxExtras
  /\ misread \in [reply : BOOLEAN, history : BOOLEAN]

Settled == Quiet /\ server.synced

\* What the client reports of its login is true: once every message has arrived, it
\* says it is logged in exactly if the server has its character in the world, whatever
\* way it learned so (client.py 593-596, 807-836).
LoginTruth == Quiet => (client.loggedIn <=> server.session[Me] = User)

\* The roster (playerlist.py 144-183): once every message has arrived it is the server's
\* list of clients, with their names and regions.
RosterAgrees ==
  Settled => /\ \A i \in Ids : IF server.session[i] = Absent THEN players[i] = Absent
                               ELSE players[i] # Absent /\ players[i].name = server.session[i]
             /\ players[1] # Absent => players[1].zone = server.zone

\* No warning about a login is taken for the answer to a registration, which would be
\* reported as failed (client.py 838-845).
RepliesMatched == ~misread.reply

\* A player who leaves is reported with the names the client had since the roster was
\* sent, although the entry is gone by then (client.py 729-743).
DropReports == ~misread.history

\* Our player is never left standing as the control object, which would shrink the view
\* to its surroundings, except by the 3 s debounce (client.py 964-981).
CameraKept ==
  Quiet /\ client.loggedIn /\ client.control = "player" => client.debounced

\* The load never gets stuck: each side sends what the other waits for, and the client
\* reaches the game even when the server never says that the burst is over.
LoadCompletes == <>InGame

\* A client whose account exists, or may be created, gets in: also when a dead session
\* holds the name (client.py 555-579, 828-832), when the refusal comes late, and when
\* the free name is seen before the roster.  Unless the server loads another mission
\* first, whose second phase the client does not acknowledge (phases.py 408).
LoginHappens ==
  (User \in server.accounts \/ (CreateUser /\ ~server.refuses))
    => <>(client.loggedIn \/ mission.cycle > 1)
=============================================================================
