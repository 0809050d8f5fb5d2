---------------------------- MODULE SessionProofs ----------------------------
(***************************************************************************)
(* Theorems about Session, for any size of the burst, number of missions,  *)
(* set of regions and number of disturbances.  The first part is TypeOK;   *)
(* CameraInv, RosterInv, HistoryInv and LoginInv say for one property each *)
(* what the messages that are still on their way will make of it.          *)
(***************************************************************************)
EXTENDS Session, TLAPS

-----------------------------------------------------------------------------
(* Queues *)

LEMMA TailIs ==
    ASSUME NEW S, NEW q \in Seq(S), q # <<>>
    PROVE  /\ Head(q) \in S /\ Head(q) = q[1] /\ Tail(q) \in Seq(S)
           /\ Len(q) \in Nat /\ Len(q) >= 1 /\ Len(Tail(q)) = Len(q) - 1
           /\ \A k \in 1 .. Len(Tail(q)) : Tail(q)[k] = q[k + 1] /\ k + 1 \in 1 .. Len(q)
           /\ \A k \in 1 .. Len(q) : k # 1 => k - 1 \in 1 .. Len(Tail(q)) /\ q[k] = Tail(q)[k - 1]
  OBVIOUS

LEMMA ConcatIs ==
    ASSUME NEW S, NEW q \in Seq(S), NEW s \in Seq(S)
    PROVE  /\ q \o s \in Seq(S) /\ Len(q \o s) = Len(q) + Len(s)
           /\ Len(q) \in Nat /\ Len(s) \in Nat
           /\ \A k \in 1 .. Len(q) : (q \o s)[k] = q[k] /\ k \in 1 .. Len(q \o s)
           /\ \A k \in 1 .. Len(s) : (q \o s)[Len(q) + k] = s[k] /\ Len(q) + k \in 1 .. Len(q \o s)
           /\ \A k \in 1 .. Len(q \o s) :
                k \in 1 .. Len(q) \/ (k - Len(q) \in 1 .. Len(s) /\ (q \o s)[k] = s[k - Len(q)])
  OBVIOUS

LEMMA ConcatTwice ==
    ASSUME NEW S, NEW q \in Seq(S), NEW r \in Seq(S), NEW s \in Seq(S)
    PROVE  (q \o r) \o s = q \o (r \o s)
  OBVIOUS

\* No message of q is one of M.
FreeOf(q, M) == \A k \in 1 .. Len(q) : q[k] \notin M

\* The last message of q that is one of M is one of G.
LastIn(q, M, G) ==
    \E k \in 1 .. Len(q) : q[k] \in M /\ q[k] \in G /\ \A l \in k + 1 .. Len(q) : q[l] \notin M

LEMMA FreeTail ==
    ASSUME NEW S, NEW q \in Seq(S), q # <<>>, NEW M
    PROVE  FreeOf(q, M) <=> Head(q) \notin M /\ FreeOf(Tail(q), M)
<1>1. ASSUME FreeOf(q, M) PROVE Head(q) \notin M /\ FreeOf(Tail(q), M)
  BY <1>1, TailIs DEF FreeOf
<1>2. ASSUME Head(q) \notin M, FreeOf(Tail(q), M), NEW k \in 1 .. Len(q) PROVE q[k] \notin M
  <2>1. CASE k = 1
    BY <1>2, <2>1, TailIs
  <2>2. CASE k # 1
    BY <1>2, <2>2, TailIs DEF FreeOf
  <2>3. QED
    BY <2>1, <2>2
<1>3. QED
  BY <1>1, <1>2 DEF FreeOf

LEMMA FreeConcat ==
    ASSUME NEW S, NEW q \in Seq(S), NEW s \in Seq(S), NEW M
    PROVE  FreeOf(q \o s, M) <=> FreeOf(q, M) /\ FreeOf(s, M)
<1>1. ASSUME FreeOf(q \o s, M) PROVE FreeOf(q, M) /\ FreeOf(s, M)
  BY <1>1, ConcatIs DEF FreeOf
<1>2. ASSUME FreeOf(q, M), FreeOf(s, M), NEW k \in 1 .. Len(q \o s) PROVE (q \o s)[k] \notin M
  BY <1>2, ConcatIs DEF FreeOf
<1>3. QED
  BY <1>1, <1>2 DEF FreeOf

LEMMA LastTail ==
    ASSUME NEW S, NEW q \in Seq(S), q # <<>>, NEW M, NEW G, LastIn(q, M, G)
    PROVE  \/ LastIn(Tail(q), M, G)
           \/ Head(q) \in M /\ Head(q) \in G /\ FreeOf(Tail(q), M)
<1>1. PICK k \in 1 .. Len(q) :
        q[k] \in M /\ q[k] \in G /\ \A l \in k + 1 .. Len(q) : q[l] \notin M
  BY DEF LastIn
<1>2. \A l \in 1 .. Len(Tail(q)) : l + 1 \in 1 .. Len(q) /\ Tail(q)[l] = q[l + 1]
  BY TailIs
<1>3. CASE k = 1
  BY <1>1, <1>2, <1>3, TailIs DEF FreeOf
<1>4. CASE k # 1
  <2>1. k - 1 \in 1 .. Len(Tail(q)) /\ Tail(q)[k - 1] = q[k]
    BY <1>4, TailIs
  <2>2. \A l \in (k - 1) + 1 .. Len(Tail(q)) : Tail(q)[l] \notin M
    BY <1>1, <1>2
  <2>3. QED
    BY <1>1, <2>1, <2>2 DEF LastIn
<1>5. QED
  BY <1>3, <1>4

LEMMA LastConcat ==
    ASSUME NEW S, NEW q \in Seq(S), NEW s \in Seq(S), NEW M, NEW G
    PROVE  /\ LastIn(s, M, G) => LastIn(q \o s, M, G)
           /\ LastIn(q, M, G) /\ FreeOf(s, M) => LastIn(q \o s, M, G)
<1>1. ASSUME NEW k \in 1 .. Len(s), s[k] \in M, s[k] \in G,
             \A l \in k + 1 .. Len(s) : s[l] \notin M
      PROVE  LastIn(q \o s, M, G)
  <2>1. Len(q) + k \in 1 .. Len(q \o s) /\ (q \o s)[Len(q) + k] = s[k]
    BY ConcatIs
  <2>2. ASSUME NEW l \in (Len(q) + k) + 1 .. Len(q \o s) PROVE (q \o s)[l] \notin M
    BY <1>1, ConcatIs
  <2>3. QED
    BY <1>1, <2>1, <2>2 DEF LastIn
<1>2. ASSUME NEW k \in 1 .. Len(q), q[k] \in M, q[k] \in G,
             \A l \in k + 1 .. Len(q) : q[l] \notin M, FreeOf(s, M)
      PROVE  LastIn(q \o s, M, G)
  <2>1. k \in 1 .. Len(q \o s) /\ (q \o s)[k] = q[k]
    BY ConcatIs
  <2>2. ASSUME NEW l \in k + 1 .. Len(q \o s) PROVE (q \o s)[l] \notin M
    <3>1. CASE l \in 1 .. Len(q)
      BY <1>2, <2>2, <3>1, ConcatIs
    <3>2. CASE l \notin 1 .. Len(q)
      <4>1. l \in 1 .. Len(q \o s)
        BY <2>2, ConcatIs
      <4>2. QED
        BY <1>2, <3>2, <4>1, ConcatIs DEF FreeOf
    <3>3. QED
      BY <3>1, <3>2
  <2>3. QED
    BY <1>2, <2>1, <2>2 DEF LastIn
<1>3. QED
  BY <1>1, <1>2 DEF LastIn

LEMMA Short ==
    ASSUME NEW a, NEW b, NEW c, NEW d, NEW M
    PROVE  /\ FreeOf(<<>>, M)
           /\ FreeOf(<<a>>, M) <=> a \notin M
           /\ FreeOf(<<a, b>>, M) <=> a \notin M /\ b \notin M
           /\ FreeOf(<<a, b, c>>, M) <=> a \notin M /\ b \notin M /\ c \notin M
           /\ FreeOf(<<a, b, c, d>>, M) <=> a \notin M /\ b \notin M /\ c \notin M /\ d \notin M
  BY DEF FreeOf

\* The only message of M at the head or at the end of a short sequence.
LEMMA ShortLast ==
    ASSUME NEW a, NEW b, NEW c, NEW d, NEW M, NEW G
    PROVE  /\ a \in M /\ a \in G => LastIn(<<a>>, M, G)
           /\ a \in M /\ a \in G /\ b \notin M => LastIn(<<a, b>>, M, G)
           /\ b \in M /\ b \in G => LastIn(<<a, b>>, M, G)
           /\ a \in M /\ a \in G /\ b \notin M /\ c \notin M => LastIn(<<a, b, c>>, M, G)
           /\ c \in M /\ c \in G => LastIn(<<a, b, c>>, M, G)
           /\ a \in M /\ a \in G /\ b \notin M /\ c \notin M /\ d \notin M => LastIn(<<a, b, c, d>>, M, G)
           /\ d \in M /\ d \in G => LastIn(<<a, b, c, d>>, M, G)
<1>3. ASSUME a \in M, a \in G PROVE LastIn(<<a>>, M, G)
  BY <1>3 DEF LastIn
<1>4. ASSUME a \in M, a \in G, b \notin M PROVE LastIn(<<a, b>>, M, G)
  <2>1. \A l \in 1 + 1 .. 2 : <<a, b>>[l] \notin M
    BY <1>4
  <2>2. QED
    BY <1>4, <2>1 DEF LastIn
<1>5. ASSUME b \in M, b \in G PROVE LastIn(<<a, b>>, M, G)
  <2>1. <<a, b>>[2] = b /\ 2 \in 1 .. Len(<<a, b>>) /\ Len(<<a, b>>) = 2
    OBVIOUS
  <2>2. QED
    BY <1>5, <2>1 DEF LastIn
<1>6. ASSUME a \in M, a \in G, b \notin M, c \notin M PROVE LastIn(<<a, b, c>>, M, G)
  <2>1. \A l \in 1 + 1 .. 3 : <<a, b, c>>[l] \notin M
    BY <1>6
  <2>2. QED
    BY <1>6, <2>1 DEF LastIn
<1>7. ASSUME c \in M, c \in G PROVE LastIn(<<a, b, c>>, M, G)
  <2>1. <<a, b, c>>[3] = c /\ 3 \in 1 .. Len(<<a, b, c>>) /\ Len(<<a, b, c>>) = 3
    OBVIOUS
  <2>2. QED
    BY <1>7, <2>1 DEF LastIn
<1>8. ASSUME a \in M, a \in G, b \notin M, c \notin M, d \notin M PROVE LastIn(<<a, b, c, d>>, M, G)
  <2>1. \A l \in 1 + 1 .. 4 : <<a, b, c, d>>[l] \notin M
    BY <1>8
  <2>2. QED
    BY <1>8, <2>1 DEF LastIn
<1>9. ASSUME d \in M, d \in G PROVE LastIn(<<a, b, c, d>>, M, G)
  <2>1. <<a, b, c, d>>[4] = d /\ 4 \in 1 .. Len(<<a, b, c, d>>) /\ Len(<<a, b, c, d>>) = 4
    OBVIOUS
  <2>2. QED
    BY <1>9, <2>1 DEF LastIn
<1>10. QED
  BY <1>3, <1>4, <1>5, <1>6, <1>7, <1>8, <1>9

-----------------------------------------------------------------------------
(* Types *)

LEMMA Kinds ==
    ASSUME NEW m \in ToClient
    PROVE  /\ m.type = "Join" => m \in Joins
           /\ m.type = "Drop" => m \in Drops
           /\ m.type = "Zone" => m \in ZoneChanges
           /\ m.type = "Text" => m \in Texts
           /\ m.type = "WarningBox" => m \in Warnings
           /\ m.type = "Control" => m \in Controls
           /\ m.type \in {"MissionStartPhase1", "MissionStartPhase2", "MissionStartPhase3",
                          "MissionStart", "StartLogin", "DataBlocksDone", "GhostAlwaysStarting",
                          "GhostAlwaysDone", "GhostAlwaysObject", "EndGhosting"} => m \in Loading
  BY DEF ToClient, Joins, Drops, ZoneChanges, Texts, Warnings, Controls, Loading

\* The load's messages are none of the session's.
LEMMA LoadKinds == \A m \in [type : LoadMessages, seq : 0 .. Missions] :
                     m.type \in {"Phase1Ack", "DownloadDone", "Phase2Ack", "ReadyForNormalGhosts", "Phase3Ack"}
  BY DEF LoadMessages, Awaited

LEMMA Requests ==
    /\ Login(User) \in ToServer /\ Register(User) \in ToServer /\ DropCamera \in ToServer
    /\ [type |-> "logout"] \in ToServer
    /\ \A n \in 0 .. Missions :
         \A t \in {"Phase1Ack", "DownloadDone", "Phase2Ack", "ReadyForNormalGhosts", "Phase3Ack"} :
           Message(t, n) \in ToServer
<1>1. {"Phase1Ack", "DownloadDone", "Phase2Ack", "ReadyForNormalGhosts", "Phase3Ack"} \subseteq LoadMessages
  BY DEF LoadMessages, Awaited
<1>2. QED
  BY <1>1 DEF ToServer, Login, Register, DropCamera, Message

LEMMA OneRequest ==
    ASSUME NEW m \in ToServer
    PROVE  <<m>> \in Seq(ToServer) /\ <<>> \in Seq(ToServer)
  OBVIOUS

\* What a handler leaves and what it queues.
Handler(r) == r.client \in ClientState /\ r.sent \in Seq(ToServer)

LEMMA AutoLoginTyped ==
    ASSUME NEW c \in ClientState, NEW roster
    PROVE  Handler(AutoLogin(c, roster))
  BY Requests, OneRequest DEF Handler, AutoLogin, ClientState

LEMMA MarkTyped ==
    ASSUME NEW c \in ClientState
    PROVE  Handler(MarkLoggedIn(c))
  BY Requests, OneRequest DEF Handler, MarkLoggedIn, ClientState

LEMMA RegisteringTyped ==
    ASSUME NEW c \in ClientState
    PROVE  Handler(Registering(c, User))
  BY Requests, OneRequest DEF Handler, Registering, ClientState

LEMMA WarnedTyped ==
    ASSUME NEW c \in ClientState, NEW text
    PROVE  Handler(Warned(c, text))
<1>1. \A u \in {User, Absent} : u # Absent => u = User
  OBVIOUS
<1>2. c.loginUser \in {User, Absent}
  BY DEF ClientState
<1>3. (IF c.loginUser # Absent THEN c.loginUser ELSE User) = User
  BY <1>2
<1>4. Handler(Registering(c, User))
  BY RegisteringTyped
<1>5. <<>> \in Seq(ToServer)
  OBVIOUS
<1>6. [c EXCEPT !.registerPending = FALSE] \in ClientState
  BY DEF ClientState
<1>7. [c EXCEPT !.loginDeferred = @ \/ (~c.loggedIn /\ text = "inuse")] \in ClientState
  BY DEF ClientState
<1>8. QED
  BY <1>3, <1>4, <1>5, <1>6, <1>7 DEF Handler, Warned

LEMMA TextTyped ==
    ASSUME NEW c \in ClientState, NEW m
    PROVE  Handler(TextRead(c, m))
<1>1. [c EXCEPT !.registerPending = FALSE] \in ClientState
  BY DEF ClientState
<1>2. Handler([client |-> c, sent |-> <<>>])
  BY DEF Handler
<1>3. QED
  BY <1>1, <1>2, MarkTyped DEF TextRead

LEMMA RetryTyped ==
    ASSUME NEW c \in ClientState, NEW roster
    PROVE  Handler(Retry(c, roster))
<1>1. Handler([client |-> c, sent |-> <<>>])
  BY DEF Handler
<1>2. QED
  BY <1>1, AutoLoginTyped DEF Retry

LEMMA ControlledTyped ==
    ASSUME NEW c \in ClientState, NEW class \in {"player", "camera"}
    PROVE  Handler(Controlled(c, class))
  BY Requests, OneRequest DEF Handler, Controlled, ClientState

LEMMA LoadTyped ==
    \A n \in 0 .. Missions :
      \A t \in {"MissionStartPhase1", "MissionStartPhase2", "MissionStartPhase3", "MissionStart",
                "StartLogin", "DataBlocksDone", "GhostAlwaysStarting", "GhostAlwaysDone",
                "GhostAlwaysObject", "EndGhosting"} : Message(t, n) \in Loading
  BY DEF Loading, Message

LEMMA BurstTyped ==
    ASSUME TypeOK
    PROVE  Burst \in Seq(Loading)
<1>1. mission.cycle \in 0 .. Missions /\ 0 \in 0 .. Missions /\ BurstSize \in Nat
  BY MissionAssumption DEF TypeOK
<1>2. <<Message("GhostAlwaysDone", 0), Message("GhostAlwaysStarting", mission.cycle)>> \in Seq(Loading)
  BY <1>1, LoadTyped
<1>3. [i \in 1 .. BurstSize |-> Message("GhostAlwaysObject", mission.cycle)] \in Seq(Loading)
  BY <1>1, LoadTyped
<1>4. (IF SendsDone THEN <<Message("GhostAlwaysDone", mission.cycle)>> ELSE <<>>) \in Seq(Loading)
  BY <1>1, LoadTyped
<1>5. QED
  BY <1>2, <1>3, <1>4, ConcatIs DEF Burst

LEMMA ReplyTyped ==
    ASSUME TypeOK, NEW stage \in DOMAIN Awaited
    PROVE  Reply(stage) \in Seq(Loading)
<1>1. mission.cycle \in 0 .. Missions
  BY MissionAssumption DEF TypeOK
<1>2. \A t \in {"MissionStartPhase2", "MissionStartPhase3", "MissionStart", "StartLogin", "DataBlocksDone"} :
        Message(t, mission.cycle) \in Loading
  BY <1>1, LoadTyped
<1>3. stage \in {"phase1", "download", "phase2", "ghosting", "phase3"}
  BY DEF Awaited
<1>4. QED
  BY <1>2, <1>3, BurstTyped DEF Reply

\* What the server may send and hold back.
LEMMA Wider ==
    /\ \A q \in Seq(Loading) : q \in Seq(ToClient)
    /\ \A q \in Seq(Warnings) : q \in Seq(ToClient)
<1>1. Loading \subseteq ToClient /\ Warnings \subseteq ToClient
  BY DEF ToClient
<1>2. ASSUME NEW S, S \subseteq ToClient, NEW q \in Seq(S) PROVE q \in Seq(ToClient)
  BY <1>2
<1>3. QED
  BY <1>1, <1>2

LEMMA Sendable ==
    /\ \A i \in Ids, n \in Name, z \in Zones : Join(i, n, z) \in Joins /\ Join(i, n, z) \in ToClient
    /\ \A n \in Names : Text("logged in", n) \in ToClient /\ Text("created", n) \in ToClient
    /\ \A w \in {"missing", "inuse", "other"}, re \in {"login", "newCharacter"} :
         Warning(w, re) \in Warnings /\ Warning(w, re) \in ToClient
    /\ \A c \in {"player", "camera"} : Control(c) \in Controls /\ Control(c) \in ToClient
    /\ [type |-> "LoginSuccess"] \in ToClient /\ [type |-> "ConfirmOverwrite"] \in ToClient
    /\ \A u \in SUBSET Names : [type |-> "Drop", id |-> 1, used |-> u] \in ToClient
    /\ \A z \in Zones : [type |-> "Zone", id |-> 1, zone |-> z] \in ToClient
<1>1. \A i \in Ids, n \in Name, z \in Zones : Join(i, n, z) \in Joins
  BY DEF Joins, Join
<1>2. \A n \in Names : Text("logged in", n) \in Texts /\ Text("created", n) \in Texts
  BY DEF Texts, Text
<1>3. \A w \in {"missing", "inuse", "other"}, re \in {"login", "newCharacter"} : Warning(w, re) \in Warnings
  BY DEF Warning, Warnings
<1>4. \A c \in {"player", "camera"} : Control(c) \in Controls
  BY DEF Control, Controls
<1>5. \A u \in SUBSET Names : [type |-> "Drop", id |-> 1, used |-> u] \in Drops
  BY DEF Drops
<1>6. \A z \in Zones : [type |-> "Zone", id |-> 1, zone |-> z] \in ZoneChanges
  BY DEF ZoneChanges
<1>7. QED
  BY <1>1, <1>2, <1>3, <1>4, <1>5, <1>6 DEF ToClient

LEMMA Tuples ==
    ASSUME NEW S
    PROVE  /\ <<>> \in Seq(S)
           /\ \A a \in S : <<a>> \in Seq(S)
           /\ \A a, b \in S : <<a, b>> \in Seq(S)
           /\ \A a, b, c \in S : <<a, b, c>> \in Seq(S)
           /\ \A a, b, c, d \in S : <<a, b, c, d>> \in Seq(S)
  OBVIOUS

LEMMA HereIs == Start \in Zones /\ Me \in Ids /\ 1 \in Ids /\ User \in Name /\ User \in Names /\ LoggedOut \in Name
  BY SessionAssumption DEF Start, Me, Ids, Name, Names

\* What the server answers the requests with.
LEMMA Spoken ==
    /\ <<>> \in Seq(ToClient)
    /\ <<[type |-> "LoginSuccess"]>> \in Seq(ToClient)
    /\ <<[type |-> "ConfirmOverwrite"]>> \in Seq(ToClient)
    /\ <<Warning("other", "newCharacter")>> \in Seq(ToClient)
    /\ <<Control("camera")>> \in Seq(ToClient) /\ <<Control("player")>> \in Seq(ToClient)
    /\ <<Join(Me, LoggedOut, Start), Control("camera")>> \in Seq(ToClient)
    /\ <<Join(Me, User, Start), Text("created", User), Control("player")>> \in Seq(ToClient)
    /\ <<Join(Me, User, Start), Text("logged in", User), [type |-> "LoginSuccess"],
         Control("player")>> \in Seq(ToClient)
<1>1. /\ [type |-> "LoginSuccess"] \in ToClient /\ [type |-> "ConfirmOverwrite"] \in ToClient
      /\ Warning("other", "newCharacter") \in ToClient
      /\ Control("camera") \in ToClient /\ Control("player") \in ToClient
  BY Sendable
<1>2. /\ Join(Me, LoggedOut, Start) \in ToClient /\ Join(Me, User, Start) \in ToClient
      /\ Text("created", User) \in ToClient /\ Text("logged in", User) \in ToClient
  BY HereIs, Sendable
<1>3. QED
  BY <1>1, <1>2, Tuples

-----------------------------------------------------------------------------
(* Steps: what every action of a kind has in common *)

\* The player is the control object, the client is logged in, and no debounce holds.
Needs(c) == c.loggedIn /\ c.control = "player" /\ ~c.debounced

Leaving(sent) == \E k \in 1 .. Len(sent) : sent[k] = DropCamera

\* A handler other than that of the control object.
Keeps(c, r) ==
    /\ r.client.control = c.control
    /\ Needs(r.client) => Needs(c) \/ Leaving(r.sent)

LEMMA HandlersKeep ==
    ASSUME NEW c \in ClientState
    PROVE  /\ \A roster : Keeps(c, AutoLogin(c, roster)) /\ Keeps(c, Retry(c, roster))
           /\ Keeps(c, MarkLoggedIn(c))
           /\ Keeps(c, [client |-> c, sent |-> <<>>])
           /\ Keeps(c, [client |-> [c EXCEPT !.registerPending = FALSE], sent |-> <<>>])
           /\ \A text : Keeps(c, Warned(c, text))
           /\ \A m : Keeps(c, TextRead(c, m))
<1>1. ASSUME NEW d \in ClientState, d.control = c.control, Needs(d) => Needs(c)
      PROVE  Keeps(c, MarkLoggedIn(d))
  <2>1. Leaving(<<DropCamera>>)
    BY DEF Leaving
  <2>2. CASE d.loggedIn
    BY <1>1, <2>2 DEF Keeps, MarkLoggedIn
  <2>3. CASE ~d.loggedIn
    BY <1>1, <2>1, <2>3 DEF Keeps, MarkLoggedIn, ClientState
  <2>4. QED
    BY <2>2, <2>3
<1>2. \A roster : Keeps(c, AutoLogin(c, roster))
  BY DEF Keeps, AutoLogin, ClientState, Needs
<1>3. Keeps(c, [client |-> c, sent |-> <<>>])
  BY DEF Keeps
<1>4. [c EXCEPT !.registerPending = FALSE] \in ClientState
      /\ [c EXCEPT !.registerPending = FALSE].control = c.control
      /\ (Needs([c EXCEPT !.registerPending = FALSE]) => Needs(c))
  BY DEF ClientState, Needs
<1>5. ASSUME NEW text PROVE Keeps(c, Warned(c, text))
  BY <1>4 DEF Keeps, Warned, Registering, ClientState, Needs
<1>6. ASSUME NEW m PROVE Keeps(c, TextRead(c, m))
  BY <1>1, <1>3, <1>4 DEF TextRead
<1>7. QED
  BY <1>1, <1>2, <1>3, <1>4, <1>5, <1>6 DEF Retry, Keeps

\* A message is taken and handled.
Received ==
    LET m == Head(toClient)
    IN /\ toClient' = Tail(toClient)
       /\ UNCHANGED <<server, mission, budget>>
       /\ phases' \in PhasesState
       /\ misread' \in [reply : BOOLEAN, history : BOOLEAN]
       /\ players' = RosterAfter(players, m)
       /\ misread'.history = (misread.history \/ (m.type = "Drop" /\ DropReport(m) # m.used))
       /\ \E r : /\ Handler(r) /\ client' = r.client /\ toServer' = toServer \o r.sent
                 /\ IF m.type = "Control" THEN r = Controlled(client, m.class) ELSE Keeps(client, r)

LEMMA LoadReceived ==
    ASSUME TypeOK, ReceiveLoad \/ ReceivePhase2 \/ ReceiveEnterInGame
    PROVE  toClient # <<>> /\ Received
<1> DEFINE m == Head(toClient)
<1> DEFINE kinds == {"MissionStartPhase1", "MissionStartPhase2", "MissionStartPhase3",
                     "MissionStart", "StartLogin", "DataBlocksDone", "GhostAlwaysStarting",
                     "GhostAlwaysDone", "GhostAlwaysObject", "EndGhosting"}
<1>1. toClient # <<>> /\ m.type \in kinds
  BY DEF ReceiveLoad, ReceivePhase2, ReceiveEnterInGame, ClientLoads, OnPhase1, OnPhase2,
         OnPhase3, OnEnterInGame, OnDataBlocksDone, OnGhostAlwaysStarting, OnGhostAlwaysDone,
         OnGhostAlwaysObject, OnEndGhosting, ConnectionMessage, Got
<1>2. m \in ToClient
  BY <1>1, TailIs DEF TypeOK
<1>3. m.seq \in 0 .. Missions
  BY <1>1, <1>2, Kinds DEF Loading
<1>4. client \in ClientState /\ phases \in PhasesState
      /\ misread \in [reply : BOOLEAN, history : BOOLEAN]
  BY DEF TypeOK
<1>5. UNCHANGED <<mission, players, server, budget, misread>>
  BY DEF ReceiveLoad, ReceivePhase2, ReceiveEnterInGame, ClientLoads
<1>6. phases' \in PhasesState
  <2>1. CASE ReceivePhase2
    BY <1>4, <2>1 DEF ReceivePhase2, OnPhase2, PhasesState
  <2>2. CASE ReceiveEnterInGame
    BY <1>4, <2>2 DEF ReceiveEnterInGame, OnEnterInGame, PhasesState
  <2>3. CASE OnPhase1 \/ OnPhase3
    BY <1>4, <2>3 DEF OnPhase1, OnPhase3, PhasesState
  <2>4. CASE OnGhostAlwaysStarting
    BY <1>3, <1>4, <2>4 DEF OnGhostAlwaysStarting, HeadSeq, PhasesState
  <2>5. CASE OnGhostAlwaysDone
    <3>1. (phases.readyForNormalSent \/ MayAnswerBurst) \in BOOLEAN
      BY <1>4 DEF PhasesState, MayAnswerBurst
    <3>2. QED
      BY <1>4, <2>5, <3>1 DEF OnGhostAlwaysDone, PhasesState
  <2>6. CASE OnGhostAlwaysObject
    BY <1>4, <2>6 DEF OnGhostAlwaysObject, PhasesState
  <2>7. CASE OnEndGhosting \/ OnDataBlocksDone
    BY <1>4, <2>7 DEF OnEndGhosting, OnDataBlocksDone, PhasesState
  <2>8. QED
    BY <2>1, <2>2, <2>3, <2>4, <2>5, <2>6, <2>7 DEF ReceiveLoad, ClientLoads
<1>7. PICK r : /\ Handler(r) /\ client' = r.client /\ toServer' = toServer \o r.sent
               /\ Keeps(client, r) /\ toClient' = Tail(toClient)
  <2>1. \A t \in {"Phase1Ack", "DownloadDone", "Phase2Ack", "Phase3Ack"} :
          /\ Message(t, HeadSeq) \in ToServer
          /\ <<Message(t, HeadSeq)>> \in Seq(ToServer)
    BY <1>3, Requests DEF HeadSeq
  <2>2. Ready \in Seq(ToServer)
    BY <1>4, Requests DEF Ready, PhasesState
  <2>3. <<>> \in Seq(ToServer)
    OBVIOUS
  <2>4. ASSUME NEW sent \in Seq(ToServer), NEW a,
               Keeps(client, a), Handler(a)
        PROVE  /\ Keeps(client, [client |-> a.client, sent |-> sent \o a.sent])
               /\ Handler([client |-> a.client, sent |-> sent \o a.sent])
    <3>1. sent \o a.sent \in Seq(ToServer)
      BY <2>4, ConcatIs DEF Handler
    <3>2. ASSUME NEW k \in 1 .. Len(a.sent), a.sent[k] = DropCamera PROVE Leaving(sent \o a.sent)
      <4>1. Len(sent) + k \in 1 .. Len(sent \o a.sent) /\ (sent \o a.sent)[Len(sent) + k] = a.sent[k]
        BY <2>4, <3>2, ConcatIs DEF Handler
      <4>2. QED
        BY <3>2, <4>1 DEF Leaving
    <3>3. QED
      BY <2>4, <3>1, <3>2 DEF Handler, Keeps, Leaving
  <2>5. /\ Keeps(client, AutoLogin(client, players)) /\ Handler(AutoLogin(client, players))
        /\ Keeps(client, [client |-> client, sent |-> <<>>])
        /\ Handler([client |-> client, sent |-> <<>>])
    <3>1. Handler([client |-> client, sent |-> <<>>])
      BY <1>4 DEF Handler
    <3>2. QED
      BY <1>4, <3>1, HandlersKeep, AutoLoginTyped
  <2>6. CASE ReceivePhase2
    <3> DEFINE a == LoadHook(~phases.eagerLoginDone)
    <3> DEFINE ack == AckOnce(2, "Phase2Ack")
    <3>1. Keeps(client, a) /\ Handler(a)
      BY <2>5 DEF LoadHook
    <3>2. ack \in Seq(ToServer)
      BY <2>1, <2>3 DEF AckOnce
    <3>3. phases.eagerLoginDone \in BOOLEAN
      BY <1>4 DEF PhasesState
    <3>4. toServer' = toServer \o (ack \o a.sent) /\ client' = a.client
          /\ toClient' = Tail(toClient)
      BY <2>6, <3>3 DEF ReceivePhase2, OnPhase2, Handled, LoadHook
    <3> HIDE DEF a, ack
    <3>5. QED
      BY <2>4, <3>1, <3>2, <3>4
  <2>7. CASE ReceiveEnterInGame
    <3> DEFINE a == LoadHook(~InGame)
    <3>1. Keeps(client, a) /\ Handler(a)
      BY <2>5 DEF LoadHook
    <3>2. toServer' = toServer \o a.sent /\ client' = a.client /\ toClient' = Tail(toClient)
      BY <2>7 DEF ReceiveEnterInGame, OnEnterInGame, Handled, LoadHook
    <3>3. QED
      BY <3>1, <3>2
  <2>8. CASE ReceiveLoad
    <3>1. \E sent \in Seq(ToServer) : toServer' = toServer \o sent /\ toClient' = Tail(toClient)
      <4>1. CASE OnPhase1 \/ OnPhase3 \/ OnDataBlocksDone
        BY <2>1, <2>3, <4>1 DEF OnPhase1, OnPhase3, OnDataBlocksDone, Handled, AckOnce
      <4>2. CASE OnGhostAlwaysStarting \/ OnGhostAlwaysObject \/ OnEndGhosting
        BY <2>3, <4>2 DEF OnGhostAlwaysStarting, OnGhostAlwaysObject, OnEndGhosting, Handled
      <4>3. CASE OnGhostAlwaysDone
        BY <2>2, <2>3, <4>3 DEF OnGhostAlwaysDone, Handled
      <4>4. QED
        BY <2>8, <4>1, <4>2, <4>3 DEF ReceiveLoad, ClientLoads
    <3>2. PICK sent \in Seq(ToServer) : toServer' = toServer \o sent /\ toClient' = Tail(toClient)
      BY <3>1
    <3>3. client' = client
      BY <2>8 DEF ReceiveLoad
    <3>4. Handler([client |-> client, sent |-> sent]) /\ Keeps(client, [client |-> client, sent |-> sent])
      BY <1>4 DEF Handler, Keeps
    <3>5. QED
      BY <3>2, <3>3, <3>4
  <2>9. QED
    BY <2>6, <2>7, <2>8
<1>8. m.type # "Control" /\ m.type # "Drop" /\ RosterAfter(players, m) = players
  BY <1>1 DEF RosterAfter
<1>9. QED
  BY <1>1, <1>4, <1>5, <1>6, <1>7, <1>8 DEF Received

LEMMA SessionReceived ==
    ASSUME TypeOK,
           \/ ReceiveLoginSuccess \/ ReceiveWarningBox \/ ReceiveConfirmOverwrite
           \/ ReceiveServerMessage \/ ReceiveControl
    PROVE  toClient # <<>> /\ Received
<1> DEFINE m == Head(toClient)
<1>1. toClient # <<>>
  BY DEF ReceiveLoginSuccess, ReceiveWarningBox, ReceiveConfirmOverwrite, ReceiveServerMessage,
         ReceiveControl, Got
<1>2. m \in ToClient /\ client \in ClientState /\ phases \in PhasesState
      /\ misread \in [reply : BOOLEAN, history : BOOLEAN]
  BY <1>1, TailIs DEF TypeOK
<1>3. ASSUME NEW r, Becomes(r), Handler(r),
             IF m.type = "Control" THEN r = Controlled(client, m.class) ELSE Keeps(client, r),
             misread' \in [reply : BOOLEAN, history : BOOLEAN],
             players' = RosterAfter(players, m),
             misread'.history = (misread.history \/ (m.type = "Drop" /\ DropReport(m) # m.used))
      PROVE  Received
  BY <1>2, <1>3 DEF Received, Becomes, Handled
<1>4. CASE ReceiveLoginSuccess
  <2>1. Becomes(MarkLoggedIn(client)) /\ m.type = "LoginSuccess" /\ UNCHANGED <<players, misread>>
    BY <1>4 DEF ReceiveLoginSuccess, Got
  <2>2. RosterAfter(players, m) = players
    BY <2>1 DEF RosterAfter
  <2>3. Handler(MarkLoggedIn(client)) /\ Keeps(client, MarkLoggedIn(client))
    BY <1>2, MarkTyped, HandlersKeep
  <2>4. misread'.history = (misread.history \/ (m.type = "Drop" /\ DropReport(m) # m.used))
    BY <1>2, <2>1
  <2>5. QED
    BY <1>1, <1>2, <1>3, <2>1, <2>2, <2>3, <2>4
<1>5. CASE ReceiveWarningBox
  <2>1. /\ Becomes(Warned(client, m.text)) /\ m.type = "WarningBox" /\ UNCHANGED players
        /\ misread' = [misread EXCEPT
                         !.reply = @ \/ (client.registerPending /\ m.re # "newCharacter")]
    BY <1>5 DEF ReceiveWarningBox, Got
  <2>2. RosterAfter(players, m) = players
    BY <2>1 DEF RosterAfter
  <2>3. Handler(Warned(client, m.text)) /\ Keeps(client, Warned(client, m.text))
    BY <1>2, WarnedTyped, HandlersKeep
  <2>4. /\ misread' \in [reply : BOOLEAN, history : BOOLEAN]
        /\ misread'.history = (misread.history \/ (m.type = "Drop" /\ DropReport(m) # m.used))
    BY <1>2, <2>1
  <2>5. QED
    BY <1>1, <1>3, <2>1, <2>2, <2>3, <2>4
<1>6. CASE ReceiveConfirmOverwrite
  <2> DEFINE r == [client |-> [client EXCEPT !.registerPending = FALSE], sent |-> <<>>]
  <2>1. Becomes(r) /\ m.type = "ConfirmOverwrite" /\ UNCHANGED <<players, misread>>
    BY <1>6 DEF ReceiveConfirmOverwrite, Got
  <2>2. RosterAfter(players, m) = players
    BY <2>1 DEF RosterAfter
  <2>3. Handler(r) /\ Keeps(client, r)
    <3>1. Handler(r)
      <4>1. [client EXCEPT !.registerPending = FALSE] \in ClientState
        BY <1>2 DEF ClientState
      <4>2. <<>> \in Seq(ToServer)
        OBVIOUS
      <4>3. QED
        BY <4>1, <4>2 DEF Handler
    <3>2. Keeps(client, r)
      BY <1>2, HandlersKeep
    <3>3. QED
      BY <3>1, <3>2
  <2>4. misread'.history = (misread.history \/ (m.type = "Drop" /\ DropReport(m) # m.used))
    BY <1>2, <2>1
  <2> HIDE DEF r
  <2>5. QED
    BY <1>1, <1>2, <1>3, <2>1, <2>2, <2>3, <2>4
<1>7. CASE ReceiveServerMessage
  <2> DEFINE r == CASE m.type = "Text" -> TextRead(client, m)
                    [] m.type \in {"Join", "Drop"} -> Retry(client, players')
                    [] OTHER -> [client |-> client, sent |-> <<>>]
  <2>1. /\ Becomes(r) /\ m.type \in {"Join", "Drop", "Zone", "Text"}
        /\ players' = RosterAfter(players, m)
        /\ misread' = [misread EXCEPT
                         !.history = @ \/ (m.type = "Drop" /\ DropReport(m) # m.used)]
    BY <1>7 DEF ReceiveServerMessage
  <2>2. Handler(r) /\ Keeps(client, r)
    <3>1. Handler([client |-> client, sent |-> <<>>])
      BY <1>2 DEF Handler
    <3>2. CASE m.type = "Text"
      BY <1>2, <3>2, TextTyped, HandlersKeep
    <3>3. CASE m.type \in {"Join", "Drop"}
      <4>1. r = Retry(client, players')
        BY <3>3
      <4> HIDE DEF r
      <4>2. QED
        BY <1>2, <4>1, RetryTyped, HandlersKeep
    <3>4. CASE m.type = "Zone"
      <4>1. r = [client |-> client, sent |-> <<>>]
        BY <3>4
      <4>2. QED
        BY <1>2, <3>1, <4>1, HandlersKeep
    <3>5. QED
      BY <2>1, <3>2, <3>3, <3>4
  <2>3. /\ misread' \in [reply : BOOLEAN, history : BOOLEAN]
        /\ misread'.history = (misread.history \/ (m.type = "Drop" /\ DropReport(m) # m.used))
    BY <1>2, <2>1
  <2> HIDE DEF r
  <2>4. QED
    BY <1>1, <1>3, <2>1, <2>2, <2>3
<1>8. CASE ReceiveControl
  <2>1. /\ Becomes(Controlled(client, m.class)) /\ m.type = "Control"
        /\ UNCHANGED <<players, misread>>
    BY <1>8 DEF ReceiveControl, Got
  <2>2. RosterAfter(players, m) = players
    BY <2>1 DEF RosterAfter
  <2>3. Handler(Controlled(client, m.class))
    BY <1>2, <2>1, Kinds, ControlledTyped DEF Controls
  <2>4. misread'.history = (misread.history \/ (m.type = "Drop" /\ DropReport(m) # m.used))
    BY <1>2, <2>1
  <2>5. QED
    BY <1>1, <1>2, <1>3, <2>1, <2>2, <2>3, <2>4
<1>9. QED
  BY <1>4, <1>5, <1>6, <1>7, <1>8

LEMMA ReceiveIs ==
    ASSUME TypeOK, Receive
    PROVE  toClient # <<>> /\ Received
  BY LoadReceived, SessionReceived DEF Receive

-----------------------------------------------------------------------------
(* Type correctness *)

LEMMA InitTyped ==
    ASSUME Init
    PROVE  TypeOK
<1>1. phases \in PhasesState
  BY MissionAssumption DEF Init, MissionInit, FreshPhases, PhasesState
<1>2. mission \in [cycle : 1 .. Missions, stage : DOMAIN Awaited \cup {"done"}]
  BY MissionAssumption DEF Init, MissionInit, Awaited
<1>3. toServer \in Seq(ToServer) /\ toClient \in Seq(ToClient)
  <2>1. Message("MissionStartPhase1", 1) \in Loading
    BY LoadTyped, MissionAssumption
  <2>2. <<Message("MissionStartPhase1", 1)>> \in Seq(Loading)
    BY <2>1
  <2>3. toServer = <<>> /\ toClient = <<Message("MissionStartPhase1", 1)>>
    BY DEF Init, MissionInit
  <2>4. QED
    BY <2>2, <2>3, Wider, Tuples
<1>4. client \in ClientState
  BY DEF Init, FreshClient, ClientState
<1>5. players \in [Ids -> Entries \cup {Absent}]
  BY DEF Init
<1>6. server \in ServerState /\ server.session[Me] \in {User, LoggedOut}
  <2>1. PICK accounts \in SUBSET {User}, refuses \in BOOLEAN, them \in {Absent, LoggedOut, User} :
           server = [accounts |-> accounts, refuses |-> refuses, synced |-> FALSE,
                     refused |-> {}, held |-> <<>>, control |-> "none",
                     session |-> [i \in Ids |-> IF i = Me THEN LoggedOut ELSE them],
                     zone |-> Start,
                     used |-> [i \in Ids |-> IF i = 1 /\ them = User THEN {User} ELSE {}]]
    BY DEF Init
  <2>2. Start \in Zones
    BY SessionAssumption DEF Start
  <2>3. /\ [i \in Ids |-> IF i = Me THEN LoggedOut ELSE them] \in [Ids -> Name \cup {Absent}]
        /\ [i \in Ids |-> IF i = Me THEN LoggedOut ELSE them][Me] = LoggedOut
    BY DEF Me, Ids, Name, Names
  <2>4. [i \in Ids |-> IF i = 1 /\ them = User THEN {User} ELSE {}] \in [Ids -> SUBSET Names]
    BY DEF Names
  <2>5. <<>> \in Seq(Warnings)
    OBVIOUS
  <2>6. QED
    BY <2>1, <2>2, <2>3, <2>4, <2>5 DEF ServerState
<1>7. budget \in 0 .. MaxExtras /\ misread \in [reply : BOOLEAN, history : BOOLEAN]
  BY SessionAssumption DEF Init
<1>8. QED
  BY <1>1, <1>2, <1>3, <1>4, <1>5, <1>6, <1>7 DEF TypeOK

LEMMA RosterTyped ==
    ASSUME NEW roster \in [Ids -> Entries \cup {Absent}], NEW m \in ToClient
    PROVE  RosterAfter(roster, m) \in [Ids -> Entries \cup {Absent}]
<1>1. CASE m.type = "Join"
  <2>1. m \in Joins
    BY <1>1, Kinds
  <2>2. m.id \in Ids /\ m.name \in Name /\ m.zone \in Zones
    BY <2>1 DEF Joins
  <2>3. Absent \notin Entries
    BY SessionAssumption DEF Entries, Name, Names
  <2>4. (IF roster[m.id] = Absent THEN {} ELSE roster[m.id].used) \in SUBSET Names
    BY <2>2 DEF Entries
  <2>5. Entry(m.name, m.zone, (IF roster[m.id] = Absent THEN {} ELSE roster[m.id].used)
                              \cup ({m.name} \cap Names)) \in Entries
    BY <2>2, <2>4 DEF Entry, Entries
  <2>6. QED
    BY <1>1, <2>2, <2>5 DEF RosterAfter, Joined
<1>2. CASE m.type = "Drop"
  BY <1>2 DEF RosterAfter, Dropped
<1>3. CASE m.type = "Zone"
  <2>1. m.id \in Ids /\ m.zone \in Zones
    BY <1>3, Kinds DEF ZoneChanges, Ids
  <2>2. roster[m.id] # Absent => [roster[m.id] EXCEPT !.zone = m.zone] \in Entries
    BY <2>1 DEF Entries
  <2>3. QED
    BY <1>3, <2>1, <2>2 DEF RosterAfter, Moved
<1>4. CASE m.type \notin {"Join", "Drop", "Zone"}
  BY <1>4 DEF RosterAfter
<1>5. QED
  BY <1>1, <1>2, <1>3, <1>4

LEMMA ReceiveTyped ==
    ASSUME TypeOK, Receive
    PROVE  TypeOK'
<1>1. toClient # <<>> /\ Received
  BY ReceiveIs
<1>2. Head(toClient) \in ToClient /\ toClient' \in Seq(ToClient)
  BY <1>1, TailIs DEF TypeOK, Received
<1>3. players' \in [Ids -> Entries \cup {Absent}]
  BY <1>1, <1>2, RosterTyped DEF TypeOK, Received
<1>4. client' \in ClientState /\ toServer' \in Seq(ToServer)
  BY <1>1, ConcatIs DEF TypeOK, Received, Handler
<1>5. QED
  BY <1>1, <1>2, <1>3, <1>4 DEF TypeOK, Received

\* What the server says: to whom it answers, and what it tells unasked.
LEMMA AnswerTyped ==
    ASSUME TypeOK, toServer # <<>>, NEW s \in ServerState, s.session[Me] \in {User, LoggedOut},
           NEW sent \in Seq(ToClient), Answer(s, sent)
    PROVE  TypeOK'
  BY TailIs, ConcatIs DEF TypeOK, Answer

LEMMA TellsTyped ==
    ASSUME TypeOK, NEW s \in ServerState, s.session[Me] \in {User, LoggedOut},
           NEW b \in 0 .. MaxExtras, NEW sent \in Seq(ToClient), Tells(s, b, sent)
    PROVE  TypeOK'
  BY ConcatIs DEF TypeOK, Tells

LEMMA RefuseTyped ==
    ASSUME TypeOK, toServer # <<>>, NEW s \in ServerState, s.session[Me] \in {User, LoggedOut},
           NEW w \in Warnings, Refuse(s, w)
    PROVE  TypeOK'
<1>1. CASE mission.stage = "done"
  <2>1. <<w>> \in Seq(ToClient)
    BY DEF ToClient
  <2>2. QED
    BY <1>1, <2>1, AnswerTyped DEF Refuse
<1>2. CASE mission.stage # "done"
  <2> DEFINE t == [s EXCEPT !.held = Append(@, w)]
  <2>1. Append(s.held, w) \in Seq(Warnings)
    BY DEF ServerState
  <2>2. t \in ServerState /\ t.session[Me] = s.session[Me]
    BY <2>1 DEF ServerState
  <2>3. <<>> \in Seq(ToClient) /\ Answer(t, <<>>)
    BY <1>2 DEF Refuse
  <2> HIDE DEF t
  <2>4. QED
    BY <2>2, <2>3, AnswerTyped
<1>3. QED
  BY <1>1, <1>2

LEMMA EnterTyped ==
    ASSUME NEW s \in ServerState
    PROVE  EnterWorld(s, User) \in ServerState /\ EnterWorld(s, User).session[Me] = User
  BY DEF EnterWorld, ServerState, Me, Ids, Name, Names

\* Whom the requests name.
LEMMA Asking ==
    ASSUME TypeOK, toServer # <<>>, Head(toServer).type \in {"login", "newCharacter"}
    PROVE  Head(toServer).user = User
<1>1. Head(toServer) \in ToServer
  BY TailIs DEF TypeOK
<1>2. QED
  BY <1>1, LoadKinds DEF ToServer

\* The load is served: held refusals follow its end.
LoadServed ==
    /\ toServer # <<>> /\ toServer' = Tail(toServer)
    /\ UNCHANGED <<phases, client, players, budget, misread>>
    /\ mission' \in [cycle : 1 .. Missions, stage : DOMAIN Awaited \cup {"done"}]
    /\ \/ toClient' = toClient
       \/ \E reply \in Seq(Loading) :
            \/ toClient' = toClient \o reply
            \/ toClient' = (toClient \o reply) \o server.held /\ server'.held = <<>>
    /\ server' = server \/ server' = [server EXCEPT !.held = <<>>]

LEMMA ServerLoadIs ==
    ASSUME TypeOK, ServerLoad
    PROVE  LoadServed
<1>1. ServerLoads(server.held)
  BY DEF ServerLoad
<1>2. CASE /\ mission.stage # "done"
           /\ Head(toServer) = Message(Awaited[mission.stage], mission.cycle)
  <2>1. mission.stage \in DOMAIN Awaited /\ mission.cycle \in 1 .. Missions
    BY <1>2 DEF TypeOK
  <2>2. Reply(mission.stage) \in Seq(Loading)
    BY <2>1, ReplyTyped
  <2>3. NextStage[mission.stage] \in DOMAIN Awaited \cup {"done"}
    BY <2>1 DEF Awaited, NextStage
  <2>4. mission' = [mission EXCEPT !.stage = NextStage[mission.stage]]
    BY <1>1, <1>2 DEF ServerLoads
  <2>5. mission' \in [cycle : 1 .. Missions, stage : DOMAIN Awaited \cup {"done"}]
    BY <2>3, <2>4 DEF TypeOK
  <2>6. toClient' = toClient \o Reply(mission.stage)
                    \o (IF mission.stage = "phase3" THEN server.held ELSE <<>>)
    BY <1>1, <1>2 DEF ServerLoads
  <2>7. (toClient \o Reply(mission.stage)) \o <<>> = toClient \o Reply(mission.stage)
    <3>1. toClient \o Reply(mission.stage) \in Seq(ToClient)
      BY <2>2, Wider, ConcatIs DEF TypeOK
    <3>2. QED
      BY <3>1
  <2>8. \/ toClient' = toClient \o Reply(mission.stage)
        \/ /\ toClient' = (toClient \o Reply(mission.stage)) \o server.held
           /\ server'.held = <<>>
    <3>1. CASE mission.stage = "phase3"
      <4>1. mission'.stage = "done"
        BY <2>4, <3>1 DEF NextStage, TypeOK
      <4>2. server'.held = <<>>
        BY <4>1 DEF ServerLoad, TypeOK, ServerState
      <4>3. QED
        BY <2>6, <3>1, <4>2
    <3>2. CASE mission.stage # "phase3"
      BY <2>6, <2>7, <3>2
    <3>3. QED
      BY <3>1, <3>2
  <2>9. QED
    BY <1>1, <2>2, <2>5, <2>8 DEF LoadServed, ServerLoad, ServerLoads
<1>3. CASE ~(/\ mission.stage # "done"
             /\ Head(toServer) = Message(Awaited[mission.stage], mission.cycle))
  <2>1. UNCHANGED <<mission, toClient>>
    BY <1>1, <1>3 DEF ServerLoads
  <2>2. QED
    BY <1>1, <2>1 DEF LoadServed, ServerLoad, ServerLoads, TypeOK
<1>4. QED
  BY <1>2, <1>3

LEMMA ServerStepTyped ==
    ASSUME TypeOK, ServerStep
    PROVE  TypeOK'
<1>1. CASE ServerLoad
  <2>1. LoadServed
    BY <1>1, ServerLoadIs
  <2>2. server.held \in Seq(Warnings) /\ server.held \in Seq(ToClient)
    BY Wider DEF TypeOK, ServerState
  <2>3. toClient' \in Seq(ToClient)
    <3>1. ASSUME NEW reply \in Seq(Loading)
          PROVE  toClient \o reply \in Seq(ToClient) /\ (toClient \o reply) \o server.held \in Seq(ToClient)
      BY <2>2, Wider, ConcatIs DEF TypeOK
    <3>2. toClient \in Seq(ToClient)
      BY DEF TypeOK
    <3>3. \/ toClient' = toClient
          \/ \E reply \in Seq(Loading) :
               \/ toClient' = toClient \o reply
               \/ toClient' = (toClient \o reply) \o server.held
      BY <2>1 DEF LoadServed
    <3>4. QED
      BY <3>1, <3>2, <3>3
  <2>4. server' \in ServerState /\ server'.session[Me] \in {User, LoggedOut}
    <3>1. server' = server \/ server' = [server EXCEPT !.held = <<>>]
      BY <2>1 DEF LoadServed
    <3>2. <<>> \in Seq(Warnings) /\ server \in ServerState /\ server.session[Me] \in {User, LoggedOut}
      BY DEF TypeOK
    <3>3. QED
      BY <3>1, <3>2 DEF ServerState
  <2>5. toServer' \in Seq(ToServer)
    BY <2>1, TailIs DEF LoadServed, TypeOK
  <2>6. QED
    BY <2>1, <2>3, <2>4, <2>5 DEF LoadServed, TypeOK
<1>2. CASE ServerLogin
  <2>1. toServer # <<>> /\ Head(toServer).user = User
    BY <1>2, Asking DEF ServerLogin, Asked
  <2>2. server \in ServerState /\ server.session[Me] \in {User, LoggedOut}
    BY DEF TypeOK
  <2>3. [server EXCEPT !.refused = @ \cup {User}] \in ServerState
        /\ [server EXCEPT !.refused = @ \cup {User}].session = server.session
    BY <2>2 DEF ServerState
  <2>7. Warning("missing", "login") \in Warnings /\ Warning("inuse", "login") \in Warnings
    BY Sendable
  <2>8. \/ Answer(server, <<[type |-> "LoginSuccess"]>>)
        \/ Answer(server, <<>>)
        \/ Refuse([server EXCEPT !.refused = @ \cup {User}], Warning("missing", "login"))
        \/ Refuse(server, Warning("inuse", "login"))
        \/ Answer(EnterWorld(server, User),
                  <<Join(Me, User, Start), Text("logged in", User), [type |-> "LoginSuccess"],
                    Control("player")>>)
    BY <1>2, <2>1 DEF ServerLogin
  <2>9. CASE Answer(server, <<[type |-> "LoginSuccess"]>>) \/ Answer(server, <<>>)
    BY <2>1, <2>2, <2>9, Spoken, AnswerTyped
  <2>10. CASE \/ Refuse([server EXCEPT !.refused = @ \cup {User}], Warning("missing", "login"))
              \/ Refuse(server, Warning("inuse", "login"))
    BY <2>1, <2>2, <2>3, <2>7, <2>10, RefuseTyped
  <2>11. CASE Answer(EnterWorld(server, User),
                  <<Join(Me, User, Start), Text("logged in", User), [type |-> "LoginSuccess"],
                    Control("player")>>)
    BY <2>1, <2>2, <2>11, Spoken, EnterTyped, AnswerTyped
  <2>12. QED
    BY <2>8, <2>9, <2>10, <2>11
<1>3. CASE ServerRegister
  <2>1. toServer # <<>> /\ Head(toServer).user = User
    BY <1>3, Asking DEF ServerRegister, Asked
  <2>2. server \in ServerState /\ server.session[Me] \in {User, LoggedOut}
    BY DEF TypeOK
  <2>3. [server EXCEPT !.accounts = @ \cup {User}] \in ServerState
    BY <2>2 DEF ServerState
  <2>6. \/ Answer(server, <<[type |-> "ConfirmOverwrite"]>>)
        \/ Answer(server, <<Warning("other", "newCharacter")>>)
        \/ Answer(EnterWorld([server EXCEPT !.accounts = @ \cup {User}], User),
                  <<Join(Me, User, Start), Text("created", User), Control("player")>>)
    BY <1>3, <2>1 DEF ServerRegister
  <2>7. QED
    BY <2>1, <2>2, <2>3, <2>6, Spoken, EnterTyped, AnswerTyped
<1>4. CASE ServerLogout
  <2> DEFINE s == [server EXCEPT !.session[Me] = LoggedOut, !.control = "camera"]
  <2>1. toServer # <<>> /\ server \in ServerState /\ server.session[Me] \in {User, LoggedOut}
    BY <1>4 DEF TypeOK, ServerLogout, Asked
  <2>2. s \in ServerState /\ s.session[Me] = LoggedOut
    BY <2>1 DEF ServerState, Me, Ids, Name
  <2>5. \/ Answer(server, <<>>) \/ Answer(s, <<Join(Me, LoggedOut, Start), Control("camera")>>)
    BY <1>4 DEF ServerLogout
  <2> HIDE DEF s
  <2>6. QED
    BY <2>1, <2>2, <2>5, Spoken, AnswerTyped
<1>5. CASE ServerDropsCamera
  <2> DEFINE s == [server EXCEPT !.control = "camera"]
  <2>1. toServer # <<>> /\ server \in ServerState /\ server.session[Me] \in {User, LoggedOut}
    BY <1>5 DEF TypeOK, ServerDropsCamera, Asked
  <2>2. s \in ServerState /\ s.session[Me] = server.session[Me]
    BY <2>1 DEF ServerState
  <2>4. Answer(server, <<>>) \/ Answer(s, <<Control("camera")>>)
    BY <1>5 DEF ServerDropsCamera
  <2> HIDE DEF s
  <2>5. QED
    BY <2>1, <2>2, <2>4, Spoken, AnswerTyped
<1>6. QED
  BY <1>1, <1>2, <1>3, <1>4, <1>5 DEF ServerStep

\* The client acts on its own: a user's command, the end of a burst, the debounce.
Acted ==
    /\ UNCHANGED <<mission, toClient, players, server, misread>>
    /\ budget' \in 0 .. MaxExtras
    /\ phases' \in PhasesState
    /\ client' \in ClientState /\ client'.control = client.control
    /\ Needs(client') => Needs(client)
    /\ \E sent \in Seq(ToServer) : toServer' = toServer \o sent

ClientStep == AnswerBurst \/ ThreeSecondsPass \/ UserLogsIn \/ UserLogsOut \/ UserRegisters

LEMMA ClientStepIs ==
    ASSUME TypeOK, ClientStep
    PROVE  Acted
<1>1. /\ client \in ClientState /\ phases \in PhasesState /\ toServer \in Seq(ToServer)
      /\ budget \in 0 .. MaxExtras /\ MaxExtras \in Nat
  BY SessionAssumption DEF TypeOK
<1>2. CASE AnswerBurst
  <2>1. Ready \in Seq(ToServer)
    BY <1>1, Requests DEF Ready, PhasesState
  <2>2. phases' \in PhasesState
    BY <1>1, <1>2 DEF AnswerBurst, IdleCheck, PhasesState
  <2>3. QED
    BY <1>1, <1>2, <2>1, <2>2 DEF AnswerBurst, IdleCheck, Acted
<1>3. CASE ThreeSecondsPass
  <2> DEFINE c == [client EXCEPT !.justDropped = FALSE]
  <2>1. c \in ClientState /\ c.control = client.control /\ (Needs(c) => Needs(client))
    BY <1>1 DEF ClientState, Needs
  <2>2. <<>> \in Seq(ToServer) /\ toServer \o <<>> = toServer
    BY <1>1
  <2>3. client' = c /\ UNCHANGED <<missionVars, players, server, budget, misread>>
    BY <1>3 DEF ThreeSecondsPass
  <2> HIDE DEF c
  <2>4. QED
    BY <1>1, <2>1, <2>2, <2>3 DEF Acted, missionVars
<1>4. ASSUME NEW c \in ClientState, NEW sent \in Seq(ToServer), UserActs(c, sent),
             c.control = client.control, Needs(c) => Needs(client)
      PROVE  Acted
  <2>1. budget' \in 0 .. MaxExtras
    BY <1>1, <1>4 DEF UserActs
  <2>2. QED
    BY <1>1, <1>4, <2>1 DEF UserActs, Acted
<1>5. CASE UserLogsIn
  <2>1. [client EXCEPT !.loginUser = User] \in ClientState
        /\ [client EXCEPT !.loginUser = User].control = client.control
        /\ (Needs([client EXCEPT !.loginUser = User]) => Needs(client))
    BY <1>1 DEF ClientState, Needs
  <2>2. <<Login(User)>> \in Seq(ToServer)
    BY Requests, OneRequest
  <2>3. UserActs([client EXCEPT !.loginUser = User], <<Login(User)>>)
    BY <1>5 DEF UserLogsIn
  <2>4. QED
    BY <1>4, <2>1, <2>2, <2>3
<1>6. CASE UserLogsOut
  <2>1. [client EXCEPT !.loggedIn = FALSE] \in ClientState
        /\ [client EXCEPT !.loggedIn = FALSE].control = client.control
        /\ (Needs([client EXCEPT !.loggedIn = FALSE]) => Needs(client))
    BY <1>1 DEF ClientState, Needs
  <2>2. <<[type |-> "logout"]>> \in Seq(ToServer)
    BY Requests, OneRequest
  <2>3. UserActs([client EXCEPT !.loggedIn = FALSE], <<[type |-> "logout"]>>)
    BY <1>6 DEF UserLogsOut
  <2>4. QED
    BY <1>4, <2>1, <2>2, <2>3
<1>7. CASE UserRegisters
  <2>1. Registering(client, User).client \in ClientState
        /\ Registering(client, User).client.control = client.control
        /\ (Needs(Registering(client, User).client) => Needs(client))
    BY <1>1 DEF Registering, ClientState, Needs
  <2>2. <<Register(User)>> \in Seq(ToServer)
    BY Requests, OneRequest
  <2>3. UserActs(Registering(client, User).client, <<Register(User)>>)
    BY <1>7 DEF UserRegisters
  <2>4. QED
    BY <1>4, <2>1, <2>2, <2>3
<1>8. QED
  BY <1>2, <1>3, <1>5, <1>6, <1>7 DEF ClientStep

\* What the server tells unasked.
Told ==
    RosterSync \/ OtherLeaves \/ Respawn
    \/ (\E n \in Names \cup {LoggedOut} : OtherMoves(n)) \/ (\E z \in Zones : OtherTravels(z))

LEMMA ToldTyped ==
    ASSUME TypeOK, Told
    PROVE  TypeOK'
<1>1. /\ server \in ServerState /\ server.session[Me] \in {User, LoggedOut}
      /\ budget \in 0 .. MaxExtras /\ (budget > 0 => budget - 1 \in 0 .. MaxExtras)
  BY SessionAssumption DEF TypeOK
<1>2. Me # 1 /\ Me \in Ids /\ 1 \in Ids /\ {User, LoggedOut} \subseteq Name
  BY DEF Me, Ids, Name, Names
<1>3. ASSUME NEW q \in Seq(ToClient), NEW r \in Seq(ToClient) PROVE q \o r \in Seq(ToClient)
  BY <1>3, ConcatIs
<1>4. ASSUME NEW m \in ToClient PROVE Broadcast(m) \in Seq(ToClient)
  BY Tuples DEF Broadcast
<1>5. CASE RosterSync
  <2> DEFINE s == [server EXCEPT !.synced = TRUE, !.used[1] = {server.session[1]} \cap Names]
  <2>1. s \in ServerState /\ s.session = server.session
    BY <1>1, <1>2 DEF ServerState
  <2>2. /\ Join(Me, server.session[Me], Start) \in ToClient
        /\ server.session[1] # Absent => Join(1, server.session[1], server.zone) \in ToClient
    BY <1>1, <1>2, HereIs, Sendable DEF ServerState
  <2>3. Tells(s, budget,
              <<Join(Me, server.session[Me], Start)>>
              \o IF server.session[1] = Absent THEN <<>> ELSE <<Join(1, server.session[1], server.zone)>>)
    BY <1>5 DEF RosterSync
  <2> HIDE DEF s
  <2>4. QED
    BY <1>1, <1>3, <2>1, <2>2, <2>3, Tuples, TellsTyped
<1>6. CASE OtherLeaves
  <2> DEFINE s == [server EXCEPT !.session[1] = Absent, !.used[1] = {}]
  <2>1. s \in ServerState /\ s.session[Me] = server.session[Me]
    BY <1>1, <1>2 DEF ServerState
  <2>2. [type |-> "Drop", id |-> 1, used |-> server.used[1]] \in ToClient
    BY <1>1, <1>2, Sendable DEF ServerState
  <2>3. Tells(s, budget, Broadcast([type |-> "Drop", id |-> 1, used |-> server.used[1]]))
    BY <1>6 DEF OtherLeaves
  <2> HIDE DEF s
  <2>4. QED
    BY <1>1, <1>4, <2>1, <2>2, <2>3, TellsTyped
<1>7. CASE Respawn
  <2> DEFINE s == [server EXCEPT !.control = "player"]
  <2>1. s \in ServerState /\ s.session[Me] = server.session[Me]
    BY <1>1 DEF ServerState
  <2>2. Tells(s, budget - 1, <<Control("player")>>) /\ budget > 0
    BY <1>7 DEF Respawn
  <2> HIDE DEF s
  <2>3. QED
    BY <1>1, <2>1, <2>2, Spoken, TellsTyped
<1>8. ASSUME NEW n \in Names \cup {LoggedOut}, OtherMoves(n) PROVE TypeOK'
  <2> DEFINE s == [server EXCEPT !.session[1] = n, !.used[1] = @ \cup ({n} \cap Names)]
  <2>1. s \in ServerState /\ s.session[Me] = server.session[Me]
    BY <1>1, <1>2 DEF ServerState, Name
  <2>2. Join(1, n, server.zone) \in ToClient
    BY <1>1, <1>2, Sendable DEF ServerState, Name
  <2>3. (IF n \in Names THEN <<Text("logged in", n)>> ELSE <<>>) \in Seq(ToClient)
    BY Sendable, Tuples
  <2>4. Tells(s, budget - 1, Broadcast(Join(1, n, server.zone))
                             \o (IF n \in Names THEN <<Text("logged in", n)>> ELSE <<>>))
        /\ budget > 0
    BY <1>8 DEF OtherMoves
  <2> HIDE DEF s
  <2>5. QED
    BY <1>1, <1>3, <1>4, <2>1, <2>2, <2>3, <2>4, TellsTyped
<1>9. ASSUME NEW z \in Zones, OtherTravels(z) PROVE TypeOK'
  <2> DEFINE s == [server EXCEPT !.zone = z]
  <2>1. s \in ServerState /\ s.session[Me] = server.session[Me]
    BY <1>1 DEF ServerState
  <2>2. Broadcast([type |-> "Zone", id |-> 1, zone |-> z]) \in Seq(ToClient)
    BY <1>4, Sendable
  <2>3. Tells(s, budget - 1, Broadcast([type |-> "Zone", id |-> 1, zone |-> z])) /\ budget > 0
    BY <1>9 DEF OtherTravels
  <2> HIDE DEF s
  <2>4. QED
    BY <1>1, <2>1, <2>2, <2>3, TellsTyped
<1>10. QED
  BY <1>5, <1>6, <1>7, <1>8, <1>9 DEF Told

\* The next mission begins.
Continued ==
    /\ UNCHANGED <<phases, toServer, client, players, server, misread>>
    /\ mission' \in [cycle : 1 .. Missions, stage : DOMAIN Awaited \cup {"done"}]
    /\ budget' \in 0 .. MaxExtras
    /\ \E sent \in Seq(Loading) : toClient' = toClient \o sent

LEMMA NextMissionIs ==
    ASSUME TypeOK, StartNextMission
    PROVE  Continued
<1>1. mission.cycle \in 1 .. Missions /\ mission.cycle < Missions /\ Missions \in Nat
      /\ budget \in 0 .. MaxExtras /\ budget > 0 /\ MaxExtras \in Nat
  BY MissionAssumption, SessionAssumption DEF StartNextMission, NextMission, TypeOK
<1>2. "phase1" \in DOMAIN Awaited
  BY DEF Awaited
<1>3. /\ Message("EndGhosting", 0) \in Loading
      /\ Message("MissionStartPhase1", mission.cycle + 1) \in Loading
  BY <1>1, LoadTyped
<1>4. <<Message("EndGhosting", 0), Message("MissionStartPhase1", mission.cycle + 1)>> \in Seq(Loading)
  BY <1>3, Tuples
<1>5. mission' \in [cycle : 1 .. Missions, stage : DOMAIN Awaited \cup {"done"}]
  BY <1>1, <1>2 DEF StartNextMission, NextMission
<1>6. budget' \in 0 .. MaxExtras
  BY <1>1 DEF StartNextMission
<1>7. QED
  BY <1>4, <1>5, <1>6 DEF StartNextMission, NextMission, Continued

LEMMA NextCases ==
    ASSUME Next
    PROVE  Receive \/ ClientStep \/ ServerStep \/ Told \/ StartNextMission
  BY DEF Next, ClientStep, Told

LEMMA StepTyped ==
    ASSUME TypeOK, [Next]_vars
    PROVE  TypeOK'
<1>1. CASE ClientStep
  <2>1. Acted
    BY <1>1, ClientStepIs
  <2>2. toServer' \in Seq(ToServer)
    BY <2>1, ConcatIs DEF Acted, TypeOK
  <2>3. QED
    BY <2>1, <2>2 DEF Acted, TypeOK
<1>2. CASE StartNextMission
  <2>1. Continued
    BY <1>2, NextMissionIs
  <2>2. toClient' \in Seq(ToClient)
    BY <2>1, ConcatIs, Wider DEF Continued, TypeOK
  <2>3. QED
    BY <2>1, <2>2 DEF Continued, TypeOK
<1>3. CASE UNCHANGED vars
  BY <1>3 DEF vars, missionVars, TypeOK
<1>4. QED
  BY <1>1, <1>2, <1>3, NextCases, ReceiveTyped, ServerStepTyped, ToldTyped

\* The variables keep their types: in every state the queues hold only messages the
\* other end knows how to handle, the client never has a login deferred while it is
\* logged in, and its own client id is its character or the placeholder.
THEOREM Typing == Spec => []TypeOK
<1>1. Init => TypeOK
  BY InitTyped
<1>2. TypeOK /\ [Next]_vars => TypeOK'
  BY StepTyped
<1>3. QED
  BY <1>1, <1>2, PTL DEF Spec

-----------------------------------------------------------------------------
(* The names of the other client, read off the queue *)

\* Nobody is dropped from position a up to d.
Kept(q, a, d) == \A l \in a .. d - 1 : q[l] \notin Drops

\* The names before position d, of a client that had those in had.
Used(q, had, d) ==
    {n \in Names : \/ n \in had /\ Kept(q, 1, d)
                   \/ \E k \in 1 .. d - 1 : /\ q[k] \in Joins /\ q[k].id = 1 /\ q[k].name = n
                                            /\ Kept(q, k + 1, d)}

LEMMA KeptConcat ==
    ASSUME NEW S, NEW q \in Seq(S), NEW s \in Seq(S), NEW j \in 1 .. Len(s) + 1
    PROVE  /\ \A a \in 1 .. Len(q) + 1 :
                Kept(q \o s, a, Len(q) + j) <=> Kept(q, a, Len(q) + 1) /\ Kept(s, 1, j)
           /\ \A b \in 1 .. j :
                Kept(q \o s, Len(q) + b, Len(q) + j) <=> Kept(s, b, j)
<1>1. Len(q) \in Nat /\ Len(s) \in Nat /\ Len(q \o s) = Len(q) + Len(s)
  BY ConcatIs
<1>2. \A l \in 1 .. Len(q) : (q \o s)[l] = q[l]
  BY ConcatIs
<1>3. \A l \in 1 .. Len(s) : (q \o s)[Len(q) + l] = s[l]
  BY ConcatIs
<1>4. ASSUME NEW b \in 1 .. j
      PROVE  Kept(q \o s, Len(q) + b, Len(q) + j) <=> Kept(s, b, j)
  <2>1. ASSUME Kept(q \o s, Len(q) + b, Len(q) + j), NEW l \in b .. j - 1
        PROVE  s[l] \notin Drops
    <3>1. Len(q) + l \in Len(q) + b .. Len(q) + j - 1 /\ l \in 1 .. Len(s)
      BY <1>1
    <3>2. (q \o s)[Len(q) + l] \notin Drops
      BY <2>1, <3>1 DEF Kept
    <3>3. QED
      BY <1>3, <3>1, <3>2
  <2>2. ASSUME Kept(s, b, j), NEW l \in Len(q) + b .. Len(q) + j - 1
        PROVE  (q \o s)[l] \notin Drops
    <3>1. l - Len(q) \in b .. j - 1 /\ l - Len(q) \in 1 .. Len(s) /\ Len(q) + (l - Len(q)) = l
      BY <1>1
    <3>2. QED
      BY <1>3, <2>2, <3>1 DEF Kept
  <2>3. QED
    BY <2>1, <2>2 DEF Kept
<1>5. ASSUME NEW a \in 1 .. Len(q) + 1
      PROVE  Kept(q \o s, a, Len(q) + j) <=> Kept(q, a, Len(q) + 1) /\ Kept(s, 1, j)
  <2>1. Kept(q \o s, a, Len(q) + j) <=>
          Kept(q \o s, a, Len(q) + 1) /\ Kept(q \o s, Len(q) + 1, Len(q) + j)
    BY <1>1 DEF Kept
  <2>2. Kept(q \o s, a, Len(q) + 1) <=> Kept(q, a, Len(q) + 1)
    BY <1>1, <1>2 DEF Kept
  <2>3. 1 \in 1 .. j
    BY <1>1
  <2>4. QED
    BY <1>4, <2>1, <2>2, <2>3
<1>6. QED
  BY <1>4, <1>5

LEMMA UsedPrefix ==
    ASSUME NEW S, NEW q \in Seq(S), NEW s \in Seq(S), NEW had, NEW d \in 1 .. Len(q) + 1
    PROVE  Used(q \o s, had, d) = Used(q, had, d)
<1>1. Len(q) \in Nat /\ \A l \in 1 .. Len(q) : (q \o s)[l] = q[l]
  BY ConcatIs
<1>2. \A k \in 1 .. d - 1 : (q \o s)[k] = q[k]
  BY <1>1
<1>3. \A a \in 1 .. d : Kept(q \o s, a, d) <=> Kept(q, a, d)
  BY <1>1, <1>2 DEF Kept
<1>4. 1 \in 1 .. d /\ \A k \in 1 .. d - 1 : k + 1 \in 1 .. d
  BY <1>1
<1>5. QED
  BY <1>2, <1>3, <1>4 DEF Used

LEMMA UsedConcat ==
    ASSUME NEW S, NEW q \in Seq(S), NEW s \in Seq(S), NEW had, NEW j \in 1 .. Len(s) + 1
    PROVE  Used(q \o s, had, Len(q) + j) = Used(s, Used(q, had, Len(q) + 1), j)
<1>1. Len(q) \in Nat /\ Len(s) \in Nat /\ Len(q \o s) = Len(q) + Len(s)
  BY ConcatIs
<1>2. \A l \in 1 .. Len(q) : (q \o s)[l] = q[l]
  BY ConcatIs
<1>3. \A l \in 1 .. Len(s) : (q \o s)[Len(q) + l] = s[l]
  BY ConcatIs
<1> DEFINE entered(p, k, n) == p[k] \in Joins /\ p[k].id = 1 /\ p[k].name = n
<1>4. ASSUME NEW n \in Names, n \in Used(q \o s, had, Len(q) + j)
      PROVE  n \in Used(s, Used(q, had, Len(q) + 1), j)
  <2>1. CASE n \in had /\ Kept(q \o s, 1, Len(q) + j)
    <3>1. Kept(q, 1, Len(q) + 1) /\ Kept(s, 1, j)
      <4>1. 1 \in 1 .. Len(q) + 1
        BY <1>1
      <4>2. QED
        BY <2>1, <4>1, KeptConcat
    <3>2. QED
      BY <2>1, <3>1 DEF Used
  <2>2. ASSUME NEW k \in 1 .. Len(q) + j - 1, entered(q \o s, k, n), Kept(q \o s, k + 1, Len(q) + j)
        PROVE  n \in Used(s, Used(q, had, Len(q) + 1), j)
    <3>1. CASE k \in 1 .. Len(q)
      <4>1. k + 1 \in 1 .. Len(q) + 1
        BY <1>1, <3>1
      <4>2. Kept(q, k + 1, Len(q) + 1) /\ Kept(s, 1, j)
        BY <2>2, <4>1, KeptConcat
      <4>3. entered(q, k, n)
        BY <1>2, <2>2, <3>1
      <4>4. k \in 1 .. (Len(q) + 1) - 1
        BY <1>1, <3>1
      <4>5. n \in Used(q, had, Len(q) + 1)
        BY <4>2, <4>3, <4>4 DEF Used
      <4>6. QED
        BY <4>2, <4>5 DEF Used
    <3>2. CASE k \notin 1 .. Len(q)
      <4> DEFINE b == k - Len(q)
      <4>1. b \in 1 .. j - 1 /\ b + 1 \in 1 .. j /\ b \in 1 .. Len(s)
            /\ k = Len(q) + b /\ k + 1 = Len(q) + (b + 1)
        BY <1>1, <3>2
      <4> HIDE DEF b
      <4>2. Kept(s, b + 1, j)
        BY <2>2, <4>1, KeptConcat
      <4>3. entered(s, b, n)
        BY <1>3, <2>2, <4>1
      <4>4. QED
        BY <4>1, <4>2, <4>3 DEF Used
    <3>3. QED
      BY <3>1, <3>2
  <2>3. QED
    BY <1>4, <2>1, <2>2 DEF Used
<1>5. ASSUME NEW n \in Names, n \in Used(s, Used(q, had, Len(q) + 1), j)
      PROVE  n \in Used(q \o s, had, Len(q) + j)
  <2>1. CASE n \in Used(q, had, Len(q) + 1) /\ Kept(s, 1, j)
    <3>1. CASE n \in had /\ Kept(q, 1, Len(q) + 1)
      <4>1. 1 \in 1 .. Len(q) + 1
        BY <1>1
      <4>2. Kept(q \o s, 1, Len(q) + j)
        BY <2>1, <3>1, <4>1, KeptConcat
      <4>3. QED
        BY <3>1, <4>2 DEF Used
    <3>2. ASSUME NEW k \in 1 .. (Len(q) + 1) - 1, entered(q, k, n), Kept(q, k + 1, Len(q) + 1)
          PROVE  n \in Used(q \o s, had, Len(q) + j)
      <4>1. k + 1 \in 1 .. Len(q) + 1 /\ k \in 1 .. Len(q) /\ k \in 1 .. (Len(q) + j) - 1
        BY <1>1, <3>2
      <4>2. Kept(q \o s, k + 1, Len(q) + j)
        BY <2>1, <3>2, <4>1, KeptConcat
      <4>3. entered(q \o s, k, n)
        BY <1>2, <3>2, <4>1
      <4>4. QED
        BY <4>1, <4>2, <4>3 DEF Used
    <3>3. QED
      BY <2>1, <3>1, <3>2 DEF Used
  <2>2. ASSUME NEW b \in 1 .. j - 1, entered(s, b, n), Kept(s, b + 1, j)
        PROVE  n \in Used(q \o s, had, Len(q) + j)
    <3> DEFINE k == Len(q) + b
    <3>1. k \in 1 .. (Len(q) + j) - 1 /\ b + 1 \in 1 .. j /\ b \in 1 .. Len(s)
          /\ k + 1 = Len(q) + (b + 1) /\ k = Len(q) + b
      BY <1>1, <2>2
    <3> HIDE DEF k
    <3>2. Kept(q \o s, k + 1, Len(q) + j)
      BY <2>2, <3>1, KeptConcat
    <3>3. entered(q \o s, k, n)
      BY <1>3, <2>2, <3>1
    <3>4. QED
      BY <3>1, <3>2, <3>3 DEF Used
  <2>3. QED
    BY <1>5, <2>1, <2>2 DEF Used
<1>6. QED
  BY <1>4, <1>5 DEF Used

LEMMA UsedTyped ==
    ASSUME NEW q, NEW had, NEW d
    PROVE  Used(q, had, d) \in SUBSET Names
  BY DEF Used

\* What one message, and what a stretch without the client, leaves of its names.
LEMMA UsedOne ==
    ASSUME NEW S, NEW m \in S, NEW had \in SUBSET Names
    PROVE  /\ Used(<<m>>, had, 1) = had
           /\ m \in Drops => Used(<<m>>, had, 2) = {}
           /\ m \in Joins /\ m.id = 1 => Used(<<m>>, had, 2) = had \cup ({m.name} \cap Names)
           /\ m \notin Drops /\ ~(m \in Joins /\ m.id = 1) => Used(<<m>>, had, 2) = had
<1>1. <<m>>[1] = m /\ 1 .. 2 - 1 = {1} /\ 1 .. 1 - 1 = {} /\ 2 .. 2 - 1 = {} /\ 1 + 1 = 2
  OBVIOUS
<1>2. /\ Kept(<<m>>, 1, 1) /\ Kept(<<m>>, 2, 2)
      /\ Kept(<<m>>, 1, 2) <=> m \notin Drops
  BY <1>1 DEF Kept
<1>3. m \in Drops => m \notin Joins
  BY DEF Drops, Joins
<1>4. QED
  BY <1>1, <1>2, <1>3 DEF Used

LEMMA UsedFree ==
    ASSUME NEW S, NEW s \in Seq(S), NEW had \in SUBSET Names,
           FreeOf(s, Drops \cup {m \in Joins : m.id = 1})
    PROVE  Used(s, had, Len(s) + 1) = had
<1>1. Kept(s, 1, Len(s) + 1)
  BY DEF Kept, FreeOf
<1>2. \A k \in 1 .. (Len(s) + 1) - 1 : ~(s[k] \in Joins /\ s[k].id = 1)
  BY DEF FreeOf
<1>3. QED
  BY <1>1, <1>2 DEF Used

-----------------------------------------------------------------------------
(* What the server says with a step *)

OnList(i) == {m \in Joins \cup Drops : m.id = i}
Placing == {m \in Joins : m.id = 1} \cup ZoneChanges

\* The messages that show client i as n, and those that place the other one at z.
Shows(i, n) == {m \in OnList(i) : IF n = Absent THEN m.type = "Drop"
                                  ELSE m.type = "Join" /\ m.name = n}
At(z) == {m \in Placing : m.zone = z}

ControlSaid(s) ==
    \/ LastIn(s, Controls, {Control(server'.control)})
    \/ FreeOf(s, Controls) /\ server'.control = server.control

ListSaid(s) ==
    \A i \in Ids : server'.synced =>
      \/ LastIn(s, OnList(i), Shows(i, server'.session[i]))
      \/ /\ FreeOf(s, OnList(i))
         /\ IF server.synced THEN server'.session[i] = server.session[i]
            ELSE i = 1 /\ server'.session[i] = Absent

ZoneSaid(s) ==
    server'.synced =>
      \/ LastIn(s, Placing, At(server'.zone))
      \/ FreeOf(s, Placing) /\ (server.synced => server'.zone = server.zone)

UnsyncedSaid(s) ==
    ~server'.synced => ~server.synced /\ FreeOf(s, OnList(1) \cup ZoneChanges)

NamesNow == IF server.synced THEN server.used[1] ELSE {}

HistorySaid(s) ==
    /\ server'.synced => server'.used[1] = Used(s, NamesNow, Len(s) + 1)
    /\ \A d \in 1 .. Len(s) : s[d] \in Drops => server.synced /\ s[d].used = Used(s, NamesNow, d)

Said ==
    /\ UNCHANGED <<client, players, misread>>
    /\ \E s \in Seq(ToClient) :
         /\ toClient' = toClient \o s
         /\ ControlSaid(s) /\ ListSaid(s) /\ ZoneSaid(s) /\ UnsyncedSaid(s) /\ HistorySaid(s)

LEMMA Families ==
    ASSUME NEW m \in ToClient
    PROVE  /\ m.type # "Control" => m \notin Controls
           /\ m.type \notin {"Join", "Drop"} => \A i : m \notin OnList(i)
           /\ m.type \notin {"Join", "Zone"} => m \notin Placing
           /\ m.type # "Zone" => m \notin ZoneChanges
           /\ m.type # "Drop" => m \notin Drops
           /\ m.type # "Join" => m \notin Joins
  BY DEF Controls, OnList, Placing, ZoneChanges, Joins, Drops

LEMMA Unheard ==
    ASSUME NEW m \in Loading \cup Warnings
    PROVE  m \in ToClient /\ m.type \notin {"Join", "Drop", "Zone", "Control", "Text"}
  BY DEF Loading, Warnings, ToClient

\* Steps that leave the other client alone.
LEMMA OwnSaid ==
    ASSUME TypeOK, NEW s \in Seq(ToClient), toClient' = toClient \o s,
           UNCHANGED <<client, players, misread>>,
           FreeOf(s, OnList(1) \cup ZoneChanges),
           server'.synced = server.synced, server'.zone = server.zone,
           server'.session[1] = server.session[1], server'.used[1] = server.used[1],
           \/ LastIn(s, OnList(Me), Shows(Me, server'.session[Me]))
           \/ FreeOf(s, OnList(Me)) /\ server'.session[Me] = server.session[Me],
           ControlSaid(s)
    PROVE  Said
<1>1. server.used[1] \in SUBSET Names /\ NamesNow \in SUBSET Names
  BY DEF TypeOK, ServerState, NamesNow, Ids
<1>2. FreeOf(s, OnList(1)) /\ FreeOf(s, Placing) /\ FreeOf(s, Drops)
      /\ FreeOf(s, Drops \cup {m \in Joins : m.id = 1})
  <2>1. Placing \subseteq OnList(1) \cup ZoneChanges /\ Drops \subseteq OnList(1)
        /\ Drops \cup {m \in Joins : m.id = 1} \subseteq OnList(1)
    BY DEF Placing, OnList, Drops
  <2>2. QED
    BY <2>1 DEF FreeOf
<1>3. ListSaid(s)
  BY <1>2 DEF ListSaid, Ids
<1>4. ZoneSaid(s) /\ UnsyncedSaid(s)
  BY <1>2 DEF ZoneSaid, UnsyncedSaid
<1>5. HistorySaid(s)
  <2>1. Used(s, NamesNow, Len(s) + 1) = NamesNow
    BY <1>1, <1>2, UsedFree
  <2>2. server'.synced => NamesNow = server'.used[1]
    BY DEF NamesNow
  <2>3. QED
    BY <1>2, <2>1, <2>2 DEF HistorySaid, FreeOf
<1>6. QED
  BY <1>3, <1>4, <1>5 DEF Said

\* Messages of the load and refusals say nothing of the roster.
LEMMA Silent ==
    ASSUME NEW s \in Seq(Loading) \cup Seq(Warnings)
    PROVE  /\ FreeOf(s, OnList(1) \cup ZoneChanges) /\ FreeOf(s, OnList(Me))
           /\ FreeOf(s, Controls) /\ s \in Seq(ToClient)
<1>1. \A k \in 1 .. Len(s) : s[k] \in Loading \cup Warnings
  OBVIOUS
<1>2. \A m \in Loading \cup Warnings :
        m \notin OnList(1) \cup ZoneChanges /\ m \notin OnList(Me) /\ m \notin Controls
  BY Unheard, Families
<1>3. QED
  BY <1>1, <1>2, Wider DEF FreeOf

LEMMA SilentSaid ==
    ASSUME TypeOK, NEW s \in Seq(ToClient), toClient' = toClient \o s,
           UNCHANGED <<client, players, misread>>,
           FreeOf(s, OnList(1) \cup ZoneChanges), FreeOf(s, OnList(Me)), FreeOf(s, Controls),
           server'.synced = server.synced, server'.zone = server.zone,
           server'.session = server.session, server'.used = server.used,
           server'.control = server.control
    PROVE  Said
<1>1. ControlSaid(s)
  BY DEF ControlSaid
<1>2. QED
  BY <1>1, OwnSaid

LEMMA NothingSaid ==
    ASSUME TypeOK
    PROVE  /\ <<>> \in Seq(ToClient) /\ toClient = toClient \o <<>>
           /\ FreeOf(<<>>, OnList(1) \cup ZoneChanges) /\ FreeOf(<<>>, OnList(Me))
           /\ FreeOf(<<>>, Controls)
<1>1. toClient = toClient \o <<>>
  BY DEF TypeOK
<1>2. \A M : FreeOf(<<>>, M)
  BY DEF FreeOf
<1>3. <<>> \in Seq(ToClient)
  OBVIOUS
<1>4. QED
  BY <1>1, <1>2, <1>3

LEMMA RefuseSaid ==
    ASSUME TypeOK, NEW s, s \in {server, [server EXCEPT !.refused = @ \cup {User}]},
           NEW w \in Warnings, Refuse(s, w)
    PROVE  Said
<1>1. server \in ServerState
  BY DEF TypeOK
<1>2. <<w>> \in Seq(Warnings)
  OBVIOUS
<1>3. CASE mission.stage = "done"
  <2>1. Answer(s, <<w>>)
    BY <1>3 DEF Refuse
  <2>2. /\ server'.synced = server.synced /\ server'.zone = server.zone
        /\ server'.session = server.session /\ server'.used = server.used
        /\ server'.control = server.control
    BY <1>1, <2>1 DEF Answer, ServerState
  <2>3. UNCHANGED <<client, players, misread>> /\ toClient' = toClient \o <<w>>
    BY <2>1 DEF Answer
  <2>4. QED
    BY <1>2, <2>2, <2>3, Silent, SilentSaid
<1>4. CASE mission.stage # "done"
  <2>1. Answer([s EXCEPT !.held = Append(@, w)], <<>>)
    BY <1>4 DEF Refuse
  <2>2. /\ server'.synced = server.synced /\ server'.zone = server.zone
        /\ server'.session = server.session /\ server'.used = server.used
        /\ server'.control = server.control
    BY <1>1, <2>1 DEF Answer, ServerState
  <2>3. UNCHANGED <<client, players, misread>> /\ toClient' = toClient \o <<>>
    BY <2>1 DEF Answer
  <2>4. QED
    BY <2>2, <2>3, NothingSaid, SilentSaid
<1>5. QED
  BY <1>3, <1>4

LEMMA Two == Me # 1 /\ 1 \in Ids /\ Me \in Ids
  BY DEF Me, Ids

LEMMA EnterWords ==
    LET j == Join(Me, User, Start)
        others == {Text("created", User), Text("logged in", User), [type |-> "LoginSuccess"],
                   Control("player")}
    IN /\ j \in OnList(Me) /\ j \in Shows(Me, User) /\ j \notin OnList(1) \cup ZoneChanges
       /\ j \notin Controls
       /\ \A m \in others : m \notin OnList(Me) /\ m \notin OnList(1) \cup ZoneChanges
       /\ Control("player") \in Controls
<1> DEFINE j == Join(Me, User, Start)
<1> DEFINE others == {Text("created", User), Text("logged in", User), [type |-> "LoginSuccess"],
                      Control("player")}
<1>1. j \in Joins /\ j \in ToClient
  BY HereIs, Sendable
<1>2. User # Absent
  BY SessionAssumption
<1>3. /\ j \in OnList(Me) /\ j \in Shows(Me, User) /\ j \notin OnList(1) \cup ZoneChanges
      /\ j \notin Controls
  BY <1>1, <1>2, Two, Families DEF OnList, Shows, Join
<1>4. ASSUME NEW m \in others PROVE m \notin OnList(Me) /\ m \notin OnList(1) \cup ZoneChanges
  <2>1. m \in ToClient
    BY HereIs, Sendable
  <2>2. /\ Text("created", User).type = "Text" /\ Text("logged in", User).type = "Text"
        /\ Control("player").type = "Control" /\ [type |-> "LoginSuccess"].type = "LoginSuccess"
    BY DEF Text, Control
  <2>3. m.type \in {"Text", "LoginSuccess", "Control"}
    BY <2>2
  <2>4. QED
    BY <2>1, <2>3, Families
<1>5. Control("player") \in Controls
  BY Sendable
<1>6. QED
  BY <1>3, <1>4, <1>5

LEMMA EnterQueues ==
    ASSUME NEW sent,
           \/ sent = <<Join(Me, User, Start), Text("created", User), Control("player")>>
           \/ sent = <<Join(Me, User, Start), Text("logged in", User), [type |-> "LoginSuccess"],
                       Control("player")>>
    PROVE  /\ sent \in Seq(ToClient)
           /\ LastIn(sent, OnList(Me), Shows(Me, User)) /\ FreeOf(sent, OnList(1) \cup ZoneChanges)
           /\ LastIn(sent, Controls, {Control("player")})
<1> DEFINE M == OnList(1) \cup ZoneChanges
<1> DEFINE j == Join(Me, User, Start)
<1> DEFINE a == Text("created", User)
<1> DEFINE b == Text("logged in", User)
<1> DEFINE c == [type |-> "LoginSuccess"]
<1> DEFINE d == Control("player")
<1>1. /\ j \in OnList(Me) /\ j \in Shows(Me, User) /\ j \notin M
      /\ a \notin OnList(Me) /\ a \notin M
      /\ b \notin OnList(Me) /\ b \notin M
      /\ c \notin OnList(Me) /\ c \notin M
      /\ d \notin OnList(Me) /\ d \notin M
      /\ d \in Controls
  BY EnterWords
<1>2. sent = <<j, a, d>> \/ sent = <<j, b, c, d>>
  OBVIOUS
<1>3. sent \in Seq(ToClient)
  BY Spoken
<1> HIDE DEF j, a, b, c, d, M
<1>4. /\ LastIn(<<j, a, d>>, OnList(Me), Shows(Me, User))
      /\ LastIn(<<j, b, c, d>>, OnList(Me), Shows(Me, User))
  BY <1>1, ShortLast
<1>5. FreeOf(<<j, a, d>>, M)
  BY <1>1, Short
<1>6. FreeOf(<<j, b, c, d>>, M)
  BY <1>1, Short
<1>7. LastIn(<<j, a, d>>, Controls, {d}) /\ LastIn(<<j, b, c, d>>, Controls, {d})
  BY <1>1, ShortLast
<1>8. QED
  BY <1>2, <1>3, <1>4, <1>5, <1>6, <1>7 DEF d, M

\* The character enters the world.
LEMMA EnterSaid ==
    ASSUME TypeOK, NEW s, s = server \/ s = [server EXCEPT !.accounts = @ \cup {User}],
           NEW sent \in Seq(ToClient), Answer(EnterWorld(s, User), sent),
           LastIn(sent, OnList(Me), Shows(Me, User)), FreeOf(sent, OnList(1) \cup ZoneChanges),
           LastIn(sent, Controls, {Control("player")})
    PROVE  Said
<1>1. server \in ServerState
  BY DEF TypeOK
<1>2. /\ server'.synced = server.synced /\ server'.zone = server.zone
      /\ server'.session[1] = server.session[1] /\ server'.used[1] = server.used[1]
      /\ server'.session[Me] = User /\ server'.control = "player"
  BY <1>1, Two DEF Answer, EnterWorld, ServerState
<1>3. UNCHANGED <<client, players, misread>> /\ toClient' = toClient \o sent
  BY DEF Answer
<1>4. QED
  BY <1>2, <1>3, OwnSaid DEF ControlSaid

LEMMA EmptyAnswer ==
    ASSUME TypeOK, NEW sent \in Seq(ToClient), Answer(server, sent),
           FreeOf(sent, OnList(1) \cup ZoneChanges), FreeOf(sent, OnList(Me)), FreeOf(sent, Controls)
    PROVE  Said
  BY SilentSaid DEF Answer

\* One message that is neither of the roster nor of the control object.
LEMMA OtherWord ==
    ASSUME NEW m \in ToClient, m.type \notin {"Join", "Drop", "Zone", "Control"}
    PROVE  /\ <<m>> \in Seq(ToClient)
           /\ FreeOf(<<m>>, OnList(1) \cup ZoneChanges) /\ FreeOf(<<m>>, OnList(Me))
           /\ FreeOf(<<m>>, Controls)
<1>1. m \notin OnList(1) \cup ZoneChanges /\ m \notin OnList(Me) /\ m \notin Controls
  BY Families
<1>2. \A M : m \notin M => FreeOf(<<m>>, M)
  BY DEF FreeOf
<1>3. QED
  BY <1>1, <1>2, Tuples

LEMMA ControlWord ==
    ASSUME NEW c \in {"player", "camera"}
    PROVE  /\ FreeOf(<<Control(c)>>, OnList(1) \cup ZoneChanges) /\ FreeOf(<<Control(c)>>, OnList(Me))
           /\ LastIn(<<Control(c)>>, Controls, {Control(c)}) /\ <<Control(c)>> \in Seq(ToClient)
<1>1. Control(c) \in ToClient /\ Control(c) \in Controls
  BY Sendable
<1>2. Control(c) \notin OnList(1) \cup ZoneChanges /\ Control(c) \notin OnList(Me)
  <2>1. Control(c).type = "Control"
    BY DEF Control
  <2>2. QED
    BY <1>1, <2>1, Families
<1>3. \A m, M : m \notin M => FreeOf(<<m>>, M)
  BY DEF FreeOf
<1>4. \A m, M, G : m \in M /\ m \in G => LastIn(<<m>>, M, G)
  BY ShortLast
<1>5. QED
  BY <1>1, <1>2, <1>3, <1>4, Tuples

LEMMA LoadSaid ==
    ASSUME TypeOK, ServerLoad
    PROVE  Said
<1>1. LoadServed
  BY ServerLoadIs
<1>2. server \in ServerState /\ server.held \in Seq(Warnings) /\ toClient \in Seq(ToClient)
  BY DEF TypeOK, ServerState
<1>3. /\ server'.synced = server.synced /\ server'.zone = server.zone
      /\ server'.session = server.session /\ server'.used = server.used
      /\ server'.control = server.control
  BY <1>1, <1>2 DEF LoadServed, ServerState
<1>4. UNCHANGED <<client, players, misread>>
  BY <1>1 DEF LoadServed
<1>5. ASSUME NEW s \in Seq(ToClient), toClient' = toClient \o s,
             FreeOf(s, OnList(1) \cup ZoneChanges), FreeOf(s, OnList(Me)), FreeOf(s, Controls)
      PROVE  Said
  BY <1>3, <1>4, <1>5, SilentSaid
<1>6. CASE toClient' = toClient
  BY <1>5, <1>6, NothingSaid
<1>7. ASSUME NEW reply \in Seq(Loading), toClient' = toClient \o reply PROVE Said
  BY <1>5, <1>7, Silent
<1>8. ASSUME NEW reply \in Seq(Loading), toClient' = (toClient \o reply) \o server.held
      PROVE  Said
  <2>1. /\ reply \in Seq(ToClient) /\ FreeOf(reply, OnList(1) \cup ZoneChanges)
        /\ FreeOf(reply, OnList(Me)) /\ FreeOf(reply, Controls)
    BY Silent
  <2>2. /\ server.held \in Seq(ToClient) /\ FreeOf(server.held, OnList(1) \cup ZoneChanges)
        /\ FreeOf(server.held, OnList(Me)) /\ FreeOf(server.held, Controls)
    BY <1>2, Silent
  <2>3. /\ reply \o server.held \in Seq(ToClient)
        /\ FreeOf(reply \o server.held, OnList(1) \cup ZoneChanges)
        /\ FreeOf(reply \o server.held, OnList(Me)) /\ FreeOf(reply \o server.held, Controls)
    <3>1. \A M : FreeOf(reply, M) /\ FreeOf(server.held, M) => FreeOf(reply \o server.held, M)
      BY <2>1, <2>2, FreeConcat
    <3>2. reply \o server.held \in Seq(ToClient)
      BY <2>1, <2>2, ConcatIs
    <3>3. QED
      BY <2>1, <2>2, <3>1, <3>2
  <2>4. toClient' = toClient \o (reply \o server.held)
    <3>1. (toClient \o reply) \o server.held = toClient \o (reply \o server.held)
      <4>1. reply \in Seq(ToClient) /\ server.held \in Seq(ToClient) /\ toClient \in Seq(ToClient)
        BY <1>2, <2>1, <2>2
      <4>2. \A q, r, s \in Seq(ToClient) : (q \o r) \o s = q \o (r \o s)
        BY ConcatTwice
      <4>3. QED
        BY <4>1, <4>2, Zenon
    <3>2. QED
      BY <1>8, <3>1
  <2>5. QED
    BY <1>5, <2>3, <2>4
<1>9. QED
  BY <1>1, <1>6, <1>7, <1>8 DEF LoadServed

LEMMA ServerStepSaid ==
    ASSUME TypeOK, ServerStep
    PROVE  Said
<1>1. CASE ServerLoad
  BY <1>1, LoadSaid
<1> DEFINE success == [type |-> "LoginSuccess"]
<1>2. CASE ServerLogin
  <2> DEFINE words == <<Join(Me, User, Start), Text("logged in", User), success, Control("player")>>
  <2>1. toServer # <<>> /\ Head(toServer).user = User
    BY <1>2, Asking DEF ServerLogin, Asked
  <2>2. \/ Answer(server, <<success>>)
        \/ Answer(server, <<>>)
        \/ Refuse([server EXCEPT !.refused = @ \cup {User}], Warning("missing", "login"))
        \/ Refuse(server, Warning("inuse", "login"))
        \/ Answer(EnterWorld(server, User), words)
    BY <1>2, <2>1 DEF ServerLogin
  <2>3. CASE Answer(server, <<success>>)
    <3>1. success \in ToClient /\ success.type = "LoginSuccess"
      BY Sendable
    <3> HIDE DEF success
    <3>2. QED
      BY <2>3, <3>1, OtherWord, EmptyAnswer
  <2>4. CASE Answer(server, <<>>)
    BY <2>4, NothingSaid, EmptyAnswer
  <2>5. Warning("missing", "login") \in Warnings /\ Warning("inuse", "login") \in Warnings
    BY Sendable
  <2>6. CASE \/ Refuse([server EXCEPT !.refused = @ \cup {User}], Warning("missing", "login"))
             \/ Refuse(server, Warning("inuse", "login"))
    BY <2>5, <2>6, RefuseSaid
  <2>7. CASE Answer(EnterWorld(server, User), words)
    <3>1. /\ words \in Seq(ToClient) /\ LastIn(words, OnList(Me), Shows(Me, User))
          /\ FreeOf(words, OnList(1) \cup ZoneChanges) /\ LastIn(words, Controls, {Control("player")})
      BY EnterQueues
    <3> HIDE DEF words
    <3>2. QED
      BY <2>7, <3>1, EnterSaid
  <2>8. QED
    BY <2>2, <2>3, <2>4, <2>6, <2>7
<1>3. CASE ServerRegister
  <2> DEFINE words == <<Join(Me, User, Start), Text("created", User), Control("player")>>
  <2> DEFINE overwrite == [type |-> "ConfirmOverwrite"]
  <2> DEFINE refusal == Warning("other", "newCharacter")
  <2>1. toServer # <<>> /\ Head(toServer).user = User
    BY <1>3, Asking DEF ServerRegister, Asked
  <2>2. \/ Answer(server, <<overwrite>>)
        \/ Answer(server, <<refusal>>)
        \/ Answer(EnterWorld([server EXCEPT !.accounts = @ \cup {User}], User), words)
    BY <1>3, <2>1 DEF ServerRegister
  <2>3. /\ overwrite \in ToClient /\ overwrite.type = "ConfirmOverwrite"
        /\ refusal \in ToClient /\ refusal.type = "WarningBox"
    BY Sendable DEF Warning
  <2>4. /\ words \in Seq(ToClient) /\ LastIn(words, OnList(Me), Shows(Me, User))
        /\ FreeOf(words, OnList(1) \cup ZoneChanges) /\ LastIn(words, Controls, {Control("player")})
    BY EnterQueues
  <2> HIDE DEF words, overwrite, refusal
  <2>5. CASE Answer(server, <<overwrite>>)
    BY <2>3, <2>5, OtherWord, EmptyAnswer
  <2>6. CASE Answer(server, <<refusal>>)
    BY <2>3, <2>6, OtherWord, EmptyAnswer
  <2>7. CASE Answer(EnterWorld([server EXCEPT !.accounts = @ \cup {User}], User), words)
    BY <2>4, <2>7, EnterSaid
  <2>8. QED
    BY <2>2, <2>5, <2>6, <2>7
<1>4. CASE ServerLogout
  <2> DEFINE j == Join(Me, LoggedOut, Start)
  <2> DEFINE d == Control("camera")
  <2> DEFINE M == OnList(1) \cup ZoneChanges
  <2>1. \/ Answer(server, <<>>)
        \/ Answer([server EXCEPT !.session[Me] = LoggedOut, !.control = "camera"], <<j, d>>)
    BY <1>4 DEF ServerLogout
  <2>2. CASE Answer(server, <<>>)
    BY <2>2, NothingSaid, EmptyAnswer
  <2>3. CASE Answer([server EXCEPT !.session[Me] = LoggedOut, !.control = "camera"], <<j, d>>)
    <3>1. /\ server'.synced = server.synced /\ server'.zone = server.zone
          /\ server'.session[1] = server.session[1] /\ server'.used[1] = server.used[1]
          /\ server'.session[Me] = LoggedOut /\ server'.control = "camera"
      BY <2>3, Two DEF Answer, TypeOK, ServerState
    <3>2. UNCHANGED <<client, players, misread>> /\ toClient' = toClient \o <<j, d>>
      BY <2>3 DEF Answer
    <3>3. j \in Joins /\ j \in ToClient /\ d \in Controls /\ d \in ToClient /\ d.type = "Control"
      BY HereIs, Sendable DEF Control
    <3>4. LoggedOut # Absent
      BY SessionAssumption
    <3>5. j \in OnList(Me) /\ j \in Shows(Me, LoggedOut) /\ j \notin M
      BY <3>3, <3>4, Two, Families DEF OnList, Shows, Join
    <3>6. d \notin OnList(Me) /\ d \notin M
      BY <3>3, Families
    <3>7. <<j, d>> \in Seq(ToClient)
      BY Spoken
    <3> HIDE DEF j, d, M
    <3>8. LastIn(<<j, d>>, OnList(Me), Shows(Me, LoggedOut)) /\ FreeOf(<<j, d>>, M)
      BY <3>5, <3>6, Short, ShortLast
    <3>9. LastIn(<<j, d>>, Controls, {d})
      BY <3>3, ShortLast
    <3>10. QED
      BY <3>1, <3>2, <3>7, <3>8, <3>9, OwnSaid DEF ControlSaid, M, d
  <2>4. QED
    BY <2>1, <2>2, <2>3
<1>5. CASE ServerDropsCamera
  <2>1. Answer(server, <<>>) \/ Answer([server EXCEPT !.control = "camera"], <<Control("camera")>>)
    BY <1>5 DEF ServerDropsCamera
  <2>2. CASE Answer(server, <<>>)
    BY <2>2, NothingSaid, EmptyAnswer
  <2>3. CASE Answer([server EXCEPT !.control = "camera"], <<Control("camera")>>)
    <3>1. /\ server'.synced = server.synced /\ server'.zone = server.zone
          /\ server'.session = server.session /\ server'.used = server.used
          /\ server'.control = "camera"
      BY <2>3 DEF Answer, TypeOK, ServerState
    <3>2. UNCHANGED <<client, players, misread>> /\ toClient' = toClient \o <<Control("camera")>>
      BY <2>3 DEF Answer
    <3>3. QED
      BY <3>1, <3>2, ControlWord, OwnSaid DEF ControlSaid
  <2>4. QED
    BY <2>1, <2>2, <2>3
<1>6. QED
  BY <1>1, <1>2, <1>3, <1>4, <1>5 DEF ServerStep

LEMMA ContinuedSaid ==
    ASSUME TypeOK, StartNextMission
    PROVE  Said
<1>1. Continued
  BY NextMissionIs
<1>2. PICK s \in Seq(Loading) : toClient' = toClient \o s
  BY <1>1 DEF Continued
<1>3. UNCHANGED <<client, players, misread, server>>
  BY <1>1 DEF Continued
<1>4. QED
  BY <1>2, <1>3, Silent, SilentSaid

\* While the roster was not sent, a step that says nothing of anyone.
LEMMA UnsyncedQuiet ==
    ASSUME TypeOK, NEW s \in Seq(ToClient), toClient' = toClient \o s,
           UNCHANGED <<client, players, misread>>, ~server.synced, ~server'.synced,
           FreeOf(s, OnList(1) \cup ZoneChanges), FreeOf(s, Controls),
           server'.control = server.control
    PROVE  Said
<1>1. FreeOf(s, Drops)
  BY DEF FreeOf, OnList, Drops
<1>2. HistorySaid(s)
  BY <1>1 DEF HistorySaid, FreeOf
<1>3. QED
  BY <1>2 DEF Said, ControlSaid, ListSaid, ZoneSaid, UnsyncedSaid

LEMMA RespawnSaid ==
    ASSUME TypeOK, Respawn
    PROVE  Said
<1>1. Tells([server EXCEPT !.control = "player"], budget - 1, <<Control("player")>>)
  BY DEF Respawn
<1>2. /\ server'.synced = server.synced /\ server'.zone = server.zone
      /\ server'.session = server.session /\ server'.used = server.used
      /\ server'.control = "player"
  BY <1>1 DEF Tells, TypeOK, ServerState
<1>3. UNCHANGED <<client, players, misread>> /\ toClient' = toClient \o <<Control("player")>>
  BY <1>1 DEF Tells
<1>4. QED
  BY <1>2, <1>3, ControlWord, OwnSaid DEF ControlSaid

LEMMA LeaveSaid ==
    ASSUME TypeOK, OtherLeaves
    PROVE  Said
<1> DEFINE m == [type |-> "Drop", id |-> 1, used |-> server.used[1]]
<1>1. Tells([server EXCEPT !.session[1] = Absent, !.used[1] = {}], budget, Broadcast(m))
  BY DEF OtherLeaves
<1>2. server \in ServerState
  BY DEF TypeOK
<1>3. /\ server'.synced = server.synced /\ server'.zone = server.zone
      /\ server'.session[Me] = server.session[Me] /\ server'.session[1] = Absent
      /\ server'.used[1] = {} /\ server'.control = server.control
  BY <1>1, <1>2, Two DEF Tells, ServerState
<1>4. UNCHANGED <<client, players, misread>> /\ toClient' = toClient \o Broadcast(m)
  BY <1>1 DEF Tells
<1>5. server.used[1] \in SUBSET Names
  BY <1>2, Two DEF ServerState
<1>6. m \in ToClient /\ m \in Drops /\ m.type = "Drop" /\ m.id = 1 /\ m.used = server.used[1]
  BY <1>5, Sendable DEF Drops
<1> HIDE DEF m
<1>7. CASE ~server.synced
  BY <1>3, <1>4, <1>7, NothingSaid, UnsyncedQuiet DEF Broadcast
<1>8. CASE server.synced
  <2>1. toClient' = toClient \o <<m>> /\ <<m>> \in Seq(ToClient)
    BY <1>4, <1>6, <1>8, Tuples DEF Broadcast
  <2>2. m \in OnList(1) /\ m \in Shows(1, Absent)
    BY <1>6 DEF OnList, Shows
  <2>3. m \notin OnList(Me) /\ m \notin Placing /\ m \notin Controls
    <3>1. m \notin OnList(Me)
      BY <1>6, Two DEF OnList
    <3>2. QED
      BY <1>6, <3>1, Families
  <2>4. \A M : m \notin M => FreeOf(<<m>>, M)
    BY DEF FreeOf
  <2>5. LastIn(<<m>>, OnList(1), Shows(1, Absent))
    BY <2>2, ShortLast
  <2>6. ListSaid(<<m>>)
    BY <1>3, <1>8, <2>3, <2>4, <2>5 DEF ListSaid, Ids
  <2>7. ControlSaid(<<m>>) /\ ZoneSaid(<<m>>) /\ UnsyncedSaid(<<m>>)
    BY <1>3, <1>8, <2>3, <2>4 DEF ControlSaid, ZoneSaid, UnsyncedSaid
  <2>8. HistorySaid(<<m>>)
    <3>1. NamesNow = server.used[1]
      BY <1>8 DEF NamesNow
    <3>2. Used(<<m>>, NamesNow, 1) = server.used[1] /\ Used(<<m>>, NamesNow, 2) = {}
      BY <1>5, <1>6, <3>1, UsedOne
    <3>3. Len(<<m>>) = 1 /\ <<m>>[1] = m /\ 1 + 1 = 2 /\ 1 .. 1 = {1}
      OBVIOUS
    <3>4. QED
      BY <1>3, <1>6, <1>8, <3>2, <3>3 DEF HistorySaid
  <2>9. QED
    BY <1>4, <2>1, <2>6, <2>7, <2>8 DEF Said
<1>9. QED
  BY <1>7, <1>8

LEMMA TravelSaid ==
    ASSUME TypeOK, NEW z \in Zones, OtherTravels(z)
    PROVE  Said
<1> DEFINE m == [type |-> "Zone", id |-> 1, zone |-> z]
<1>1. Tells([server EXCEPT !.zone = z], budget - 1, Broadcast(m))
  BY DEF OtherTravels
<1>2. server \in ServerState
  BY DEF TypeOK
<1>3. /\ server'.synced = server.synced /\ server'.zone = z
      /\ server'.session = server.session /\ server'.used = server.used
      /\ server'.control = server.control
  BY <1>1, <1>2 DEF Tells, ServerState
<1>4. UNCHANGED <<client, players, misread>> /\ toClient' = toClient \o Broadcast(m)
  BY <1>1 DEF Tells
<1>5. m \in ToClient /\ m \in ZoneChanges /\ m.type = "Zone" /\ m.zone = z
  BY Sendable DEF ZoneChanges
<1> HIDE DEF m
<1>6. CASE ~server.synced
  BY <1>3, <1>4, <1>6, NothingSaid, UnsyncedQuiet DEF Broadcast
<1>7. CASE server.synced
  <2>1. toClient' = toClient \o <<m>> /\ <<m>> \in Seq(ToClient)
    BY <1>4, <1>5, <1>7, Tuples DEF Broadcast
  <2>2. m \in Placing /\ m \in At(z)
    BY <1>5 DEF Placing, At
  <2>3. (\A i : m \notin OnList(i)) /\ m \notin Controls /\ m \notin Drops /\ m \notin Joins
    BY <1>5, Families
  <2>4. \A M : m \notin M => FreeOf(<<m>>, M)
    BY DEF FreeOf
  <2>5. LastIn(<<m>>, Placing, At(z))
    BY <2>2, ShortLast
  <2>6. ListSaid(<<m>>)
    BY <1>3, <1>7, <2>3, <2>4 DEF ListSaid
  <2>7. ControlSaid(<<m>>) /\ ZoneSaid(<<m>>) /\ UnsyncedSaid(<<m>>)
    BY <1>3, <1>7, <2>3, <2>4, <2>5 DEF ControlSaid, ZoneSaid, UnsyncedSaid
  <2>8. HistorySaid(<<m>>)
    <3>1. NamesNow = server.used[1] /\ NamesNow \in SUBSET Names
      BY <1>2, <1>7, Two DEF NamesNow, ServerState
    <3>2. Used(<<m>>, NamesNow, 2) = NamesNow
      BY <2>3, <3>1, UsedOne
    <3>3. Len(<<m>>) = 1 /\ <<m>>[1] = m /\ 1 + 1 = 2 /\ 1 .. 1 = {1}
      OBVIOUS
    <3>4. QED
      BY <1>3, <2>3, <3>1, <3>2, <3>3 DEF HistorySaid
  <2>9. QED
    BY <1>4, <2>1, <2>6, <2>7, <2>8 DEF Said
<1>8. QED
  BY <1>6, <1>7

\* Client 1 joins under the name n in region z, having had the names of had.
Joining(s, n, z, had) ==
    /\ s \in Seq(ToClient)
    /\ LastIn(s, OnList(1), Shows(1, n)) /\ LastIn(s, Placing, At(z))
    /\ FreeOf(s, OnList(Me)) /\ FreeOf(s, Controls) /\ FreeOf(s, Drops)
    /\ Used(s, had, Len(s) + 1) = had \cup ({n} \cap Names)

LEMMA JoinWord ==
    ASSUME NEW n \in Name, NEW z \in Zones, NEW t \in Seq(ToClient), NEW had \in SUBSET Names,
           FreeOf(t, OnList(1)), FreeOf(t, ZoneChanges), FreeOf(t, OnList(Me)), FreeOf(t, Controls),
           NEW s, s = <<Join(1, n, z)>> \o t
    PROVE  Joining(s, n, z, had)
<1> DEFINE m == Join(1, n, z)
<1>1. m \in ToClient /\ m \in Joins /\ m.type = "Join" /\ m.id = 1 /\ m.name = n /\ m.zone = z
  BY Two, Sendable DEF Join
<1>2. n # Absent
  BY SessionAssumption DEF Name, Names
<1>0. s = <<m>> \o t
  OBVIOUS
<1> HIDE DEF m
<1>3. <<m>> \in Seq(ToClient)
  BY <1>1, Tuples
<1>4. m \in OnList(1) /\ m \in Shows(1, n) /\ m \in Placing /\ m \in At(z)
  BY <1>1, <1>2 DEF OnList, Shows, Placing, At
<1>5. m \notin OnList(Me) /\ m \notin Controls /\ m \notin Drops
  <2>1. m \notin OnList(Me)
    BY <1>1, Two DEF OnList
  <2>2. QED
    BY <1>1, <2>1, Families
<1>6. FreeOf(t, OnList(1)) /\ FreeOf(t, Placing) /\ FreeOf(t, Drops)
      /\ FreeOf(t, Drops \cup {j \in Joins : j.id = 1})
  <2>1. Placing \subseteq OnList(1) \cup ZoneChanges /\ Drops \subseteq OnList(1)
        /\ Drops \cup {j \in Joins : j.id = 1} \subseteq OnList(1)
    BY DEF Placing, OnList, Drops
  <2>2. QED
    BY <2>1 DEF FreeOf
<1>7. \A M : m \notin M => FreeOf(<<m>>, M)
  BY DEF FreeOf
<1>8. LastIn(<<m>>, OnList(1), Shows(1, n)) /\ LastIn(<<m>>, Placing, At(z))
  BY <1>4, ShortLast
<1>9. s \in Seq(ToClient) /\ Len(s) = 1 + Len(t) /\ Len(t) \in Nat /\ Len(<<m>>) = 1
  BY <1>0, <1>3, ConcatIs
<1>10. LastIn(s, OnList(1), Shows(1, n)) /\ LastIn(s, Placing, At(z))
  BY <1>0, <1>3, <1>6, <1>8, LastConcat
<1>11. FreeOf(s, OnList(Me)) /\ FreeOf(s, Controls) /\ FreeOf(s, Drops)
  <2>1. \A M : FreeOf(<<m>>, M) /\ FreeOf(t, M) => FreeOf(s, M)
    <3>1. \A q, r \in Seq(ToClient) : \A M : FreeOf(q, M) /\ FreeOf(r, M) => FreeOf(q \o r, M)
      BY FreeConcat
    <3>2. QED
      BY <1>0, <1>3, <3>1, Zenon
  <2>2. QED
    BY <1>5, <1>6, <1>7, <2>1
<1>12. Used(s, had, Len(s) + 1) = had \cup ({n} \cap Names)
  <2>1. Used(<<m>>, had, 2) = had \cup ({n} \cap Names)
    BY <1>1, UsedOne
  <2> DEFINE h == had \cup ({n} \cap Names)
  <2>2. Used(t, h, Len(t) + 1) = h
    <3>1. h \in SUBSET Names
      OBVIOUS
    <3> HIDE DEF h
    <3>2. QED
      BY <1>6, <3>1, UsedFree
  <2>3. Len(t) + 1 \in 1 .. Len(t) + 1
    BY <1>9
  <2>4. Used(s, had, Len(<<m>>) + (Len(t) + 1)) = Used(t, Used(<<m>>, had, Len(<<m>>) + 1), Len(t) + 1)
    <3>1. \A q, r \in Seq(ToClient) : \A j \in 1 .. Len(r) + 1 :
            Used(q \o r, had, Len(q) + j) = Used(r, Used(q, had, Len(q) + 1), j)
      BY UsedConcat
    <3>2. QED
      BY <1>0, <1>3, <2>3, <3>1, Zenon
  <2>5. Len(s) + 1 = Len(<<m>>) + (Len(t) + 1) /\ Len(<<m>>) + 1 = 2
    BY <1>9
  <2>6. QED
    BY <2>1, <2>2, <2>4, <2>5
<1>13. QED
  BY <1>9, <1>10, <1>11, <1>12 DEF Joining

LEMMA MoveSaid ==
    ASSUME TypeOK, NEW n \in Names \cup {LoggedOut}, OtherMoves(n)
    PROVE  Said
<1> DEFINE t == IF n \in Names THEN <<Text("logged in", n)>> ELSE <<>>
<1> DEFINE m == Join(1, n, server.zone)
<1>1. Tells([server EXCEPT !.session[1] = n, !.used[1] = @ \cup ({n} \cap Names)],
            budget - 1, Broadcast(m) \o t)
  BY DEF OtherMoves
<1>2. server \in ServerState
  BY DEF TypeOK
<1>3. /\ server'.synced = server.synced /\ server'.zone = server.zone
      /\ server'.session[Me] = server.session[Me] /\ server'.session[1] = n
      /\ server'.used[1] = server.used[1] \cup ({n} \cap Names)
      /\ server'.control = server.control
  BY <1>1, <1>2, Two DEF Tells, ServerState
<1>4. UNCHANGED <<client, players, misread>> /\ toClient' = toClient \o (Broadcast(m) \o t)
  BY <1>1 DEF Tells
<1>5. server.used[1] \in SUBSET Names /\ server.zone \in Zones /\ n \in Name
  BY <1>2, Two DEF ServerState, Name
<1>6. /\ t \in Seq(ToClient) /\ FreeOf(t, OnList(1) \cup ZoneChanges) /\ FreeOf(t, OnList(Me))
      /\ FreeOf(t, Controls)
  <2>1. CASE n \in Names
    <3>1. Text("logged in", n) \in ToClient
      BY <2>1, Sendable
    <3>2. Text("logged in", n).type = "Text"
      BY DEF Text
    <3>3. QED
      BY <2>1, <3>1, <3>2, OtherWord
  <2>2. CASE n \notin Names
    BY <2>2, NothingSaid
  <2>3. QED
    BY <2>1, <2>2
<1> HIDE DEF t
<1>7. CASE ~server.synced
  <2>1. Broadcast(m) \o t = t
    BY <1>6, <1>7 DEF Broadcast
  <2>2. QED
    BY <1>3, <1>4, <1>6, <1>7, <2>1, UnsyncedQuiet
<1>8. CASE server.synced
  <2> DEFINE s == <<m>> \o t
  <2>1. toClient' = toClient \o s
    BY <1>4, <1>8 DEF Broadcast
  <2>2. NamesNow = server.used[1]
    BY <1>8 DEF NamesNow
  <2>3. /\ s \in Seq(ToClient)
        /\ LastIn(s, OnList(1), Shows(1, n)) /\ LastIn(s, Placing, At(server.zone))
        /\ FreeOf(s, OnList(Me)) /\ FreeOf(s, Controls) /\ FreeOf(s, Drops)
        /\ Used(s, NamesNow, Len(s) + 1) = NamesNow \cup ({n} \cap Names)
    <3>1. s = <<m>> \o t /\ FreeOf(t, OnList(1)) /\ FreeOf(t, ZoneChanges)
      BY <1>6 DEF FreeOf
    <3> HIDE DEF s
    <3>2. Joining(s, n, server.zone, NamesNow)
      BY <1>5, <1>6, <2>2, <3>1, JoinWord
    <3>3. QED
      BY <3>2 DEF Joining
  <2> HIDE DEF s, m
  <2>4. ListSaid(s)
    BY <1>3, <1>8, <2>3 DEF ListSaid, Ids
  <2>5. ControlSaid(s) /\ ZoneSaid(s) /\ UnsyncedSaid(s)
    BY <1>3, <1>8, <2>3 DEF ControlSaid, ZoneSaid, UnsyncedSaid
  <2>6. HistorySaid(s)
    BY <1>3, <2>2, <2>3 DEF HistorySaid, FreeOf
  <2>7. QED
    BY <1>4, <2>1, <2>3, <2>4, <2>5, <2>6 DEF Said
<1>9. QED
  BY <1>7, <1>8

LEMMA SyncSaid ==
    ASSUME TypeOK, RosterSync
    PROVE  Said
<1> DEFINE n == server.session[1]
<1> DEFINE m == Join(Me, server.session[Me], Start)
<1> DEFINE t == IF n = Absent THEN <<>> ELSE <<Join(1, n, server.zone)>>
<1> DEFINE s == <<m>> \o t
<1>1. ~server.synced
      /\ Tells([server EXCEPT !.synced = TRUE, !.used[1] = {n} \cap Names], budget, s)
  BY DEF RosterSync
<1>2. server \in ServerState /\ server.session[Me] \in {User, LoggedOut}
  BY DEF TypeOK
<1>3. /\ server'.synced /\ server'.zone = server.zone /\ server'.session = server.session
      /\ server'.used[1] = {n} \cap Names /\ server'.control = server.control
  BY <1>1, <1>2, Two DEF Tells, ServerState
<1>4. UNCHANGED <<client, players, misread>> /\ toClient' = toClient \o s
  BY <1>1 DEF Tells
<1>5. m \in ToClient /\ m \in Joins /\ m.type = "Join" /\ m.id = Me
      /\ m.name = server.session[Me]
  BY <1>2, Two, HereIs, Sendable DEF Join
<1>6. server.session[Me] # Absent /\ n \in Name \cup {Absent} /\ server.zone \in Zones
  BY <1>2, Two, SessionAssumption DEF ServerState
<1>7. m \in OnList(Me) /\ m \in Shows(Me, server.session[Me])
  BY <1>5, <1>6 DEF OnList, Shows
<1>8. m \notin OnList(1) /\ m \notin Placing /\ m \notin Controls /\ m \notin Drops
      /\ ~(m \in Joins /\ m.id = 1)
  <2>1. m \notin OnList(1) /\ m.id # 1
    BY <1>5, Two DEF OnList
  <2>2. m \notin Placing
    BY <1>5, <2>1 DEF Placing, ZoneChanges
  <2>3. QED
    BY <1>5, <2>1, <2>2, Families
<1> HIDE DEF m
<1>9. <<m>> \in Seq(ToClient) /\ Len(<<m>>) = 1
  BY <1>5, Tuples
<1>10. \A M : m \notin M => FreeOf(<<m>>, M)
  BY DEF FreeOf
<1>11. LastIn(<<m>>, OnList(Me), Shows(Me, server.session[Me]))
  BY <1>7, ShortLast
<1>12. NamesNow = {}
  BY <1>1 DEF NamesNow
<1>13. ASSUME t \in Seq(ToClient), FreeOf(t, OnList(Me)), FreeOf(t, Controls), FreeOf(t, Drops),
              Used(t, {}, Len(t) + 1) = {n} \cap Names,
              LastIn(t, OnList(1), Shows(1, n)) \/ (FreeOf(t, OnList(1)) /\ n = Absent),
              LastIn(t, Placing, At(server.zone)) \/ FreeOf(t, Placing)
       PROVE  Said
  <2> HIDE DEF t
  <2>1. s \in Seq(ToClient) /\ Len(s) = 1 + Len(t) /\ Len(t) \in Nat
    BY <1>9, <1>13, ConcatIs
  <2>2. LastIn(s, OnList(Me), Shows(Me, server.session[Me]))
    BY <1>9, <1>11, <1>13, LastConcat
  <2>3. LastIn(s, OnList(1), Shows(1, n)) \/ (FreeOf(s, OnList(1)) /\ n = Absent)
    BY <1>8, <1>9, <1>10, <1>13, LastConcat, FreeConcat
  <2>4. LastIn(s, Placing, At(server.zone)) \/ FreeOf(s, Placing)
    BY <1>8, <1>9, <1>10, <1>13, LastConcat, FreeConcat
  <2>5. FreeOf(s, Controls) /\ FreeOf(s, Drops)
    BY <1>8, <1>9, <1>10, <1>13, FreeConcat
  <2>6. Used(s, {}, Len(s) + 1) = {n} \cap Names
    <3>1. \A q, r \in Seq(ToClient) : \A j \in 1 .. Len(r) + 1 :
            Used(q \o r, {}, Len(q) + j) = Used(r, Used(q, {}, Len(q) + 1), j)
      BY UsedConcat
    <3>2. Len(t) + 1 \in 1 .. Len(t) + 1
      BY <2>1
    <3>3. Used(s, {}, Len(<<m>>) + (Len(t) + 1)) = Used(t, Used(<<m>>, {}, Len(<<m>>) + 1), Len(t) + 1)
      BY <1>9, <1>13, <3>1, <3>2, Zenon
    <3>4. Used(<<m>>, {}, 2) = {}
      BY <1>8, UsedOne
    <3>5. Len(s) + 1 = Len(<<m>>) + (Len(t) + 1) /\ Len(<<m>>) + 1 = 2
      BY <1>9, <2>1
    <3>6. QED
      BY <1>13, <3>3, <3>4, <3>5
  <2> HIDE DEF s
  <2>7. ListSaid(s)
    BY <1>1, <1>3, <2>2, <2>3 DEF ListSaid, Ids
  <2>8. ControlSaid(s) /\ ZoneSaid(s) /\ UnsyncedSaid(s)
    BY <1>1, <1>3, <2>4, <2>5 DEF ControlSaid, ZoneSaid, UnsyncedSaid
  <2>9. HistorySaid(s)
    BY <1>3, <1>12, <2>5, <2>6 DEF HistorySaid, FreeOf
  <2>10. QED
    BY <1>4, <2>1, <2>7, <2>8, <2>9 DEF Said
<1>14. CASE n = Absent
  <2>1. t = <<>>
    BY <1>14
  <2>2. \A M : FreeOf(<<>>, M)
    BY DEF FreeOf
  <2>3. Used(<<>>, {}, Len(<<>>) + 1) = {}
    BY DEF Used
  <2>4. {n} \cap Names = {}
    BY <1>14, SessionAssumption DEF Names
  <2>5. <<>> \in Seq(ToClient)
    OBVIOUS
  <2>6. QED
    BY <1>13, <1>14, <2>1, <2>2, <2>3, <2>4, <2>5
<1>15. CASE n # Absent
  <2> DEFINE j == Join(1, n, server.zone)
  <2>1. t = <<j>> /\ n \in Name
    BY <1>6, <1>15
  <2>2. /\ FreeOf(<<>>, OnList(1) \cup ZoneChanges) /\ FreeOf(<<>>, OnList(Me))
        /\ FreeOf(<<>>, Controls) /\ <<>> \in Seq(ToClient) /\ {} \in SUBSET Names
    BY NothingSaid
  <2>3. j \in ToClient
    BY <1>6, <2>1, Two, Sendable
  <2> HIDE DEF j
  <2>4. <<j>> \o <<>> = <<j>>
    OBVIOUS
  <2>5. /\ LastIn(<<j>>, OnList(1), Shows(1, n)) /\ LastIn(<<j>>, Placing, At(server.zone))
        /\ FreeOf(<<j>>, OnList(Me)) /\ FreeOf(<<j>>, Controls) /\ FreeOf(<<j>>, Drops)
        /\ Used(<<j>>, {}, Len(<<j>>) + 1) = {} \cup ({n} \cap Names)
        /\ <<j>> \in Seq(ToClient)
    <3>1. FreeOf(<<>>, OnList(1)) /\ FreeOf(<<>>, ZoneChanges)
      BY DEF FreeOf
    <3>2. <<j>> = <<Join(1, n, server.zone)>> \o <<>>
      BY <2>4 DEF j
    <3>3. Joining(<<j>>, n, server.zone, {})
      BY <1>6, <2>1, <2>2, <3>1, <3>2, JoinWord
    <3>4. QED
      BY <3>3 DEF Joining
  <2>6. QED
    BY <1>13, <2>1, <2>5
<1>16. QED
  BY <1>14, <1>15

\* Whatever the server does, it tells the client what it must know of it.
LEMMA SaidIs ==
    ASSUME TypeOK, ServerStep \/ Told \/ StartNextMission
    PROVE  Said
  BY ServerStepSaid, RespawnSaid, LeaveSaid, TravelSaid, MoveSaid, SyncSaid, ContinuedSaid DEF Told

-----------------------------------------------------------------------------
(* The control object *)

\* The last word about the control object is the server's present one; and if our
\* player needs to be left, a message that changes that is on its way.
CameraInv ==
    /\ \/ LastIn(toClient, Controls, {Control(server.control)})
       \/ FreeOf(toClient, Controls) /\ client.control = server.control
    /\ Needs(client) => Leaving(toServer) \/ ~FreeOf(toClient, Controls)

LEMMA LeavingConcat ==
    ASSUME NEW S, NEW q \in Seq(S), NEW s \in Seq(S), Leaving(q) \/ Leaving(s)
    PROVE  Leaving(q \o s)
<1>1. ASSUME NEW k \in 1 .. Len(q), q[k] = DropCamera PROVE Leaving(q \o s)
  BY <1>1, ConcatIs DEF Leaving
<1>2. ASSUME NEW k \in 1 .. Len(s), s[k] = DropCamera PROVE Leaving(q \o s)
  <2>1. Len(q) + k \in 1 .. Len(q \o s) /\ (q \o s)[Len(q) + k] = s[k]
    BY ConcatIs
  <2>2. QED
    BY <1>2, <2>1 DEF Leaving
<1>3. QED
  BY <1>1, <1>2 DEF Leaving

LEMMA LeavingTail ==
    ASSUME NEW S, NEW q \in Seq(S), q # <<>>, Leaving(q), Head(q) # DropCamera
    PROVE  Leaving(Tail(q))
<1>1. PICK k \in 1 .. Len(q) : q[k] = DropCamera
  BY DEF Leaving
<1>2. k # 1
  BY <1>1, TailIs
<1>3. k - 1 \in 1 .. Len(Tail(q)) /\ Tail(q)[k - 1] = q[k]
  BY <1>2, TailIs
<1>4. QED
  BY <1>1, <1>3 DEF Leaving

\* Every request is taken by its own handler.
LEMMA ServerTakes ==
    ASSUME TypeOK, ServerStep
    PROVE  /\ toServer # <<>> /\ toServer' = Tail(toServer)
           /\ ServerDropsCamera \/ Head(toServer) # DropCamera
<1>1. CASE ServerLoad
  <2>1. Head(toServer).type \in LoadMessages
    BY <1>1 DEF ServerLoad, ServerLoads
  <2>2. DropCamera.type \notin LoadMessages
    BY DEF DropCamera, LoadMessages, Awaited
  <2>3. QED
    BY <1>1, <2>1, <2>2, ServerLoadIs DEF LoadServed
<1>2. CASE ServerLogin
  <2>1. toServer # <<>> /\ Head(toServer) # DropCamera
    <3>1. Asked("login")
      BY <1>2 DEF ServerLogin
    <3>2. QED
      BY <3>1 DEF Asked, DropCamera
  <2>2. \A s, w : Refuse(s, w) => toServer' = Tail(toServer)
    BY DEF Refuse, Answer
  <2>3. \A s, sent : Answer(s, sent) => toServer' = Tail(toServer)
    BY DEF Answer
  <2>4. toServer' = Tail(toServer)
    BY <1>2, <2>2, <2>3, Zenon DEF ServerLogin
  <2>5. QED
    BY <2>1, <2>4
<1>3. CASE ServerRegister
  BY <1>3 DEF ServerRegister, Asked, Answer, DropCamera
<1>4. CASE ServerLogout
  BY <1>4 DEF ServerLogout, Asked, Answer, DropCamera
<1>5. CASE ServerDropsCamera
  BY <1>5 DEF ServerDropsCamera, Asked, Answer
<1>6. QED
  BY <1>1, <1>2, <1>3, <1>4, <1>5 DEF ServerStep

LEMMA ReceiveCamera ==
    ASSUME TypeOK, CameraInv, Receive
    PROVE  CameraInv'
<1> DEFINE m == Head(toClient)
<1>1. toClient # <<>> /\ Received /\ toClient \in Seq(ToClient) /\ client \in ClientState
      /\ toServer \in Seq(ToServer)
  BY ReceiveIs DEF TypeOK
<1>2. toClient' = Tail(toClient) /\ server' = server /\ m \in ToClient
  BY <1>1, TailIs DEF Received
<1>3. PICK r : /\ Handler(r) /\ client' = r.client /\ toServer' = toServer \o r.sent
               /\ IF m.type = "Control" THEN r = Controlled(client, m.class) ELSE Keeps(client, r)
  BY <1>1 DEF Received
<1>4. r.sent \in Seq(ToServer)
  BY <1>3 DEF Handler
<1>5. LastIn(toClient, Controls, {Control(server.control)}) =>
        \/ LastIn(Tail(toClient), Controls, {Control(server.control)})
        \/ m \in Controls /\ m = Control(server.control) /\ FreeOf(Tail(toClient), Controls)
  BY <1>1, LastTail
<1>6. FreeOf(toClient, Controls) <=> m \notin Controls /\ FreeOf(Tail(toClient), Controls)
  BY <1>1, FreeTail
<1>7. CASE m.type = "Control"
  <2>1. m \in Controls /\ r = Controlled(client, m.class)
    BY <1>2, <1>3, <1>7, Kinds
  <2>2. client'.control = m.class
    BY <1>1, <1>3, <2>1 DEF Controlled, ClientState
  <2>3. m = Control(server.control) => m.class = server.control
    BY DEF Control
  <2>4. Needs(client') => Leaving(r.sent)
    <3>1. Leaving(<<DropCamera>>)
      BY DEF Leaving
    <3>2. QED
      BY <1>1, <1>3, <2>1, <3>1 DEF Controlled, ClientState, Needs
  <2>5. Needs(client') => Leaving(toServer')
    BY <1>1, <1>3, <1>4, <2>4, LeavingConcat
  <2>6. QED
    BY <1>2, <1>5, <1>6, <2>1, <2>2, <2>3, <2>5 DEF CameraInv
<1>8. CASE m.type # "Control"
  <2>1. m \notin Controls /\ Keeps(client, r)
    BY <1>2, <1>3, <1>8, Families
  <2>2. client'.control = client.control /\ (Needs(client') => Needs(client) \/ Leaving(r.sent))
    BY <1>3, <2>1 DEF Keeps
  <2>3. Leaving(toServer) \/ Leaving(r.sent) => Leaving(toServer')
    BY <1>1, <1>3, <1>4, LeavingConcat
  <2>4. QED
    BY <1>2, <1>5, <1>6, <2>1, <2>2, <2>3 DEF CameraInv
<1>9. QED
  BY <1>7, <1>8

LEMMA SaidCamera ==
    ASSUME TypeOK, CameraInv, ServerStep \/ Told \/ StartNextMission
    PROVE  CameraInv'
<1>1. Said
  BY SaidIs
<1>2. PICK s \in Seq(ToClient) : toClient' = toClient \o s /\ ControlSaid(s)
  BY <1>1 DEF Said
<1>3. client' = client /\ toClient \in Seq(ToClient) /\ toServer \in Seq(ToServer)
  BY <1>1 DEF Said, TypeOK
<1>4. /\ \A G : LastIn(s, Controls, G) => LastIn(toClient', Controls, G)
      /\ \A G : LastIn(toClient, Controls, G) /\ FreeOf(s, Controls) => LastIn(toClient', Controls, G)
  BY <1>2, <1>3, LastConcat
<1>5. FreeOf(toClient', Controls) <=> FreeOf(toClient, Controls) /\ FreeOf(s, Controls)
  BY <1>2, <1>3, FreeConcat
<1>6. \/ LastIn(toClient', Controls, {Control(server'.control)})
      \/ FreeOf(toClient', Controls) /\ client'.control = server'.control
  BY <1>2, <1>3, <1>4, <1>5 DEF CameraInv, ControlSaid
<1>7. ASSUME Needs(client') PROVE Leaving(toServer') \/ ~FreeOf(toClient', Controls)
  <2>1. CASE Told \/ StartNextMission
    <3>1. toServer' = toServer
      BY <2>1 DEF Told, RosterSync, OtherLeaves, Respawn, OtherMoves, OtherTravels, Tells,
                  StartNextMission, NextMission
    <3>2. QED
      BY <1>3, <1>5, <1>7, <3>1 DEF CameraInv
  <2>2. CASE ServerStep /\ Head(toServer) # DropCamera
    <3>1. Leaving(toServer) => Leaving(toServer')
      BY <1>3, <2>2, ServerTakes, LeavingTail
    <3>2. QED
      BY <1>3, <1>5, <1>7, <3>1 DEF CameraInv
  <2>3. CASE ServerDropsCamera
    <3>1. CASE server.control = "player"
      <4>1. toClient' = toClient \o <<Control("camera")>>
        BY <2>3, <3>1 DEF ServerDropsCamera, Answer
      <4>2. Control("camera") \in Controls /\ <<Control("camera")>> \in Seq(ToClient)
        BY Sendable, Spoken
      <4>3. ~FreeOf(<<Control("camera")>>, Controls)
        BY <4>2 DEF FreeOf
      <4>4. QED
        BY <1>3, <4>1, <4>2, <4>3, FreeConcat
    <3>2. CASE server.control # "player"
      <4>1. client.control = "player"
        BY <1>3, <1>7 DEF Needs
      <4>2. ~FreeOf(toClient, Controls)
        <5>1. ASSUME LastIn(toClient, Controls, {Control(server.control)})
              PROVE  ~FreeOf(toClient, Controls)
          BY <5>1 DEF LastIn, FreeOf
        <5>2. QED
          BY <3>2, <4>1, <5>1 DEF CameraInv
      <4>3. QED
        BY <1>5, <4>2
    <3>3. QED
      BY <3>1, <3>2
  <2>4. QED
    BY <2>1, <2>2, <2>3, ServerTakes
<1>8. QED
  BY <1>6, <1>7 DEF CameraInv

LEMMA StepCamera ==
    ASSUME TypeOK, CameraInv, [Next]_vars
    PROVE  CameraInv'
<1>1. CASE ClientStep
  <2>1. Acted /\ toServer \in Seq(ToServer)
    BY <1>1, ClientStepIs DEF TypeOK
  <2>2. Leaving(toServer) => Leaving(toServer')
    BY <2>1, LeavingConcat DEF Acted
  <2>3. QED
    BY <2>1, <2>2 DEF Acted, CameraInv
<1>2. CASE UNCHANGED vars
  BY <1>2 DEF vars, missionVars, CameraInv
<1>3. QED
  BY <1>1, <1>2, NextCases, ReceiveCamera, SaidCamera

\* Our player is never left standing as the control object, whatever the order of the
\* logins, respawns and answers: once everything has arrived, a logged-in client whose
\* control object is its player left it within the last 3 s (client.py 964-981).
THEOREM CameraKeptHolds == Spec => []CameraKept
<1>1. Init => CameraInv
  <2> SUFFICES ASSUME Init PROVE CameraInv
    OBVIOUS
  <2>1. Message("MissionStartPhase1", 1) \in Loading
    BY LoadTyped, MissionAssumption
  <2>2. toClient = <<Message("MissionStartPhase1", 1)>>
    BY DEF Init, MissionInit
  <2>3. toClient \in Seq(Loading)
    BY <2>1, <2>2, Tuples
  <2>4. FreeOf(toClient, Controls)
    BY <2>3, Silent
  <2>5. server.control = "none" /\ client.control = "none" /\ ~client.loggedIn
    BY DEF Init, FreshClient
  <2>6. QED
    BY <2>4, <2>5 DEF CameraInv, Needs
<1>2. TypeOK /\ CameraInv /\ [Next]_vars => CameraInv'
  BY StepCamera
<1>3. CameraInv => CameraKept
  <2> SUFFICES ASSUME CameraInv, Quiet PROVE ~Needs(client)
    BY DEF CameraKept, Needs
  <2>1. FreeOf(toClient, Controls) /\ ~Leaving(toServer)
    BY DEF Quiet, FreeOf, Leaving
  <2>2. QED
    BY <2>1 DEF CameraInv
<1>4. QED
  BY <1>1, <1>2, <1>3, Typing, PTL DEF Spec

-----------------------------------------------------------------------------
(* The roster *)

\* The entry e of a client whom the server knows as n.
Listed(e, n) == IF n = Absent THEN e = Absent ELSE e # Absent /\ e.name = n

\* The names an entry has had.
Had(e) == IF e = Absent THEN {} ELSE e.used

\* Of each client the last message on its way shows it as it is, or there is none and
\* the roster does; the same of the other client's region.
RosterInv ==
    /\ server.synced => \A i \in Ids :
         \/ LastIn(toClient, OnList(i), Shows(i, server.session[i]))
         \/ FreeOf(toClient, OnList(i)) /\ Listed(players[i], server.session[i])
    /\ server.synced =>
         \/ LastIn(toClient, Placing, At(server.zone))
         \/ FreeOf(toClient, Placing) /\ (players[1] # Absent => players[1].zone = server.zone)
    /\ ~server.synced => players[1] = Absent /\ FreeOf(toClient, OnList(1) \cup ZoneChanges)

\* What a message makes of an entry.
LEMMA RosterStep ==
    ASSUME NEW roster \in [Ids -> Entries \cup {Absent}], NEW m \in ToClient
    PROVE  LET after == RosterAfter(roster, m)
           IN /\ \A i \in Ids : m \notin OnList(i) =>
                   /\ after[i] = Absent <=> roster[i] = Absent
                   /\ roster[i] # Absent => after[i].name = roster[i].name /\ after[i].used = roster[i].used
              /\ \A i \in Ids : \A n : m \in Shows(i, n) => Listed(after[i], n)
              /\ m \notin Placing /\ after[1] # Absent => roster[1] # Absent /\ after[1].zone = roster[1].zone
              /\ m \in Placing /\ after[1] # Absent => after[1].zone = m.zone
              /\ m \in Drops => after[1] = Absent
              /\ m \in Joins /\ m.id = 1 => after[1] # Absent
                                            /\ after[1].used = Had(roster[1]) \cup ({m.name} \cap Names)
<1> DEFINE after == RosterAfter(roster, m)
<1>1. Absent \notin Entries
  BY SessionAssumption DEF Entries, Name, Names
<1>2. DOMAIN roster = Ids /\ \A i \in Ids : roster[i] # Absent => roster[i] \in Entries
  OBVIOUS
<1>3. CASE m.type = "Join"
  <2>1. m \in Joins /\ m.id \in Ids /\ m.name \in Name /\ m.zone \in Zones
    BY <1>3, Kinds DEF Joins
  <2>2. m \in OnList(m.id) /\ m \notin Drops /\ (m \in Placing <=> m.id = 1)
    BY <1>3, <2>1, Families DEF OnList, Placing, ZoneChanges
  <2> DEFINE e == Entry(m.name, m.zone, Had(roster[m.id]) \cup ({m.name} \cap Names))
  <2>3. after = [roster EXCEPT ![m.id] = e]
    BY <1>3 DEF RosterAfter, Joined, Had
  <2>4. Had(roster[m.id]) \in SUBSET Names
    BY <1>2, <2>1 DEF Had, Entries
  <2>5. e \in Entries /\ e.name = m.name /\ e.zone = m.zone
        /\ e.used = Had(roster[m.id]) \cup ({m.name} \cap Names)
    BY <2>1, <2>4 DEF Entry, Entries
  <2>6. e # Absent /\ m.name # Absent
    BY <1>1, <2>1, <2>5, SessionAssumption DEF Name, Names
  <2> HIDE DEF e
  <2>7. \A i \in Ids : after[i] = IF i = m.id THEN e ELSE roster[i]
    BY <1>2, <2>3
  <2> HIDE DEF after
  <2>8. \A i \in Ids : m \notin OnList(i) => i # m.id
    BY <2>2
  <2>9. \A i \in Ids : \A n : m \in Shows(i, n) => i = m.id /\ n = m.name
    BY <1>3 DEF Shows, OnList
  <2>10. \A i \in Ids : \A n : m \in Shows(i, n) => Listed(after[i], n)
    BY <2>5, <2>6, <2>7, <2>9 DEF Listed
  <2>11. QED
    BY <2>1, <2>2, <2>5, <2>6, <2>7, <2>8, <2>10, Two DEF after
<1>4. CASE m.type = "Drop"
  <2>1. m \in Drops /\ m.id = 1 /\ m \in OnList(1) /\ m \notin Joins /\ m \notin Placing
    BY <1>4, Kinds, Families DEF Drops, OnList
  <2>2. after = [roster EXCEPT ![1] = Absent]
    BY <1>4, <2>1 DEF RosterAfter, Dropped
  <2>3. \A i \in Ids : after[i] = IF i = 1 THEN Absent ELSE roster[i]
    BY <1>2, <2>2
  <2> HIDE DEF after
  <2>4. \A i \in Ids : m \notin OnList(i) => i # 1
    BY <2>1
  <2>5. \A i \in Ids : \A n : m \in Shows(i, n) => i = 1 /\ n = Absent
    BY <1>4, <2>1 DEF Shows, OnList
  <2>6. QED
    BY <2>1, <2>3, <2>4, <2>5, Two DEF after, Listed
<1>5. CASE m.type = "Zone"
  <2>1. m \in ZoneChanges /\ m.id = 1 /\ m.zone \in Zones /\ m \in Placing
    BY <1>5, Kinds DEF ZoneChanges, Placing
  <2>2. m \notin Joins /\ m \notin Drops /\ \A i : m \notin OnList(i)
    BY <1>5, Families
  <2>3. \A i, n : m \notin Shows(i, n)
    BY <2>2 DEF Shows
  <2>4. CASE roster[1] = Absent
    <3>1. after = roster
      BY <1>5, <2>1, <2>4 DEF RosterAfter, Moved
    <3>2. QED
      BY <2>1, <2>2, <2>3, <2>4, <3>1
  <2>5. CASE roster[1] # Absent
    <3> DEFINE e == [roster[1] EXCEPT !.zone = m.zone]
    <3>1. after = [roster EXCEPT ![1] = e]
      BY <1>5, <2>1, <2>5 DEF RosterAfter, Moved
    <3>2. /\ e \in Entries /\ e.zone = m.zone /\ e.name = roster[1].name
          /\ e.used = roster[1].used
      BY <1>2, <2>1, <2>5, Two DEF Entries
    <3>3. e # Absent
      BY <1>1, <3>2
    <3> HIDE DEF e
    <3>4. \A i \in Ids : after[i] = IF i = 1 THEN e ELSE roster[i]
      BY <1>2, <3>1
    <3> HIDE DEF after
    <3>5. QED
      BY <2>1, <2>2, <2>3, <2>5, <3>2, <3>3, <3>4, Two DEF after
  <2>6. QED
    BY <2>4, <2>5
<1>6. CASE m.type \notin {"Join", "Drop", "Zone"}
  <2>1. m \notin Joins /\ m \notin Drops /\ m \notin Placing /\ \A i : m \notin OnList(i)
    BY <1>6, Families
  <2>2. \A i, n : m \notin Shows(i, n)
    BY <2>1 DEF Shows
  <2>3. after = roster
    BY <1>6 DEF RosterAfter
  <2>4. QED
    BY <2>1, <2>2, <2>3
<1>7. QED
  BY <1>3, <1>4, <1>5, <1>6

LEMMA ReceiveRoster ==
    ASSUME TypeOK, RosterInv, Receive
    PROVE  RosterInv'
<1> DEFINE m == Head(toClient)
<1>1. toClient # <<>> /\ Received /\ toClient \in Seq(ToClient)
      /\ players \in [Ids -> Entries \cup {Absent}]
  BY ReceiveIs DEF TypeOK
<1>2. toClient' = Tail(toClient) /\ server' = server /\ m \in ToClient
      /\ players' = RosterAfter(players, m)
  BY <1>1, TailIs DEF Received
<1>3. \A M, G : LastIn(toClient, M, G) =>
        LastIn(Tail(toClient), M, G) \/ (m \in M /\ m \in G /\ FreeOf(Tail(toClient), M))
  BY <1>1, LastTail
<1>4. \A M : FreeOf(toClient, M) <=> m \notin M /\ FreeOf(Tail(toClient), M)
  BY <1>1, FreeTail
<1>5. /\ \A i \in Ids : m \notin OnList(i) =>
           /\ players'[i] = Absent <=> players[i] = Absent
           /\ players[i] # Absent => players'[i].name = players[i].name
      /\ \A i \in Ids : \A n : m \in Shows(i, n) => Listed(players'[i], n)
      /\ m \notin Placing /\ players'[1] # Absent =>
           players[1] # Absent /\ players'[1].zone = players[1].zone
      /\ m \in Placing /\ players'[1] # Absent => players'[1].zone = m.zone
  BY <1>1, <1>2, RosterStep
<1>6. ASSUME server.synced, NEW i \in Ids
      PROVE  \/ LastIn(toClient', OnList(i), Shows(i, server.session[i]))
             \/ FreeOf(toClient', OnList(i)) /\ Listed(players'[i], server.session[i])
  <2>1. CASE LastIn(toClient, OnList(i), Shows(i, server.session[i]))
    BY <1>2, <1>3, <1>5, <2>1
  <2>2. CASE FreeOf(toClient, OnList(i)) /\ Listed(players[i], server.session[i])
    <3>1. m \notin OnList(i) /\ FreeOf(toClient', OnList(i))
      BY <1>2, <1>4, <2>2
    <3>2. Listed(players'[i], server.session[i])
      BY <1>5, <2>2, <3>1 DEF Listed
    <3>3. QED
      BY <3>1, <3>2
  <2>3. QED
    BY <1>6, <2>1, <2>2 DEF RosterInv
<1>7. ASSUME server.synced
      PROVE  \/ LastIn(toClient', Placing, At(server.zone))
             \/ FreeOf(toClient', Placing) /\ (players'[1] # Absent => players'[1].zone = server.zone)
  <2>1. CASE LastIn(toClient, Placing, At(server.zone))
    <3>1. m \in At(server.zone) => m.zone = server.zone
      BY DEF At
    <3>2. QED
      BY <1>2, <1>3, <1>5, <2>1, <3>1
  <2>2. CASE /\ FreeOf(toClient, Placing)
             /\ players[1] # Absent => players[1].zone = server.zone
    BY <1>2, <1>4, <1>5, <2>2
  <2>3. QED
    BY <1>7, <2>1, <2>2 DEF RosterInv
<1>8. ASSUME ~server.synced
      PROVE  players'[1] = Absent /\ FreeOf(toClient', OnList(1) \cup ZoneChanges)
  <2>1. players[1] = Absent /\ FreeOf(toClient, OnList(1) \cup ZoneChanges)
    BY <1>8 DEF RosterInv
  <2>2. m \notin OnList(1) \cup ZoneChanges /\ FreeOf(Tail(toClient), OnList(1) \cup ZoneChanges)
    BY <1>4, <2>1
  <2>3. QED
    BY <1>2, <1>5, <2>1, <2>2, Two
<1>9. QED
  BY <1>2, <1>6, <1>7, <1>8 DEF RosterInv

LEMMA SaidRoster ==
    ASSUME TypeOK, RosterInv, Said
    PROVE  RosterInv'
<1>1. PICK s \in Seq(ToClient) :
        toClient' = toClient \o s /\ ListSaid(s) /\ ZoneSaid(s) /\ UnsyncedSaid(s)
  BY DEF Said
<1>2. players' = players /\ toClient \in Seq(ToClient)
  BY DEF Said, TypeOK
<1>3. \A M, G : LastIn(toClient, M, G) /\ FreeOf(s, M) => LastIn(toClient', M, G)
  <2>1. \A q, r \in Seq(ToClient) : \A M, G :
          LastIn(q, M, G) /\ FreeOf(r, M) => LastIn(q \o r, M, G)
    BY LastConcat
  <2>2. QED
    BY <1>1, <1>2, <2>1, Zenon
<1>4. \A M, G : LastIn(s, M, G) => LastIn(toClient', M, G)
  <2>1. \A q, r \in Seq(ToClient) : \A M, G : LastIn(r, M, G) => LastIn(q \o r, M, G)
    BY LastConcat
  <2>2. QED
    BY <1>1, <1>2, <2>1, Zenon
<1>5. \A M : FreeOf(toClient', M) <=> FreeOf(toClient, M) /\ FreeOf(s, M)
  <2>1. \A q, r \in Seq(ToClient) : \A M : FreeOf(q \o r, M) <=> FreeOf(q, M) /\ FreeOf(r, M)
    BY FreeConcat
  <2>2. QED
    BY <1>1, <1>2, <2>1, Zenon
<1>6. ASSUME server'.synced, NEW i \in Ids
      PROVE  \/ LastIn(toClient', OnList(i), Shows(i, server'.session[i]))
             \/ FreeOf(toClient', OnList(i)) /\ Listed(players'[i], server'.session[i])
  <2>1. CASE LastIn(s, OnList(i), Shows(i, server'.session[i]))
    BY <1>4, <2>1
  <2>2. CASE FreeOf(s, OnList(i)) /\ server.synced /\ server'.session[i] = server.session[i]
    BY <1>2, <1>3, <1>5, <2>2 DEF RosterInv
  <2>3. CASE FreeOf(s, OnList(i)) /\ ~server.synced /\ i = 1 /\ server'.session[i] = Absent
    <3>1. players[1] = Absent /\ FreeOf(toClient, OnList(1))
      BY <2>3 DEF RosterInv, FreeOf
    <3>2. QED
      BY <1>2, <1>5, <2>3, <3>1 DEF Listed
  <2>4. QED
    BY <1>1, <1>6, <2>1, <2>2, <2>3 DEF ListSaid
<1>7. ASSUME server'.synced
      PROVE  \/ LastIn(toClient', Placing, At(server'.zone))
             \/ /\ FreeOf(toClient', Placing)
                /\ players'[1] # Absent => players'[1].zone = server'.zone
  <2>1. CASE LastIn(s, Placing, At(server'.zone))
    BY <1>4, <2>1
  <2>2. CASE FreeOf(s, Placing) /\ server.synced /\ server'.zone = server.zone
    BY <1>2, <1>3, <1>5, <2>2 DEF RosterInv
  <2>3. CASE FreeOf(s, Placing) /\ ~server.synced
    <3>1. players[1] = Absent /\ FreeOf(toClient, OnList(1) \cup ZoneChanges)
      BY <2>3 DEF RosterInv
    <3>2. Placing \subseteq OnList(1) \cup ZoneChanges
      BY DEF Placing, OnList
    <3>3. FreeOf(toClient, Placing)
      BY <3>1, <3>2 DEF FreeOf
    <3>4. QED
      BY <1>2, <1>5, <2>3, <3>1, <3>3
  <2>4. QED
    BY <1>1, <1>7, <2>1, <2>2, <2>3 DEF ZoneSaid
<1>8. ASSUME ~server'.synced
      PROVE  players'[1] = Absent /\ FreeOf(toClient', OnList(1) \cup ZoneChanges)
  BY <1>1, <1>2, <1>5, <1>8 DEF UnsyncedSaid, RosterInv
<1>9. QED
  BY <1>6, <1>7, <1>8 DEF RosterInv

LEMMA InitRoster ==
    ASSUME Init
    PROVE  /\ ~server.synced /\ players[1] = Absent
           /\ toClient \in Seq(Loading) /\ FreeOf(toClient, OnList(1) \cup ZoneChanges)
           /\ ~misread.history
<1>1. Message("MissionStartPhase1", 1) \in Loading
  BY LoadTyped, MissionAssumption
<1>2. toClient = <<Message("MissionStartPhase1", 1)>>
  BY DEF Init, MissionInit
<1>3. toClient \in Seq(Loading)
  BY <1>1, <1>2, Tuples
<1>4. ~server.synced /\ players[1] = Absent /\ ~misread.history
  BY Two DEF Init
<1>5. QED
  BY <1>3, <1>4, Silent

LEMMA StepRoster ==
    ASSUME TypeOK, RosterInv, [Next]_vars
    PROVE  RosterInv'
<1>1. CASE ClientStep
  <2>1. UNCHANGED <<toClient, players, server>>
    BY <1>1, ClientStepIs DEF Acted
  <2>2. QED
    BY <2>1 DEF RosterInv
<1>2. CASE UNCHANGED vars
  BY <1>2 DEF vars, missionVars, RosterInv
<1>3. QED
  BY <1>1, <1>2, NextCases, ReceiveRoster, SaidIs, SaidRoster

\* Once every message has arrived, the roster is the server's list of clients with
\* their names and regions, however joins, leaves, renames and moves follow each other
\* (playerlist.py 144-183).
THEOREM RosterAgreesHolds == Spec => []RosterAgrees
<1>1. Init => RosterInv
  BY InitRoster DEF RosterInv
<1>2. TypeOK /\ RosterInv /\ [Next]_vars => RosterInv'
  BY StepRoster
<1>3. RosterInv => RosterAgrees
  <2> SUFFICES ASSUME RosterInv, Settled PROVE
          /\ \A i \in Ids : Listed(players[i], server.session[i])
          /\ players[1] # Absent => players[1].zone = server.zone
    BY DEF RosterAgrees, Listed
  <2>1. \A M, G : ~LastIn(toClient, M, G)
    BY DEF Settled, Quiet, LastIn
  <2>2. QED
    BY <2>1 DEF RosterInv, Settled
<1>4. QED
  BY <1>1, <1>2, <1>3, Typing, PTL DEF Spec

-----------------------------------------------------------------------------
(* The names of a player who left *)

\* A Drop on its way names what the roster will have collected when it arrives, and so
\* do the server's books after the last message.
HistoryInv ==
    /\ ~misread.history
    /\ \A d \in 1 .. Len(toClient) :
         toClient[d] \in Drops => toClient[d].used = Used(toClient, Had(players[1]), d)
    /\ server.synced => server.used[1] = Used(toClient, Had(players[1]), Len(toClient) + 1)

LEMMA ReceiveHistory ==
    ASSUME TypeOK, HistoryInv, Receive
    PROVE  HistoryInv'
<1> DEFINE m == Head(toClient)
<1> DEFINE q == Tail(toClient)
<1> DEFINE had == Had(players[1])
<1>1. toClient # <<>> /\ Received /\ toClient \in Seq(ToClient)
      /\ players \in [Ids -> Entries \cup {Absent}]
  BY ReceiveIs DEF TypeOK
<1>2. toClient' = q /\ server' = server /\ players' = RosterAfter(players, m)
      /\ misread'.history = (misread.history \/ (m.type = "Drop" /\ DropReport(m) # m.used))
  BY <1>1 DEF Received
<1>3. /\ m \in ToClient /\ m = toClient[1] /\ q \in Seq(ToClient) /\ Len(toClient) = Len(q) + 1
      /\ Len(q) \in Nat /\ 1 \in 1 .. Len(toClient)
      /\ \A k \in 1 .. Len(q) : q[k] = toClient[k + 1] /\ k + 1 \in 1 .. Len(toClient)
  BY <1>1, TailIs
<1>4. toClient = <<m>> \o q /\ <<m>> \in Seq(ToClient) /\ Len(<<m>>) = 1
  BY <1>1, <1>3
<1>5. had \in SUBSET Names
  BY <1>1, Two DEF Had, Entries
<1>6. Had(players'[1]) = Used(<<m>>, had, 2)
  <2>1. CASE m \in Drops
    <3>1. players'[1] = Absent
      BY <1>1, <1>2, <1>3, <2>1, RosterStep
    <3> HIDE DEF m, had
    <3>2. Used(<<m>>, had, 2) = {}
      BY <1>3, <1>5, <2>1, UsedOne
    <3>3. QED
      BY <3>1, <3>2 DEF Had
  <2>2. CASE m \in Joins /\ m.id = 1
    <3>1. players'[1] # Absent /\ players'[1].used = had \cup ({m.name} \cap Names)
      BY <1>1, <1>2, <1>3, <2>2, RosterStep
    <3> HIDE DEF m, had
    <3>2. Used(<<m>>, had, 2) = had \cup ({m.name} \cap Names)
      BY <1>3, <1>5, <2>2, UsedOne
    <3>3. QED
      BY <3>1, <3>2 DEF Had
  <2>3. CASE m \notin Drops /\ ~(m \in Joins /\ m.id = 1)
    <3>1. m \notin OnList(1)
      BY <2>3 DEF OnList
    <3>2. /\ players'[1] = Absent <=> players[1] = Absent
          /\ players[1] # Absent => players'[1].used = players[1].used
      BY <1>1, <1>2, <1>3, <3>1, Two, RosterStep
    <3>3. QED
      BY <1>5, <2>3, <3>2, UsedOne DEF Had
  <2>4. QED
    BY <2>1, <2>2, <2>3
<1> HIDE DEF m, q, had
<1>7. \A j \in 1 .. Len(q) + 1 : Used(toClient, had, 1 + j) = Used(q, Had(players'[1]), j)
  <2>1. \A a, b \in Seq(ToClient) : \A j \in 1 .. Len(b) + 1 :
          Used(a \o b, had, Len(a) + j) = Used(b, Used(a, had, Len(a) + 1), j)
    BY UsedConcat
  <2>2. \A j \in 1 .. Len(q) + 1 :
          Used(<<m>> \o q, had, Len(<<m>>) + j) = Used(q, Used(<<m>>, had, Len(<<m>>) + 1), j)
    BY <1>3, <1>4, <2>1, Zenon
  <2>3. 1 + 1 = 2
    OBVIOUS
  <2>4. QED
    BY <1>4, <1>6, <2>2, <2>3
<1>8. ASSUME m.type = "Drop" PROVE DropReport(m) = m.used
  <2>1. m \in Drops /\ m.id = 1
    BY <1>3, <1>8, Kinds DEF Drops
  <2>2. m.used = Used(toClient, had, 1)
    BY <1>3, <2>1 DEF HistoryInv, had
  <2>3. Used(toClient, had, 1) = Used(<<m>>, had, 1)
    <3>1. \A a, b \in Seq(ToClient) : \A d \in 1 .. Len(a) + 1 : Used(a \o b, had, d) = Used(a, had, d)
      BY UsedPrefix
    <3>2. 1 \in 1 .. Len(<<m>>) + 1
      BY <1>4
    <3>3. QED
      BY <1>3, <1>4, <3>1, <3>2, ZenonT(30)
  <2>4. Used(<<m>>, had, 1) = had
    BY <1>3, <1>5, UsedOne
  <2>5. DropReport(m) = had
    BY <2>1 DEF DropReport, Had, had
  <2>6. QED
    BY <2>2, <2>3, <2>4, <2>5
<1>9. ~misread'.history
  BY <1>2, <1>8 DEF HistoryInv
<1>10. ASSUME NEW d \in 1 .. Len(q), q[d] \in Drops
       PROVE  q[d].used = Used(q, Had(players'[1]), d)
  <2>1. toClient[d + 1].used = Used(toClient, had, d + 1)
    BY <1>3, <1>10 DEF HistoryInv, had
  <2>2. d \in 1 .. Len(q) + 1 /\ d + 1 = 1 + d
    BY <1>3
  <2>3. QED
    BY <1>3, <1>7, <2>1, <2>2
<1>11. ASSUME server.synced
       PROVE  server.used[1] = Used(q, Had(players'[1]), Len(q) + 1)
  <2>1. server.used[1] = Used(toClient, had, Len(toClient) + 1)
    BY <1>11 DEF HistoryInv, had
  <2>2. Len(q) + 1 \in 1 .. Len(q) + 1 /\ Len(toClient) + 1 = 1 + (Len(q) + 1)
    BY <1>3
  <2>3. QED
    BY <1>7, <2>1, <2>2
<1>12. QED
  BY <1>2, <1>9, <1>10, <1>11 DEF HistoryInv

LEMMA SaidHistory ==
    ASSUME TypeOK, RosterInv, HistoryInv, Said
    PROVE  HistoryInv'
<1> DEFINE had == Had(players[1])
<1>1. PICK s \in Seq(ToClient) : toClient' = toClient \o s /\ HistorySaid(s)
  BY DEF Said
<1>2. UNCHANGED <<players, misread>> /\ toClient \in Seq(ToClient)
  BY DEF Said, TypeOK
<1>3. /\ Len(toClient') = Len(toClient) + Len(s) /\ Len(toClient) \in Nat /\ Len(s) \in Nat
      /\ \A k \in 1 .. Len(toClient) : toClient'[k] = toClient[k]
      /\ \A k \in 1 .. Len(toClient') :
           k \in 1 .. Len(toClient) \/ (k - Len(toClient) \in 1 .. Len(s) /\ toClient'[k] = s[k - Len(toClient)])
  BY <1>1, <1>2, ConcatIs
<1> HIDE DEF had
<1>4. \A d \in 1 .. Len(toClient) + 1 : Used(toClient', had, d) = Used(toClient, had, d)
  <2>1. \A a, b \in Seq(ToClient) : \A d \in 1 .. Len(a) + 1 : Used(a \o b, had, d) = Used(a, had, d)
    BY UsedPrefix
  <2>2. QED
    BY <1>1, <1>2, <2>1, Zenon
<1>5. \A j \in 1 .. Len(s) + 1 :
        Used(toClient', had, Len(toClient) + j) = Used(s, Used(toClient, had, Len(toClient) + 1), j)
  <2>1. \A a, b \in Seq(ToClient) : \A j \in 1 .. Len(b) + 1 :
          Used(a \o b, had, Len(a) + j) = Used(b, Used(a, had, Len(a) + 1), j)
    BY UsedConcat
  <2>2. QED
    BY <1>1, <1>2, <2>1, Zenon
<1>6. Used(toClient, had, Len(toClient) + 1) = NamesNow
  <2>1. CASE server.synced
    BY <2>1 DEF HistoryInv, NamesNow, had
  <2>2. CASE ~server.synced
    <3>1. had = {} /\ FreeOf(toClient, OnList(1))
      BY <2>2 DEF RosterInv, Had, had, FreeOf
    <3>2. Drops \cup {m \in Joins : m.id = 1} \subseteq OnList(1)
      BY DEF OnList, Drops
    <3>3. FreeOf(toClient, Drops \cup {m \in Joins : m.id = 1})
      BY <3>1, <3>2 DEF FreeOf
    <3>4. had \in SUBSET Names
      BY <3>1
    <3>5. QED
      BY <1>2, <2>2, <3>1, <3>3, <3>4, UsedFree DEF NamesNow
  <2>3. QED
    BY <2>1, <2>2
<1>7. ASSUME NEW d \in 1 .. Len(toClient'), toClient'[d] \in Drops
      PROVE  toClient'[d].used = Used(toClient', had, d)
  <2>1. CASE d \in 1 .. Len(toClient)
    <3>1. toClient[d].used = Used(toClient, had, d)
      BY <1>3, <1>7, <2>1 DEF HistoryInv, had
    <3>2. d \in 1 .. Len(toClient) + 1
      BY <1>3, <2>1
    <3>3. QED
      BY <1>3, <1>4, <2>1, <3>1, <3>2
  <2>2. CASE d \notin 1 .. Len(toClient)
    <3> DEFINE j == d - Len(toClient)
    <3>1. j \in 1 .. Len(s) /\ toClient'[d] = s[j] /\ j \in 1 .. Len(s) + 1 /\ d = Len(toClient) + j
      BY <1>3, <2>2
    <3> HIDE DEF j
    <3>2. s[j].used = Used(s, NamesNow, j)
      BY <1>1, <1>7, <3>1 DEF HistorySaid
    <3>3. QED
      BY <1>5, <1>6, <3>1, <3>2
  <2>3. QED
    BY <2>1, <2>2
<1>8. ASSUME server'.synced
      PROVE  server'.used[1] = Used(toClient', had, Len(toClient') + 1)
  <2>1. server'.used[1] = Used(s, NamesNow, Len(s) + 1)
    BY <1>1, <1>8 DEF HistorySaid
  <2>2. Len(s) + 1 \in 1 .. Len(s) + 1 /\ Len(toClient') + 1 = Len(toClient) + (Len(s) + 1)
    BY <1>3
  <2>3. QED
    BY <1>5, <1>6, <2>1, <2>2
<1>9. QED
  BY <1>2, <1>7, <1>8 DEF HistoryInv, had

LEMMA StepHistory ==
    ASSUME TypeOK, RosterInv, HistoryInv, [Next]_vars
    PROVE  HistoryInv'
<1>1. CASE ClientStep
  <2>1. UNCHANGED <<toClient, players, server, misread>>
    BY <1>1, ClientStepIs DEF Acted
  <2>2. QED
    BY <2>1 DEF HistoryInv
<1>2. CASE UNCHANGED vars
  BY <1>2 DEF vars, missionVars, HistoryInv
<1>3. QED
  BY <1>1, <1>2, NextCases, ReceiveHistory, SaidIs, SaidHistory

\* A player who leaves is reported with every name the client had since the roster was
\* sent, whatever else was under way, although the entry goes with the same message
\* (client.py 729-743).
THEOREM DropReportsHolds == Spec => []DropReports
<1>1. Init => RosterInv /\ HistoryInv
  <2> SUFFICES ASSUME Init PROVE RosterInv /\ HistoryInv
    OBVIOUS
  <2>1. FreeOf(toClient, Drops)
    BY InitRoster DEF FreeOf, OnList, Drops
  <2>2. QED
    BY <2>1, InitRoster DEF RosterInv, HistoryInv, FreeOf
<1>2. TypeOK /\ RosterInv /\ HistoryInv /\ [Next]_vars => RosterInv' /\ HistoryInv'
  BY StepRoster, StepHistory
<1>3. HistoryInv => DropReports
  BY DEF HistoryInv, DropReports
<1>4. QED
  BY <1>1, <1>2, <1>3, Typing, PTL DEF Spec

-----------------------------------------------------------------------------
(* The login *)

\* No second session and no commands in between (LoginTruth fails otherwise), and a
\* server that refuses a login once.
Undisturbed == QuietUser /\ ~SharedAccount /\ ~AnswersRelogin

Succeeded == [type |-> "LoginSuccess"]
Created == Text("created", User)
Logout == [type |-> "logout"]
Enrol == Register(User)

\* What tells the client that it is in the world.
Evidence == {Succeeded, Created, Text("logged in", User)}

\* What ends the wait for the answer to a registration without a login.
Resets == Warnings \cup {[type |-> "ConfirmOverwrite"]}

\* The only message m of q, if any, is its first.
First(q, m) == \A k \in 1 .. Len(q) : q[k] = m => k = 1

\* At most one message of q is one of M.
Once(q, M) == \A k, l \in 1 .. Len(q) : q[k] \in M /\ q[l] \in M => k = l

Creatable == User \notin server.accounts /\ ~server.refuses

Awaiting(c) == c.registerPending /\ c.registerName = User

\* The client is in the world exactly if it says so, or will be told, or has asked to
\* leave it.
Entered ==
    /\ client.loggedIn \/ ~FreeOf(toClient, Evidence) => server.session[Me] = User
    /\ server.session[Me] = User =>
         client.loggedIn \/ ~FreeOf(toServer, {Logout}) \/ ~FreeOf(toClient, {Succeeded, Created})
    /\ First(toServer, Logout)
    /\ ~FreeOf(toServer, {Logout}) => ~client.loggedIn /\ FreeOf(toClient, Evidence)

\* A registration that can succeed finds the client waiting for its answer, with nothing
\* on its way that would end the wait.
Registered ==
    Creatable /\ ~FreeOf(toServer, {Enrol}) =>
      /\ Awaiting(client) /\ server.held = <<>> /\ FreeOf(toClient, Resets)
      /\ First(toServer, Enrol) \/ User \in server.refused

\* Until the account exists, at most one refusal is on its way, and no registration with it.
Refused ==
    Creatable =>
      \/ server.held = <<>> /\ FreeOf(toClient, Resets)
      \/ /\ User \in server.refused /\ FreeOf(toServer, {Enrol})
         /\ \/ server.held = <<>> /\ Once(toClient, Resets)
            \/ Len(server.held) = 1 /\ FreeOf(toClient, Resets)

\* The news that the character was created finds the client waiting for it.
Replied ==
    \A k \in 1 .. Len(toClient) : toClient[k] = Created =>
      /\ User \in server.accounts /\ Awaiting(client)
      /\ \A l \in 1 .. k - 1 : toClient[l] \notin Resets \cup {Created}

LoginInv == Entered /\ Registered /\ Refused /\ Replied

LEMMA FirstTail ==
    ASSUME NEW S, NEW q \in Seq(S), q # <<>>, NEW m, First(q, m)
    PROVE  FreeOf(Tail(q), {m}) /\ First(Tail(q), m)
<1>1. FreeOf(Tail(q), {m})
  <2>1. ASSUME NEW k \in 1 .. Len(Tail(q)), Tail(q)[k] = m PROVE FALSE
    <3>1. k + 1 \in 1 .. Len(q) /\ q[k + 1] = m
      BY <2>1, TailIs
    <3>2. k + 1 = 1
      BY <3>1 DEF First
    <3>3. QED
      BY <3>2
  <2>2. QED
    BY <2>1 DEF FreeOf
<1>2. QED
  BY <1>1 DEF FreeOf, First

LEMMA FirstConcat ==
    ASSUME NEW S, NEW q \in Seq(S), NEW s \in Seq(S), NEW m, First(q, m), FreeOf(s, {m})
    PROVE  First(q \o s, m)
  BY ConcatIs DEF First, FreeOf

LEMMA OnceTail ==
    ASSUME NEW S, NEW q \in Seq(S), q # <<>>, NEW M, Once(q, M)
    PROVE  Once(Tail(q), M) /\ (Head(q) \in M => FreeOf(Tail(q), M))
<1>1. \A k \in 1 .. Len(Tail(q)) : Tail(q)[k] = q[k + 1] /\ k + 1 \in 1 .. Len(q)
  BY TailIs
<1>2. Once(Tail(q), M)
  <2>1. ASSUME NEW k \in 1 .. Len(Tail(q)), NEW l \in 1 .. Len(Tail(q)),
               Tail(q)[k] \in M, Tail(q)[l] \in M
        PROVE  k = l
    <3>1. k + 1 = l + 1
      BY <1>1, <2>1 DEF Once
    <3>2. QED
      BY <3>1
  <2>2. QED
    BY <2>1 DEF Once
<1>3. ASSUME Head(q) \in M, NEW k \in 1 .. Len(Tail(q)), Tail(q)[k] \in M PROVE FALSE
  <2>1. q[1] \in M /\ 1 \in 1 .. Len(q)
    BY <1>3, TailIs
  <2>2. k + 1 = 1
    BY <1>1, <1>3, <2>1 DEF Once
  <2>3. QED
    BY <2>2
<1>4. QED
  BY <1>2, <1>3 DEF FreeOf

LEMMA OnceConcat ==
    ASSUME NEW S, NEW q \in Seq(S), NEW s \in Seq(S), NEW M
    PROVE  /\ Once(q, M) /\ FreeOf(s, M) => Once(q \o s, M)
           /\ FreeOf(q, M) /\ Len(s) = 1 => Once(q \o s, M)
<1>1. ASSUME Once(q, M), FreeOf(s, M), NEW k \in 1 .. Len(q \o s), NEW l \in 1 .. Len(q \o s),
             (q \o s)[k] \in M, (q \o s)[l] \in M
      PROVE  k = l
  <2>1. \A i \in 1 .. Len(q \o s) : (q \o s)[i] \in M => i \in 1 .. Len(q) /\ q[i] \in M
    BY <1>1, ConcatIs DEF FreeOf
  <2>2. QED
    BY <1>1, <2>1 DEF Once
<1>2. ASSUME FreeOf(q, M), Len(s) = 1, NEW k \in 1 .. Len(q \o s), NEW l \in 1 .. Len(q \o s),
             (q \o s)[k] \in M, (q \o s)[l] \in M
      PROVE  k = l
  <2>1. \A i \in 1 .. Len(q \o s) : (q \o s)[i] \in M => i - Len(q) \in 1 .. Len(s)
    BY <1>2, ConcatIs DEF FreeOf
  <2>2. k - Len(q) = 1 /\ l - Len(q) = 1
    BY <1>2, <2>1
  <2>3. QED
    BY <2>2, ConcatIs
<1>3. QED
  BY <1>1, <1>2 DEF Once

\* What the client sends but for the two requests that matter here.
Plain(sent) == FreeOf(sent, {Logout}) /\ FreeOf(sent, {Enrol})

\* What the client knows of its login.
Same(c, d) ==
    /\ d.loggedIn = c.loggedIn /\ d.registerPending = c.registerPending
    /\ d.registerName = c.registerName

\* Message m makes d of client c, which sends s.
Heard(c, m, d, s) ==
    /\ c.loggedIn => d.loggedIn
    /\ d.loggedIn => c.loggedIn \/ m \in Evidence
    /\ m = Succeeded => d.loggedIn
    /\ m = Created /\ Awaiting(c) => d.loggedIn
    /\ Awaiting(c) /\ m \notin Resets \cup {Created} => Awaiting(d)
    /\ FreeOf(s, {Logout})
    /\ FreeOf(s, {Enrol}) \/ (m \in Resets /\ Awaiting(d))

LEMMA RequestKinds ==
    /\ Enrol.type = "newCharacter" /\ Logout.type = "logout" /\ Login(User).type = "login"
    /\ DropCamera.type = "dropCameraAtPlayer"
    /\ \A t, n : Message(t, n).type = t
    /\ Succeeded.type = "LoginSuccess" /\ \A t, n : Text(t, n).type = "Text"
    /\ Created.type = "Text"
  BY DEF Enrol, Register, Logout, Login, DropCamera, Message, Succeeded, Text, Created

LEMMA PlainWords ==
    /\ Plain(<<>>) /\ Plain(<<Login(User)>>) /\ Plain(<<DropCamera>>)
    /\ \A m : m.type \notin {"logout", "newCharacter"} => Plain(<<m>>)
    /\ FreeOf(<<Enrol>>, {Logout}) /\ FreeOf(<<Logout>>, {Enrol})
<1>1. \A m, x : m # x => FreeOf(<<m>>, {x})
  BY DEF FreeOf
<1>2. \A x : FreeOf(<<>>, {x})
  BY DEF FreeOf
<1>3. \A m : m.type \notin {"logout", "newCharacter"} => m # Logout /\ m # Enrol
  BY RequestKinds
<1>4. Enrol # Logout
  BY RequestKinds
<1>5. Login(User) # Logout /\ Login(User) # Enrol /\ DropCamera # Logout /\ DropCamera # Enrol
  BY RequestKinds
<1>6. QED
  BY <1>1, <1>2, <1>3, <1>4, <1>5 DEF Plain

LEMMA PlainConcat ==
    ASSUME NEW q \in Seq(ToServer), NEW s \in Seq(ToServer), Plain(q), Plain(s)
    PROVE  Plain(q \o s)
  BY FreeConcat DEF Plain

LEMMA SameHeard ==
    ASSUME NEW c, NEW d, NEW s, NEW m, Same(c, d), Plain(s), m # Succeeded, m # Created
    PROVE  Heard(c, m, d, s)
  BY DEF Same, Plain, Heard, Awaiting

LEMMA AutoLoginSame ==
    ASSUME NEW c \in ClientState, NEW roster
    PROVE  /\ Same(c, AutoLogin(c, roster).client) /\ Plain(AutoLogin(c, roster).sent)
           /\ Same(c, Retry(c, roster).client) /\ Plain(Retry(c, roster).sent)
<1>1. Same(c, AutoLogin(c, roster).client)
  BY DEF AutoLogin, Same, ClientState
<1>2. Plain(AutoLogin(c, roster).sent)
  BY PlainWords DEF AutoLogin
<1>3. Same(c, c) /\ Plain(<<>>)
  BY PlainWords DEF Same
<1>4. QED
  BY <1>1, <1>2, <1>3 DEF Retry

LEMMA ControlledSame ==
    ASSUME NEW c \in ClientState, NEW class
    PROVE  Same(c, Controlled(c, class).client) /\ Plain(Controlled(c, class).sent)
  BY PlainWords DEF Controlled, Same, ClientState

LEMMA MarkIs ==
    ASSUME NEW c \in ClientState
    PROVE  /\ MarkLoggedIn(c).client.loggedIn /\ Plain(MarkLoggedIn(c).sent)
           /\ MarkLoggedIn(c).client.registerPending = c.registerPending
           /\ MarkLoggedIn(c).client.registerName = c.registerName
  BY PlainWords DEF MarkLoggedIn, ClientState

\* The messages of the load: the client may send its login with its acknowledgement.
LEMMA LoadHeard ==
    ASSUME TypeOK, ReceiveLoad \/ ReceivePhase2 \/ ReceiveEnterInGame
    PROVE  \E s \in Seq(ToServer) :
             toServer' = toServer \o s /\ Heard(client, Head(toClient), client', s)
<1> DEFINE m == Head(toClient)
<1>1. /\ toClient # <<>>
      /\ m.type \in {"MissionStartPhase1", "MissionStartPhase2", "MissionStartPhase3",
                     "MissionStart", "StartLogin", "DataBlocksDone", "GhostAlwaysStarting",
                     "GhostAlwaysDone", "GhostAlwaysObject", "EndGhosting"}
  BY DEF ReceiveLoad, ReceivePhase2, ReceiveEnterInGame, ClientLoads, OnPhase1, OnPhase2,
         OnPhase3, OnEnterInGame, OnDataBlocksDone, OnGhostAlwaysStarting, OnGhostAlwaysDone,
         OnGhostAlwaysObject, OnEndGhosting, ConnectionMessage, Got
<1>2. m # Succeeded /\ m # Created
  BY <1>1, RequestKinds
<1>3. m \in ToClient
  BY <1>1, TailIs DEF TypeOK
<1>4. HeadSeq \in 0 .. Missions
  BY <1>1, <1>3, Kinds DEF Loading, HeadSeq
<1>5. client \in ClientState /\ phases \in PhasesState
  BY DEF TypeOK
<1>6. \A t \in {"Phase1Ack", "DownloadDone", "Phase2Ack", "Phase3Ack"} :
        <<Message(t, HeadSeq)>> \in Seq(ToServer) /\ Plain(<<Message(t, HeadSeq)>>)
  <2>1. \A t \in {"Phase1Ack", "DownloadDone", "Phase2Ack", "Phase3Ack"} :
          <<Message(t, HeadSeq)>> \in Seq(ToServer)
    BY <1>4, Requests
  <2>2. \A t \in {"Phase1Ack", "DownloadDone", "Phase2Ack", "Phase3Ack"} :
          Message(t, HeadSeq).type \notin {"logout", "newCharacter"}
    BY RequestKinds
  <2>3. QED
    BY <2>1, <2>2, PlainWords
<1>7. Ready \in Seq(ToServer) /\ Plain(Ready)
  <2>1. Ready \in Seq(ToServer)
    BY <1>5, Requests DEF Ready, PhasesState
  <2>2. QED
    BY <2>1, RequestKinds, PlainWords DEF Ready
<1>8. <<>> \in Seq(ToServer) /\ Plain(<<>>)
  BY PlainWords
<1>9. /\ AutoLogin(client, players).sent \in Seq(ToServer)
      /\ Same(client, AutoLogin(client, players).client)
      /\ Plain(AutoLogin(client, players).sent)
  BY <1>5, AutoLoginTyped, AutoLoginSame DEF Handler
<1>10. Same(client, client)
  BY DEF Same
<1>11. ASSUME NEW s \in Seq(ToServer), Plain(s), toServer' = toServer \o s, Same(client, client')
       PROVE  \E q \in Seq(ToServer) : toServer' = toServer \o q /\ Heard(client, m, client', q)
  BY <1>2, <1>11, SameHeard
<1>12. CASE ReceivePhase2
  <2> DEFINE ack == AckOnce(2, "Phase2Ack")
  <2> DEFINE a == LoadHook(~phases.eagerLoginDone)
  <2>1. ack \in Seq(ToServer) /\ Plain(ack)
    BY <1>6, <1>8 DEF AckOnce
  <2>2. a.sent \in Seq(ToServer) /\ Plain(a.sent) /\ Same(client, a.client)
    BY <1>8, <1>9, <1>10 DEF LoadHook
  <2>3. phases.eagerLoginDone \in BOOLEAN
    BY <1>5 DEF PhasesState
  <2>4. toServer' = toServer \o (ack \o a.sent) /\ client' = a.client
    BY <1>12, <2>3 DEF ReceivePhase2, OnPhase2, Handled, LoadHook
  <2> HIDE DEF a, ack
  <2>5. ack \o a.sent \in Seq(ToServer) /\ Plain(ack \o a.sent)
    BY <2>1, <2>2, ConcatIs, PlainConcat
  <2>6. QED
    BY <1>11, <2>2, <2>4, <2>5
<1>13. CASE ReceiveEnterInGame
  <2> DEFINE a == LoadHook(~InGame)
  <2>1. a.sent \in Seq(ToServer) /\ Plain(a.sent) /\ Same(client, a.client)
    BY <1>8, <1>9, <1>10 DEF LoadHook
  <2>2. toServer' = toServer \o a.sent /\ client' = a.client
    BY <1>13 DEF ReceiveEnterInGame, OnEnterInGame, Handled, LoadHook
  <2> HIDE DEF a
  <2>3. QED
    BY <1>11, <2>1, <2>2
<1>14. CASE ReceiveLoad
  <2>1. \E s \in Seq(ToServer) : Plain(s) /\ toServer' = toServer \o s
    <3>1. CASE OnPhase1 \/ OnPhase3 \/ OnDataBlocksDone
      BY <1>6, <1>8, <3>1 DEF OnPhase1, OnPhase3, OnDataBlocksDone, Handled, AckOnce
    <3>2. CASE OnGhostAlwaysStarting \/ OnGhostAlwaysObject \/ OnEndGhosting
      BY <1>8, <3>2 DEF OnGhostAlwaysStarting, OnGhostAlwaysObject, OnEndGhosting, Handled
    <3>3. CASE OnGhostAlwaysDone
      BY <1>7, <1>8, <3>3 DEF OnGhostAlwaysDone, Handled
    <3>4. QED
      BY <1>14, <3>1, <3>2, <3>3 DEF ReceiveLoad, ClientLoads
  <2>2. client' = client
    BY <1>14 DEF ReceiveLoad
  <2>3. QED
    BY <1>10, <1>11, <2>1, <2>2
<1>15. QED
  BY <1>12, <1>13, <1>14

LEMMA WarnedHeard ==
    ASSUME NEW c \in ClientState, NEW m \in Warnings, NEW text
    PROVE  Heard(c, m, Warned(c, text).client, Warned(c, text).sent)
<1> DEFINE r == Warned(c, text)
<1>1. m \in Resets /\ m # Succeeded /\ m # Created
  BY RequestKinds DEF Resets, Warnings
<1>2. r.client.loggedIn = c.loggedIn
  BY DEF Warned, Registering, ClientState
<1>3. Plain(r.sent) \/ (r.sent = <<Enrol>> /\ Awaiting(r.client))
  <2>1. (IF c.loginUser # Absent THEN c.loginUser ELSE User) = User
    BY DEF ClientState
  <2>2. Awaiting(Registering(c, User).client) /\ Registering(c, User).sent = <<Enrol>>
    BY DEF Registering, Awaiting, Enrol, ClientState
  <2>3. QED
    BY <2>1, <2>2, PlainWords DEF Warned
<1> HIDE DEF r
<1>4. FreeOf(r.sent, {Logout})
  BY <1>3, PlainWords DEF Plain
<1>5. FreeOf(r.sent, {Enrol}) \/ Awaiting(r.client)
  BY <1>3 DEF Plain
<1>6. Heard(c, m, r.client, r.sent)
  BY <1>1, <1>2, <1>4, <1>5 DEF Heard
<1>7. QED
  BY <1>6 DEF r

LEMMA TextHeard ==
    ASSUME NEW c \in ClientState, NEW m \in Texts
    PROVE  Heard(c, m, TextRead(c, m).client, TextRead(c, m).sent)
<1> DEFINE r == TextRead(c, m)
<1>1. m = Text(m.text, m.name) /\ m.text \in {"logged in", "created"} /\ m.name \in Names
  BY DEF Texts, Text
<1>2. m # Succeeded /\ m \notin Resets
  <2>1. m.type = "Text"
    BY DEF Texts
  <2>2. \A w \in Resets : w.type # "Text"
    BY DEF Resets, Warnings
  <2>3. QED
    BY <2>1, <2>2, RequestKinds
<1>3. Absent \notin Names /\ c.registerName \in {User, Absent} /\ c.loginUser \in {User, Absent}
  BY SessionAssumption DEF Names, ClientState
<1>4. m = Created => m.text = "created" /\ m.name = User
  BY DEF Created, Text
<1>5. CASE m.text = "created" /\ c.registerPending /\ c.registerName = m.name
  <2> DEFINE d == [c EXCEPT !.registerPending = FALSE]
  <2>1. m.name = User
    BY <1>1, <1>3, <1>5
  <2>2. m = Created
    BY <1>1, <1>5, <2>1 DEF Created
  <2>3. d \in ClientState
    BY DEF ClientState
  <2>4. r = MarkLoggedIn(d)
    BY <1>5 DEF TextRead
  <2> HIDE DEF d
  <2>5. r.client.loggedIn /\ Plain(r.sent)
    BY <2>3, <2>4, MarkIs
  <2> HIDE DEF r
  <2>6. Heard(c, m, r.client, r.sent)
    BY <2>2, <2>5 DEF Heard, Plain, Evidence
  <2>7. QED
    BY <2>6 DEF r
<1>6. CASE /\ ~(m.text = "created" /\ c.registerPending /\ c.registerName = m.name)
           /\ m.text = "logged in" /\ ~c.loggedIn /\ c.loginUser = m.name
  <2>1. m = Text("logged in", User) /\ m # Created
    BY <1>1, <1>3, <1>4, <1>6
  <2>2. r = MarkLoggedIn(c)
    BY <1>6 DEF TextRead
  <2>3. r.client.loggedIn /\ Plain(r.sent) /\ r.client.registerPending = c.registerPending
        /\ r.client.registerName = c.registerName
    BY <2>2, MarkIs
  <2> HIDE DEF r
  <2>4. Heard(c, m, r.client, r.sent)
    BY <2>1, <2>3 DEF Heard, Plain, Evidence, Awaiting
  <2>5. QED
    BY <2>4 DEF r
<1>7. CASE /\ ~(m.text = "created" /\ c.registerPending /\ c.registerName = m.name)
           /\ ~(m.text = "logged in" /\ ~c.loggedIn /\ c.loginUser = m.name)
  <2>1. r.client = c /\ r.sent = <<>>
    BY <1>7 DEF TextRead
  <2>2. ~(m = Created /\ Awaiting(c))
    BY <1>4, <1>7 DEF Awaiting
  <2>3. Plain(<<>>)
    BY PlainWords
  <2>4. Heard(c, m, c, <<>>)
    BY <1>2, <2>2, <2>3 DEF Heard, Plain
  <2>5. QED
    BY <2>1, <2>4
<1>8. QED
  BY <1>5, <1>6, <1>7

\* The session's own messages.
LEMMA SessionHeard ==
    ASSUME TypeOK,
           \/ ReceiveLoginSuccess \/ ReceiveWarningBox \/ ReceiveConfirmOverwrite
           \/ ReceiveServerMessage \/ ReceiveControl
    PROVE  \E s \in Seq(ToServer) :
             toServer' = toServer \o s /\ Heard(client, Head(toClient), client', s)
<1> DEFINE m == Head(toClient)
<1>1. toClient # <<>>
  BY DEF ReceiveLoginSuccess, ReceiveWarningBox, ReceiveConfirmOverwrite, ReceiveServerMessage,
         ReceiveControl, Got
<1>2. m \in ToClient /\ client \in ClientState
  BY <1>1, TailIs DEF TypeOK
<1>3. ASSUME NEW r, Becomes(r), Handler(r), Heard(client, m, r.client, r.sent)
      PROVE  \E s \in Seq(ToServer) : toServer' = toServer \o s /\ Heard(client, m, client', s)
  BY <1>3 DEF Becomes, Handled, Handler
<1>4. m.type \notin {"LoginSuccess", "Text"} => m # Succeeded /\ m # Created
  BY RequestKinds
<1>5. Same(client, client) /\ Plain(<<>>) /\ Handler([client |-> client, sent |-> <<>>])
  BY <1>2, PlainWords DEF Same, Handler
<1>6. CASE ReceiveLoginSuccess
  <2>1. Becomes(MarkLoggedIn(client)) /\ m.type = "LoginSuccess"
    BY <1>6 DEF ReceiveLoginSuccess, Got
  <2>2. m = Succeeded
    BY <1>2, <2>1 DEF ToClient, Loading, Joins, Drops, ZoneChanges, Texts, Warnings, Controls,
                      Succeeded
  <2>3. m # Created
    BY <2>1, RequestKinds
  <2>4. Heard(client, m, MarkLoggedIn(client).client, MarkLoggedIn(client).sent)
    BY <1>2, <2>2, <2>3, MarkIs DEF Heard, Plain, Evidence, Awaiting
  <2>5. QED
    BY <1>2, <1>3, <2>1, <2>4, MarkTyped
<1>7. CASE ReceiveWarningBox
  <2>1. Becomes(Warned(client, m.text)) /\ m \in Warnings
    BY <1>2, <1>7, Kinds DEF ReceiveWarningBox, Got
  <2>2. QED
    BY <1>2, <1>3, <2>1, WarnedTyped, WarnedHeard
<1>8. CASE ReceiveConfirmOverwrite
  <2> DEFINE d == [client EXCEPT !.registerPending = FALSE]
  <2> DEFINE r == [client |-> d, sent |-> <<>>]
  <2>1. Becomes(r) /\ m.type = "ConfirmOverwrite"
    BY <1>8 DEF ReceiveConfirmOverwrite, Got
  <2>2. m = [type |-> "ConfirmOverwrite"]
    BY <1>2, <2>1 DEF ToClient, Loading, Joins, Drops, ZoneChanges, Texts, Warnings, Controls
  <2>3. m \in Resets /\ m # Succeeded /\ m # Created
    BY <1>4, <2>1, <2>2 DEF Resets
  <2>4. d \in ClientState /\ d.loggedIn = client.loggedIn
    BY <1>2 DEF ClientState
  <2>5. r.client = d /\ r.sent = <<>>
    OBVIOUS
  <2>6. Heard(client, m, d, <<>>)
    <3> HIDE DEF d, m
    <3>1. QED
      BY <1>5, <2>3, <2>4 DEF Heard, Plain
  <2>7. Handler(r)
    BY <2>4, Tuples DEF Handler
  <2> HIDE DEF d, r
  <2>8. QED
    BY <1>3, <2>1, <2>5, <2>6, <2>7
<1>9. CASE ReceiveServerMessage
  <2> DEFINE r == CASE m.type = "Text" -> TextRead(client, m)
                    [] m.type \in {"Join", "Drop"} -> Retry(client, players')
                    [] OTHER -> [client |-> client, sent |-> <<>>]
  <2>1. Becomes(r) /\ m.type \in {"Join", "Drop", "Zone", "Text"}
    BY <1>9 DEF ReceiveServerMessage
  <2>2. CASE m.type = "Text"
    <3>1. m \in Texts /\ r = TextRead(client, m)
      BY <1>2, <2>2, Kinds
    <3> HIDE DEF r
    <3>2. QED
      BY <1>2, <1>3, <2>1, <3>1, TextTyped, TextHeard
  <2>3. CASE m.type \in {"Join", "Drop"}
    <3>1. r = Retry(client, players')
      BY <2>3
    <3> HIDE DEF r
    <3>2. Handler(r) /\ Same(client, r.client) /\ Plain(r.sent)
      BY <1>2, <3>1, RetryTyped, AutoLoginSame
    <3>3. m # Succeeded /\ m # Created
      BY <1>4, <2>3
    <3>4. QED
      BY <1>3, <2>1, <3>2, <3>3, SameHeard
  <2>4. CASE m.type = "Zone"
    <3>1. r = [client |-> client, sent |-> <<>>]
      BY <2>4
    <3>2. r.client = client /\ r.sent = <<>>
      BY <3>1
    <3> HIDE DEF r
    <3>3. m # Succeeded /\ m # Created
      BY <1>4, <2>4
    <3>4. QED
      BY <1>3, <1>5, <2>1, <3>1, <3>2, <3>3, SameHeard
  <2>5. QED
    BY <2>1, <2>2, <2>3, <2>4
<1>10. CASE ReceiveControl
  <2>1. Becomes(Controlled(client, m.class)) /\ m.type = "Control" /\ m.class \in {"player", "camera"}
    BY <1>2, <1>10, Kinds DEF ReceiveControl, Got, Controls
  <2>2. Heard(client, m, Controlled(client, m.class).client, Controlled(client, m.class).sent)
    BY <1>2, <1>4, <2>1, ControlledSame, SameHeard
  <2>3. QED
    BY <1>2, <1>3, <2>1, <2>2, ControlledTyped
<1>11. QED
  BY <1>6, <1>7, <1>8, <1>9, <1>10

LEMMA ReceiveHeard ==
    ASSUME TypeOK, Receive
    PROVE  \E s \in Seq(ToServer) :
             toServer' = toServer \o s /\ Heard(client, Head(toClient), client', s)
  BY LoadHeard, SessionHeard DEF Receive

LEMMA ReceiveLogin ==
    ASSUME TypeOK, LoginInv, Receive
    PROVE  LoginInv'
<1> DEFINE m == Head(toClient)
<1>1. /\ toClient # <<>> /\ toClient \in Seq(ToClient) /\ toServer \in Seq(ToServer)
      /\ toClient' = Tail(toClient) /\ server' = server
  BY ReceiveIs DEF Received, TypeOK
<1>2. PICK s \in Seq(ToServer) : toServer' = toServer \o s /\ Heard(client, m, client', s)
  BY ReceiveHeard
<1>3. \A M : FreeOf(toClient, M) <=> m \notin M /\ FreeOf(toClient', M)
  BY <1>1, FreeTail
<1>4. \A M : FreeOf(toServer', M) <=> FreeOf(toServer, M) /\ FreeOf(s, M)
  BY <1>1, <1>2, FreeConcat
<1>5. FreeOf(s, {Logout})
  BY <1>2 DEF Heard
<1>6. First(toServer', Logout)
  BY <1>1, <1>2, <1>5, FirstConcat DEF LoginInv, Entered
<1>7. m = Created => Awaiting(client)
  <2>1. 1 \in 1 .. Len(toClient) /\ toClient[1] = m
    BY <1>1, TailIs
  <2>2. QED
    BY <2>1 DEF LoginInv, Replied
<1>8. Entered'
  <2>1. client'.loggedIn \/ ~FreeOf(toClient', Evidence) => server'.session[Me] = User
    <3>1. client'.loggedIn => client.loggedIn \/ ~FreeOf(toClient, Evidence)
      BY <1>2, <1>3 DEF Heard
    <3>2. ~FreeOf(toClient', Evidence) => ~FreeOf(toClient, Evidence)
      BY <1>3
    <3>3. QED
      BY <1>1, <3>1, <3>2 DEF LoginInv, Entered
  <2>2. server'.session[Me] = User =>
          client'.loggedIn \/ ~FreeOf(toServer', {Logout}) \/ ~FreeOf(toClient', {Succeeded, Created})
    <3>1. m \in {Succeeded, Created} => client'.loggedIn
      BY <1>2, <1>7 DEF Heard
    <3>2. client.loggedIn => client'.loggedIn
      BY <1>2 DEF Heard
    <3>3. QED
      BY <1>1, <1>3, <1>4, <3>1, <3>2 DEF LoginInv, Entered
  <2>3. ~FreeOf(toServer', {Logout}) => ~client'.loggedIn /\ FreeOf(toClient', Evidence)
    <3>1. ASSUME ~FreeOf(toServer', {Logout}) PROVE ~client.loggedIn /\ FreeOf(toClient, Evidence)
      BY <1>4, <1>5, <3>1 DEF LoginInv, Entered
    <3>2. QED
      BY <1>2, <1>3, <3>1 DEF Heard
  <2>4. QED
    BY <1>6, <2>1, <2>2, <2>3 DEF Entered
<1>9. ASSUME Creatable PROVE m # Created
  <2>1. 1 \in 1 .. Len(toClient) /\ toClient[1] = m
    BY <1>1, TailIs
  <2>2. QED
    BY <1>9, <2>1 DEF LoginInv, Replied, Creatable
<1>10. ASSUME Creatable, m \in Resets
       PROVE  /\ server.held = <<>> /\ FreeOf(toClient', Resets) /\ User \in server.refused
              /\ FreeOf(toServer, {Enrol})
  <2>1. ~FreeOf(toClient, Resets)
    BY <1>3, <1>10
  <2>2. User \in server.refused /\ FreeOf(toServer, {Enrol}) /\ server.held = <<>> /\ Once(toClient, Resets)
    BY <1>10, <2>1 DEF LoginInv, Refused
  <2>3. QED
    BY <1>1, <1>10, <2>2, OnceTail
<1>11. Registered'
  <2> SUFFICES ASSUME Creatable, ~FreeOf(toServer', {Enrol})
               PROVE  /\ Awaiting(client') /\ server.held = <<>> /\ FreeOf(toClient', Resets)
                      /\ First(toServer', Enrol) \/ User \in server.refused
    BY <1>1 DEF Registered, Creatable
  <2>1. CASE m \in Resets
    <3>1. ~FreeOf(s, {Enrol})
      BY <1>4, <1>10, <2>1
    <3>2. Awaiting(client')
      BY <1>2, <3>1 DEF Heard
    <3>3. QED
      BY <1>10, <2>1, <3>2
  <2>2. CASE m \notin Resets
    <3>1. FreeOf(s, {Enrol})
      BY <1>2, <2>2 DEF Heard
    <3>2. /\ Awaiting(client) /\ server.held = <<>> /\ FreeOf(toClient, Resets)
          /\ First(toServer, Enrol) \/ User \in server.refused
      BY <1>4, <3>1 DEF LoginInv, Registered
    <3>3. Awaiting(client')
      BY <1>2, <1>9, <2>2, <3>2 DEF Heard
    <3>4. First(toServer, Enrol) => First(toServer', Enrol)
      BY <1>1, <1>2, <3>1, FirstConcat
    <3>5. QED
      BY <1>3, <3>2, <3>3, <3>4
  <2>3. QED
    BY <2>1, <2>2
<1>12. Refused'
  <2> SUFFICES ASSUME Creatable
               PROVE  \/ server.held = <<>> /\ FreeOf(toClient', Resets)
                      \/ /\ User \in server.refused /\ FreeOf(toServer', {Enrol})
                         /\ \/ server.held = <<>> /\ Once(toClient', Resets)
                            \/ Len(server.held) = 1 /\ FreeOf(toClient', Resets)
    BY <1>1 DEF Refused, Creatable
  <2>1. CASE m \in Resets
    BY <1>10, <2>1
  <2>2. CASE m \notin Resets
    <3>1. FreeOf(s, {Enrol})
      BY <1>2, <2>2 DEF Heard
    <3>2. Once(toClient, Resets) => Once(toClient', Resets)
      BY <1>1, OnceTail
    <3>3. QED
      BY <1>3, <1>4, <3>1, <3>2 DEF LoginInv, Refused
  <2>3. QED
    BY <2>1, <2>2
<1>13. Replied'
  <2> SUFFICES ASSUME NEW k \in 1 .. Len(toClient'), toClient'[k] = Created
               PROVE  /\ User \in server.accounts /\ Awaiting(client')
                      /\ \A l \in 1 .. k - 1 : toClient'[l] \notin Resets \cup {Created}
    BY <1>1 DEF Replied
  <2>1. /\ k \in Nat /\ k >= 1 /\ k + 1 \in 1 .. Len(toClient) /\ toClient[k + 1] = Created
        /\ 1 \in 1 .. Len(toClient) /\ toClient[1] = m
        /\ \A l \in 1 .. Len(toClient') : toClient'[l] = toClient[l + 1]
    BY <1>1, TailIs
  <2>2. /\ User \in server.accounts /\ Awaiting(client)
        /\ \A l \in 1 .. (k + 1) - 1 : toClient[l] \notin Resets \cup {Created}
    BY <2>1 DEF LoginInv, Replied
  <2>3. m \notin Resets \cup {Created}
    BY <2>1, <2>2
  <2>4. Awaiting(client')
    BY <1>2, <2>2, <2>3 DEF Heard
  <2>5. ASSUME NEW l \in 1 .. k - 1 PROVE toClient'[l] \notin Resets \cup {Created}
    <3>1. l \in 1 .. Len(toClient') /\ l + 1 \in 1 .. (k + 1) - 1
      BY <2>1
    <3>2. QED
      BY <2>1, <2>2, <3>1
  <2>6. QED
    BY <2>2, <2>4, <2>5
<1>14. QED
  BY <1>8, <1>11, <1>12, <1>13 DEF LoginInv

LEMMA PlainLogin ==
    ASSUME TypeOK, LoginInv, NEW s \in Seq(ToServer), Plain(s), Same(client, client'),
           UNCHANGED <<toClient, server>>, toServer' = toServer \o s
    PROVE  LoginInv'
<1>1. \A M : FreeOf(toServer', M) <=> FreeOf(toServer, M) /\ FreeOf(s, M)
  BY FreeConcat DEF TypeOK
<1>2. First(toServer', Logout) /\ (First(toServer, Enrol) => First(toServer', Enrol))
  BY FirstConcat DEF TypeOK, Plain, LoginInv, Entered
<1>3. FreeOf(s, {Logout}) /\ FreeOf(s, {Enrol})
  BY DEF Plain
<1>4. client'.loggedIn = client.loggedIn /\ (Awaiting(client) <=> Awaiting(client'))
  BY DEF Same, Awaiting
<1>5. Entered'
  BY <1>1, <1>2, <1>3, <1>4 DEF LoginInv, Entered
<1>6. Registered'
  BY <1>1, <1>2, <1>3, <1>4 DEF LoginInv, Registered, Creatable
<1>7. Refused'
  BY <1>1, <1>3 DEF LoginInv, Refused, Creatable
<1>8. Replied'
  BY <1>4 DEF LoginInv, Replied
<1>9. QED
  BY <1>5, <1>6, <1>7, <1>8 DEF LoginInv

LEMMA LoneRequests ==
    /\ First(<<Logout>>, Logout) /\ First(<<Enrol>>, Enrol) /\ First(<<Enrol>>, Logout)
    /\ FreeOf(<<Logout>>, {Enrol}) /\ FreeOf(<<Enrol>>, {Logout}) /\ ~FreeOf(<<Logout>>, {Logout})
<1>1. \A m, x : First(<<m>>, x)
  BY DEF First
<1>2. \A m : ~FreeOf(<<m>>, {m})
  BY DEF FreeOf
<1>3. QED
  BY <1>1, <1>2, PlainWords

\* A command given while nothing is in flight.
LEMMA QuietLogin ==
    ASSUME TypeOK, LoginInv, Quiet, UNCHANGED <<toClient, server>>,
           \/ toServer' = <<Logout>> /\ ~client'.loggedIn
           \/ toServer' = <<Enrol>> /\ Awaiting(client') /\ client'.loggedIn = client.loggedIn
    PROVE  LoginInv'
<1>1. toClient' = <<>> /\ toClient = <<>> /\ toServer = <<>> /\ server'.held = <<>>
  BY DEF Quiet
<1>2. \A M : FreeOf(<<>>, M)
  BY DEF FreeOf
<1>6. Entered'
  BY <1>1, <1>2, LoneRequests DEF LoginInv, Entered
<1>7. Registered'
  BY <1>1, <1>2, LoneRequests DEF Registered
<1>8. Refused'
  BY <1>1, <1>2 DEF Refused
<1>9. Replied'
  BY <1>1 DEF Replied
<1>10. QED
  BY <1>6, <1>7, <1>8, <1>9 DEF LoginInv

LEMMA ClientLogin ==
    ASSUME TypeOK, Undisturbed, LoginInv, ClientStep
    PROVE  LoginInv'
<1>1. client \in ClientState /\ phases \in PhasesState /\ toServer \in Seq(ToServer)
  BY DEF TypeOK
<1>2. \A m : <<>> \o <<m>> = <<m>>
  OBVIOUS
<1>3. CASE AnswerBurst
  <2>1. Ready \in Seq(ToServer)
    BY <1>1, Requests DEF Ready, PhasesState
  <2>2. Plain(Ready)
    BY RequestKinds, PlainWords DEF Ready
  <2>3. UNCHANGED <<toClient, server, client>> /\ toServer' = toServer \o Ready
    BY <1>3 DEF AnswerBurst, IdleCheck
  <2>4. QED
    BY <2>1, <2>2, <2>3, PlainLogin DEF Same
<1>4. CASE ThreeSecondsPass
  <2>1. Same(client, client')
    BY <1>1, <1>4 DEF ThreeSecondsPass, Same, ClientState
  <2>2. UNCHANGED <<toClient, server>> /\ toServer' = toServer \o <<>>
    BY <1>1, <1>4 DEF ThreeSecondsPass, missionVars
  <2>3. QED
    BY <2>1, <2>2, Tuples, PlainWords, PlainLogin
<1>5. CASE UserLogsIn
  <2>1. Same(client, client')
    BY <1>1, <1>5 DEF UserLogsIn, UserActs, Same, ClientState
  <2>2. UNCHANGED <<toClient, server>> /\ toServer' = toServer \o <<Login(User)>>
    BY <1>5 DEF UserLogsIn, UserActs
  <2>3. <<Login(User)>> \in Seq(ToServer)
    BY Requests, OneRequest
  <2>4. QED
    BY <2>1, <2>2, <2>3, PlainWords, PlainLogin
<1>6. CASE UserLogsOut
  <2>1. Quiet /\ UNCHANGED <<toClient, server>> /\ toServer' = <<>> \o <<Logout>> /\ ~client'.loggedIn
    BY <1>1, <1>6 DEF UserLogsOut, UserActs, Undisturbed, Quiet, Logout, ClientState
  <2>2. QED
    BY <1>2, <2>1, QuietLogin
<1>7. CASE UserRegisters
  <2>1. Quiet /\ UNCHANGED <<toClient, server>> /\ toServer' = <<>> \o <<Enrol>>
    BY <1>7 DEF UserRegisters, UserActs, Undisturbed, Quiet, Enrol
  <2>2. Awaiting(client') /\ client'.loggedIn = client.loggedIn
    BY <1>1, <1>7 DEF UserRegisters, UserActs, Registering, Awaiting, ClientState
  <2>3. QED
    BY <1>2, <2>1, <2>2, QuietLogin
<1>8. QED
  BY <1>3, <1>4, <1>5, <1>6, <1>7 DEF ClientStep

-----------------------------------------------------------------------------
(* What the server's steps leave of it *)

\* At most the oldest request is taken, and it is not the logout.
Taken == toServer' = toServer \/ (toServer # <<>> /\ toServer' = Tail(toServer))

LEMMA TakenIs ==
    ASSUME TypeOK, Taken
    PROVE  /\ \A M : FreeOf(toServer, M) => FreeOf(toServer', M)
           /\ \A m : First(toServer, m) => First(toServer', m)
           /\ \A m : toServer' = toServer \/ Head(toServer) # m =>
                (FreeOf(toServer', {m}) => FreeOf(toServer, {m}))
<1>1. CASE toServer' = toServer
  BY <1>1
<1>2. CASE toServer # <<>> /\ toServer' = Tail(toServer)
  <2>1. toServer \in Seq(ToServer)
    BY DEF TypeOK
  <2>2. \A M : FreeOf(toServer, M) <=> Head(toServer) \notin M /\ FreeOf(Tail(toServer), M)
    BY <1>2, <2>1, FreeTail
  <2>3. \A m : First(toServer, m) => First(Tail(toServer), m) /\ FreeOf(Tail(toServer), {m})
    BY <1>2, <2>1, FirstTail
  <2>4. QED
    BY <1>2, <2>2, <2>3
<1>3. QED
  BY <1>1, <1>2 DEF Taken

LEMMA EnteredSaid ==
    ASSUME TypeOK, LoginInv, Taken, client' = client,
           toServer' = toServer \/ Head(toServer) # Logout,
           NEW s \in Seq(ToClient), toClient' = toClient \o s,
           \/ FreeOf(s, Evidence) /\ server'.session[Me] = server.session[Me]
           \/ /\ server'.session[Me] = User /\ FreeOf(toServer', {Logout})
              /\ server.session[Me] = User \/ ~FreeOf(s, {Succeeded, Created})
    PROVE  Entered'
<1>1. \A M : FreeOf(toClient', M) <=> FreeOf(toClient, M) /\ FreeOf(s, M)
  BY FreeConcat DEF TypeOK
<1>2. First(toServer', Logout) /\ (FreeOf(toServer', {Logout}) <=> FreeOf(toServer, {Logout}))
  BY TakenIs DEF LoginInv, Entered
<1>3. CASE FreeOf(s, Evidence) /\ server'.session[Me] = server.session[Me]
  BY <1>1, <1>2, <1>3 DEF LoginInv, Entered
<1>4. CASE /\ server'.session[Me] = User /\ FreeOf(toServer', {Logout})
           /\ server.session[Me] = User \/ ~FreeOf(s, {Succeeded, Created})
  BY <1>1, <1>2, <1>4 DEF LoginInv, Entered
<1>5. QED
  BY <1>3, <1>4

LEMMA RegisteredSaid ==
    ASSUME TypeOK, LoginInv, Taken, client' = client,
           NEW s \in Seq(ToClient), toClient' = toClient \o s,
           Creatable' => /\ Creatable /\ FreeOf(s, Resets)
                         /\ server'.held = server.held \/ server'.held = <<>>
                         /\ User \in server.refused => User \in server'.refused
    PROVE  Registered' /\ Refused'
<1>1. \A M : FreeOf(toClient', M) <=> FreeOf(toClient, M) /\ FreeOf(s, M)
  BY FreeConcat DEF TypeOK
<1>2. /\ FreeOf(toServer, {Enrol}) => FreeOf(toServer', {Enrol})
      /\ First(toServer, Enrol) => First(toServer', Enrol)
  BY TakenIs
<1>3. Registered'
  BY <1>1, <1>2 DEF LoginInv, Registered
<1>4. FreeOf(toClient', Resets) => Once(toClient', Resets)
  BY DEF FreeOf, Once
<1>5. Creatable' /\ Once(toClient, Resets) => Once(toClient', Resets)
  BY OnceConcat DEF TypeOK
<1>6. Refused'
  BY <1>1, <1>2, <1>4, <1>5 DEF LoginInv, Refused
<1>7. QED
  BY <1>3, <1>6

LEMMA RepliedSaid ==
    ASSUME TypeOK, LoginInv, client' = client,
           NEW s \in Seq(ToClient), toClient' = toClient \o s, FreeOf(s, {Created}),
           User \in server.accounts => User \in server'.accounts
    PROVE  Replied'
<1>1. /\ Len(toClient') = Len(toClient) + Len(s) /\ Len(toClient) \in Nat
      /\ \A k \in 1 .. Len(toClient) : toClient'[k] = toClient[k]
      /\ \A k \in 1 .. Len(toClient') : toClient'[k] = Created => k \in 1 .. Len(toClient)
  BY ConcatIs DEF TypeOK, FreeOf
<1>2. ASSUME NEW k \in 1 .. Len(toClient'), toClient'[k] = Created
      PROVE  /\ User \in server'.accounts /\ Awaiting(client')
             /\ \A l \in 1 .. k - 1 : toClient'[l] \notin Resets \cup {Created}
  <2>1. k \in 1 .. Len(toClient) /\ toClient[k] = Created
    BY <1>1, <1>2
  <2>2. \A l \in 1 .. k - 1 : l \in 1 .. Len(toClient)
    BY <1>1, <2>1
  <2>3. QED
    BY <1>1, <2>1, <2>2 DEF LoginInv, Replied
<1>3. QED
  BY <1>2 DEF Replied

\* Words that have nothing to do with the login.
Harmless(s) == s \in Seq(ToClient) /\ FreeOf(s, Evidence) /\ FreeOf(s, Resets)

LEMMA EvidenceKinds == \A m \in Evidence : m.type \in {"LoginSuccess", "Text"}
<1>1. Text("logged in", User).type = "Text"
  BY DEF Text
<1>2. \A m \in Evidence : m = Succeeded \/ m = Created \/ m = Text("logged in", User)
  BY DEF Evidence
<1>3. QED
  BY <1>1, <1>2, RequestKinds

LEMMA HarmlessWords ==
    /\ Harmless(<<>>)
    /\ \A m \in ToClient :
         m.type \notin {"LoginSuccess", "ConfirmOverwrite", "WarningBox", "Text"} => Harmless(<<m>>)
    /\ Harmless(<<Text("logged in", Other)>>)
    /\ \A q, r : Harmless(q) /\ Harmless(r) => Harmless(q \o r)
    /\ \A q \in Seq(Loading) : Harmless(q)
<1>1. \A M : FreeOf(<<>>, M)
  BY DEF FreeOf
<1>2. \A m, M : m \notin M => FreeOf(<<m>>, M)
  BY DEF FreeOf
<1>3. \A m \in Resets : m.type \in {"WarningBox", "ConfirmOverwrite"}
  BY DEF Resets, Warnings
<1>4. \A m \in Evidence : m.type \in {"LoginSuccess", "Text"}
  BY EvidenceKinds
<1>5. Text("logged in", Other) \in ToClient /\ Text("logged in", Other) \notin Evidence
  <2>1. Text("logged in", Other) # Text("logged in", User) /\ Text("logged in", Other) # Created
    BY SessionAssumption DEF Text, Created
  <2>2. Text("logged in", Other) # Succeeded
    BY DEF Text, Succeeded
  <2>3. Other \in Names
    BY DEF Names
  <2>4. QED
    BY <2>1, <2>2, <2>3, Sendable DEF Evidence
<1>6. Text("logged in", Other) \notin Resets
  <2>1. Text("logged in", Other).type = "Text"
    BY RequestKinds
  <2>2. QED
    BY <1>3, <2>1
<1>7. Harmless(<<>>) /\ Harmless(<<Text("logged in", Other)>>)
  BY <1>1, <1>2, <1>5, <1>6, Tuples DEF Harmless
<1>8. ASSUME NEW m \in ToClient,
             m.type \notin {"LoginSuccess", "ConfirmOverwrite", "WarningBox", "Text"}
      PROVE  Harmless(<<m>>)
  BY <1>2, <1>3, <1>4, <1>8, Tuples DEF Harmless
<1>9. ASSUME NEW q, NEW r, Harmless(q), Harmless(r) PROVE Harmless(q \o r)
  BY <1>9, FreeConcat, ConcatIs DEF Harmless
<1>10. ASSUME NEW q \in Seq(Loading) PROVE Harmless(q)
  <2>1. \A k \in 1 .. Len(q) : q[k] \in Loading
    OBVIOUS
  <2>2. \A m \in Loading : m \notin Evidence /\ m \notin Resets
    BY <1>3, <1>4 DEF Loading
  <2>3. QED
    BY <2>1, <2>2, Wider DEF Harmless, FreeOf
<1>11. QED
  BY <1>7, <1>8, <1>9, <1>10

\* What the server knows of the login.
SameLogin(s, t) ==
    /\ t.session[Me] = s.session[Me] /\ t.accounts = s.accounts /\ t.refuses = s.refuses
    /\ t.refused = s.refused /\ t.held \in {s.held, <<>>}

LEMMA HarmlessLogin ==
    ASSUME TypeOK, LoginInv, Taken, client' = client,
           toServer' = toServer \/ Head(toServer) # Logout,
           NEW s, Harmless(s), toClient' = toClient \o s, SameLogin(server, server')
    PROVE  LoginInv'
<1>1. s \in Seq(ToClient) /\ FreeOf(s, Evidence) /\ FreeOf(s, Resets)
  BY DEF Harmless
<1>2. FreeOf(s, {Created})
  BY <1>1 DEF FreeOf, Evidence
<1>3. Entered'
  BY <1>1, EnteredSaid DEF SameLogin
<1>4. Creatable' <=> Creatable
  BY DEF Creatable, SameLogin
<1>5. Registered' /\ Refused'
  BY <1>1, <1>4, RegisteredSaid DEF SameLogin
<1>6. Replied'
  BY <1>1, <1>2, RepliedSaid DEF SameLogin
<1>7. QED
  BY <1>3, <1>5, <1>6 DEF LoginInv

LEMMA TellsLogin ==
    ASSUME TypeOK, LoginInv, NEW s, NEW b, NEW sent, Tells(s, b, sent), Harmless(sent),
           SameLogin(server, s)
    PROVE  LoginInv'
<1>1. toServer' = toServer /\ client' = client /\ toClient' = toClient \o sent /\ server' = s
  BY DEF Tells
<1>2. Taken /\ SameLogin(server, server')
  BY <1>1 DEF Taken
<1>3. QED
  BY <1>1, <1>2, HarmlessLogin

LEMMA ToldLogin ==
    ASSUME TypeOK, Undisturbed, LoginInv, Told
    PROVE  LoginInv'
<1>1. server \in ServerState /\ server.session[Me] \in Name
  BY DEF TypeOK, ServerState, Name, Names
<1>2. \A m \in ToClient :
        m.type \in {"Join", "Drop", "Zone", "Control"} => Harmless(<<m>>) /\ Harmless(Broadcast(m))
  BY HarmlessWords DEF Broadcast
<1>3. \A i, n, z : Join(i, n, z).type = "Join"
  BY DEF Join
<1>4. CASE RosterSync
  <2> DEFINE s == [server EXCEPT !.synced = TRUE, !.used[1] = {server.session[1]} \cap Names]
  <2> DEFINE a == <<Join(Me, server.session[Me], Start)>>
  <2> DEFINE b == IF server.session[1] = Absent THEN <<>> ELSE <<Join(1, server.session[1], server.zone)>>
  <2>1. SameLogin(server, s)
    BY <1>1 DEF SameLogin, ServerState
  <2>2. /\ Join(Me, server.session[Me], Start) \in ToClient
        /\ server.session[1] # Absent => Join(1, server.session[1], server.zone) \in ToClient
    BY <1>1, Two, HereIs, Sendable DEF ServerState
  <2>3. Harmless(a) /\ Harmless(b)
    BY <1>2, <1>3, <2>2, HarmlessWords
  <2>4. Tells(s, budget, a \o b)
    BY <1>4 DEF RosterSync
  <2> HIDE DEF s, a, b
  <2>5. QED
    BY <2>1, <2>3, <2>4, HarmlessWords, TellsLogin
<1>5. CASE OtherLeaves
  <2> DEFINE s == [server EXCEPT !.session[1] = Absent, !.used[1] = {}]
  <2> DEFINE m == [type |-> "Drop", id |-> 1, used |-> server.used[1]]
  <2>1. SameLogin(server, s)
    BY <1>1, Two DEF SameLogin, ServerState
  <2>2. m \in ToClient /\ m.type = "Drop"
    BY <1>1, Two, Sendable DEF ServerState
  <2>3. Tells(s, budget, Broadcast(m))
    BY <1>5 DEF OtherLeaves
  <2> HIDE DEF s, m
  <2>4. QED
    BY <1>2, <2>1, <2>2, <2>3, TellsLogin
<1>6. CASE Respawn
  <2> DEFINE s == [server EXCEPT !.control = "player"]
  <2>1. SameLogin(server, s)
    BY <1>1 DEF SameLogin, ServerState
  <2>2. Control("player") \in ToClient /\ Control("player").type = "Control"
    BY Sendable DEF Control
  <2>3. Tells(s, budget - 1, <<Control("player")>>)
    BY <1>6 DEF Respawn
  <2> HIDE DEF s
  <2>4. QED
    BY <1>2, <2>1, <2>2, <2>3, TellsLogin
<1>7. ASSUME NEW n \in Names \cup {LoggedOut}, OtherMoves(n) PROVE LoginInv'
  <2> DEFINE s == [server EXCEPT !.session[1] = n, !.used[1] = @ \cup ({n} \cap Names)]
  <2> DEFINE a == Broadcast(Join(1, n, server.zone))
  <2> DEFINE b == IF n \in Names THEN <<Text("logged in", n)>> ELSE <<>>
  <2>1. n # User
    BY <1>7 DEF OtherMoves, Undisturbed
  <2>2. SameLogin(server, s)
    BY <1>1, Two DEF SameLogin, ServerState
  <2>3. Join(1, n, server.zone) \in ToClient
    BY <1>1, Two, Sendable DEF ServerState, Name
  <2>4. Harmless(a)
    BY <1>2, <1>3, <2>3
  <2>5. Harmless(b)
    BY <2>1, HarmlessWords DEF Names
  <2>6. Tells(s, budget - 1, a \o b)
    BY <1>7 DEF OtherMoves
  <2> HIDE DEF s, a, b
  <2>7. QED
    BY <2>2, <2>4, <2>5, <2>6, HarmlessWords, TellsLogin
<1>8. ASSUME NEW z \in Zones, OtherTravels(z) PROVE LoginInv'
  <2> DEFINE s == [server EXCEPT !.zone = z]
  <2> DEFINE m == [type |-> "Zone", id |-> 1, zone |-> z]
  <2>1. SameLogin(server, s)
    BY <1>1 DEF SameLogin, ServerState
  <2>2. m \in ToClient /\ m.type = "Zone"
    BY Sendable
  <2>3. Tells(s, budget - 1, Broadcast(m))
    BY <1>8 DEF OtherTravels
  <2> HIDE DEF s, m
  <2>4. QED
    BY <1>2, <2>1, <2>2, <2>3, TellsLogin
<1>9. QED
  BY <1>4, <1>5, <1>6, <1>7, <1>8 DEF Told

LEMMA ContinueLogin ==
    ASSUME TypeOK, LoginInv, StartNextMission
    PROVE  LoginInv'
<1>1. UNCHANGED <<toServer, client, server>>
  BY NextMissionIs DEF Continued
<1>2. PICK s \in Seq(Loading) : toClient' = toClient \o s
  BY NextMissionIs DEF Continued
<1>3. Taken /\ SameLogin(server, server')
  BY <1>1 DEF Taken, SameLogin
<1>4. QED
  BY <1>1, <1>2, <1>3, HarmlessWords, HarmlessLogin

\* The load is served; with its last message the refusals held back follow.
LEMMA LoadLogin ==
    ASSUME TypeOK, LoginInv, ServerLoad
    PROVE  LoginInv'
<1>1. LoadServed /\ ServerLoads(server.held)
  BY ServerLoadIs DEF ServerLoad
<1>2. /\ server \in ServerState /\ server.held \in Seq(Warnings)
      /\ toClient \in Seq(ToClient) /\ toServer \in Seq(ToServer)
  BY DEF TypeOK, ServerState
<1>3. toServer # <<>> /\ toServer' = Tail(toServer) /\ client' = client
  BY <1>1 DEF LoadServed
<1>4. Head(toServer) # Logout
  <2>1. "logout" \notin LoadMessages
    BY DEF LoadMessages, Awaited
  <2>2. QED
    BY <1>1, <2>1, RequestKinds DEF ServerLoads
<1>5. Taken
  BY <1>3 DEF Taken
<1>6. SameLogin(server, server')
  <2>1. CASE server' = server
    BY <2>1 DEF SameLogin
  <2>2. CASE server' = [server EXCEPT !.held = <<>>]
    BY <1>2, <2>2 DEF SameLogin, ServerState
  <2>3. QED
    BY <1>1, <2>1, <2>2 DEF LoadServed
<1>7. ASSUME NEW s, Harmless(s), toClient' = toClient \o s PROVE LoginInv'
  BY <1>3, <1>4, <1>5, <1>6, <1>7, HarmlessLogin
<1>8. CASE toClient' = toClient
  <2>1. toClient' = toClient \o <<>>
    BY <1>2, <1>8
  <2>2. QED
    BY <1>7, <2>1, HarmlessWords
<1>9. ASSUME NEW reply \in Seq(Loading), toClient' = toClient \o reply PROVE LoginInv'
  BY <1>7, <1>9, HarmlessWords
<1>10. ASSUME NEW reply \in Seq(Loading), toClient' = (toClient \o reply) \o server.held,
              server'.held = <<>>, toClient' # toClient \o reply
       PROVE  LoginInv'
  <2>1. Harmless(reply) /\ reply \in Seq(ToClient)
    BY HarmlessWords, Wider
  <2>2. server.held # <<>>
    <3>1. toClient \o reply \in Seq(ToClient)
      BY <1>2, <2>1, ConcatIs
    <3>2. (toClient \o reply) \o <<>> = toClient \o reply
      BY <3>1
    <3>3. QED
      BY <1>10, <3>2
  <2>3. server'.held = <<>>
    BY <1>10
  <2> DEFINE s == reply \o server.held
  <2>4. s \in Seq(ToClient) /\ toClient' = toClient \o s
    <3>1. reply \in Seq(ToClient) /\ server.held \in Seq(ToClient) /\ toClient \in Seq(ToClient)
      BY <1>2, <2>1, Wider
    <3>2. \A q, r, x \in Seq(ToClient) : (q \o r) \o x = q \o (r \o x) /\ q \o r \in Seq(ToClient)
      BY ConcatTwice, ConcatIs
    <3>3. (toClient \o reply) \o server.held = toClient \o s /\ s \in Seq(ToClient)
      BY <3>1, <3>2, Zenon
    <3>4. QED
      BY <1>10, <3>3
  <2>5. FreeOf(s, Evidence) /\ FreeOf(s, {Created})
    <3>1. FreeOf(server.held, Evidence)
      <4>1. \A w \in Warnings : w \notin Evidence
        <5>1. \A w \in Warnings : w.type = "WarningBox"
          BY DEF Warnings
        <5>2. QED
          BY <5>1, EvidenceKinds
      <4>2. \A k \in 1 .. Len(server.held) : server.held[k] \in Warnings
        BY <1>2
      <4>3. QED
        BY <4>1, <4>2 DEF FreeOf
    <3>2. FreeOf(reply, Evidence)
      BY <2>1 DEF Harmless
    <3>3. server.held \in Seq(ToClient)
      BY <1>2, Wider
    <3>4. FreeOf(s, Evidence)
      BY <2>1, <3>1, <3>2, <3>3, FreeConcat
    <3>5. QED
      BY <3>4 DEF FreeOf, Evidence
  <2> HIDE DEF s
  <2>6. Entered'
    BY <1>3, <1>4, <1>5, <1>6, <2>4, <2>5, EnteredSaid DEF SameLogin
  <2>7. Creatable' => Creatable
    BY <1>6 DEF SameLogin, Creatable
  <2>8. Registered'
    <3>1. FreeOf(toServer, {Enrol}) => FreeOf(toServer', {Enrol})
      BY <1>5, TakenIs
    <3>2. QED
      BY <2>2, <2>7, <3>1 DEF LoginInv, Registered
  <2>9. Refused'
    <3>1. SUFFICES ASSUME Creatable'
                   PROVE  /\ User \in server'.refused /\ FreeOf(toServer', {Enrol})
                          /\ Once(toClient', Resets)
      BY <2>3 DEF Refused
    <3>2. /\ User \in server.refused /\ FreeOf(toServer, {Enrol})
          /\ Len(server.held) = 1 /\ FreeOf(toClient, Resets)
      <4>1. server.held # <<>> /\ Creatable
        BY <2>2, <2>7, <3>1
      <4>2. QED
        BY <4>1 DEF LoginInv, Refused
    <3>3. FreeOf(toClient \o reply, Resets) /\ toClient \o reply \in Seq(ToClient)
      BY <1>2, <2>1, <3>2, FreeConcat, ConcatIs DEF Harmless
    <3>4. Once((toClient \o reply) \o server.held, Resets)
      <4>1. server.held \in Seq(ToClient)
        BY <1>2, Wider
      <4>2. QED
        BY <3>2, <3>3, <4>1, OnceConcat
    <3>5. FreeOf(toServer', {Enrol})
      BY <1>5, <3>2, TakenIs
    <3>6. QED
      BY <1>6, <1>10, <3>2, <3>4, <3>5 DEF SameLogin
  <2>10. Replied'
    BY <1>3, <1>6, <2>4, <2>5, RepliedSaid DEF SameLogin
  <2>11. QED
    BY <2>6, <2>8, <2>9, <2>10 DEF LoginInv
<1>11. QED
  BY <1>1, <1>8, <1>9, <1>10 DEF LoadServed

\* A request is taken by its own handler.
LEMMA RequestTaken ==
    ASSUME TypeOK, NEW t, Asked(t), toServer' = Tail(toServer)
    PROVE  /\ toServer # <<>> /\ Taken /\ toServer \in Seq(ToServer)
           /\ t # "logout" => Head(toServer) # Logout
           /\ t = "newCharacter" => Head(toServer) = Enrol /\ ~FreeOf(toServer, {Enrol})
           /\ t = "logout" => Head(toServer) = Logout /\ ~FreeOf(toServer, {Logout})
<1>1. toServer # <<>> /\ toServer \in Seq(ToServer) /\ Head(toServer).type = t
  BY DEF Asked, TypeOK
<1>2. Head(toServer) \in ToServer
  BY <1>1, TailIs
<1>3. t # "logout" => Head(toServer) # Logout
  BY <1>1, RequestKinds
<1>4. t = "newCharacter" => Head(toServer) = Enrol
  BY <1>1, <1>2, LoadKinds DEF ToServer, Enrol, Register
<1>5. t = "logout" => Head(toServer) = Logout
  BY <1>1, <1>2, LoadKinds DEF ToServer, Logout
<1>6. \A m : Head(toServer) = m => ~FreeOf(toServer, {m})
  BY <1>1, FreeTail
<1>7. Taken
  BY <1>1 DEF Taken
<1>8. QED
  BY <1>1, <1>3, <1>4, <1>5, <1>6, <1>7

\* A refusal is sent or held back.
LEMMA RefuseIs ==
    ASSUME TypeOK, NEW s \in ServerState, NEW w \in Warnings, Refuse(s, w)
    PROVE  /\ client' = client /\ toServer' = Tail(toServer)
           /\ \E r \in Seq(ToClient) :
                /\ toClient' = toClient \o r /\ FreeOf(r, Evidence)
                /\ \/ r = <<w>> /\ server' = s
                   \/ r = <<>> /\ server' = [s EXCEPT !.held = Append(s.held, w)]
<1>1. w \in ToClient /\ w \notin Evidence
  <2>1. w.type = "WarningBox"
    BY DEF Warnings
  <2>2. QED
    BY <2>1, EvidenceKinds DEF ToClient
<1>2. \A m, M : m \notin M => FreeOf(<<m>>, M)
  BY DEF FreeOf
<1>3. \A M : FreeOf(<<>>, M)
  BY DEF FreeOf
<1>4. <<w>> \in Seq(ToClient) /\ FreeOf(<<w>>, Evidence)
  BY <1>1, <1>2, Tuples
<1>5. CASE mission.stage = "done"
  BY <1>4, <1>5 DEF Refuse, Answer
<1>6. CASE mission.stage # "done"
  BY <1>3, <1>6, Tuples DEF Refuse, Answer
<1>7. QED
  BY <1>5, <1>6

\* A login for an account that does not exist is refused, once.
LEMMA MissingLogin ==
    ASSUME TypeOK, LoginInv, Asked("login"), User \notin server.accounts,
           User \notin server.refused,
           Refuse([server EXCEPT !.refused = @ \cup {User}], Warning("missing", "login"))
    PROVE  LoginInv'
<1> DEFINE s == [server EXCEPT !.refused = @ \cup {User}]
<1> DEFINE w == Warning("missing", "login")
<1>1. server \in ServerState /\ toClient \in Seq(ToClient) /\ w \in Warnings
  BY Sendable DEF TypeOK
<1>2. /\ s \in ServerState /\ s.session = server.session /\ s.accounts = server.accounts
      /\ s.refuses = server.refuses /\ User \in s.refused /\ s.held = server.held
  BY <1>1 DEF ServerState
<1>3. Refuse(s, w)
  OBVIOUS
<1> HIDE DEF s, w
<1>4. client' = client /\ toServer' = Tail(toServer)
  BY <1>1, <1>2, <1>3, RefuseIs
<1>5. PICK r \in Seq(ToClient) :
        /\ toClient' = toClient \o r /\ FreeOf(r, Evidence)
        /\ \/ r = <<w>> /\ server' = s
           \/ r = <<>> /\ server' = [s EXCEPT !.held = Append(s.held, w)]
  BY <1>1, <1>2, <1>3, RefuseIs
<1>6. /\ server'.session = server.session /\ server'.accounts = server.accounts
      /\ server'.refuses = server.refuses /\ User \in server'.refused
  BY <1>2, <1>5 DEF ServerState
<1>7. /\ toServer # <<>> /\ Taken /\ Head(toServer) # Logout /\ toServer \in Seq(ToServer)
      /\ Head(toServer) # Enrol
  BY <1>4, RequestTaken, RequestKinds DEF Asked
<1>8. Entered'
  BY <1>4, <1>5, <1>6, <1>7, EnteredSaid
<1>9. Creatable' => Creatable
  BY <1>6 DEF Creatable
<1>10. ASSUME Creatable PROVE FreeOf(toServer', {Enrol})
  <2>1. ASSUME ~FreeOf(toServer, {Enrol}) PROVE FALSE
    <3>1. First(toServer, Enrol)
      BY <1>10, <2>1 DEF LoginInv, Registered
    <3>2. FreeOf(Tail(toServer), {Enrol})
      BY <1>7, <3>1, FirstTail
    <3>3. FreeOf(toServer, {Enrol})
      BY <1>7, <3>2, FreeTail
    <3>4. QED
      BY <2>1, <3>3
  <2>2. QED
    BY <1>7, <2>1, TakenIs
<1>11. Registered'
  BY <1>9, <1>10 DEF Registered
<1>12. Refused'
  <2> SUFFICES ASSUME Creatable'
               PROVE  \/ server'.held = <<>> /\ Once(toClient', Resets)
                      \/ Len(server'.held) = 1 /\ FreeOf(toClient', Resets)
    BY <1>6, <1>9, <1>10 DEF Refused
  <2>1. server.held = <<>> /\ FreeOf(toClient, Resets)
    BY <1>9 DEF LoginInv, Refused
  <2>2. CASE r = <<w>> /\ server' = s
    <3>1. Len(r) = 1
      BY <2>2
    <3>2. Once(toClient', Resets)
      BY <1>1, <1>5, <2>1, <3>1, OnceConcat
    <3>3. QED
      BY <1>2, <2>1, <2>2, <3>2
  <2>3. CASE r = <<>> /\ server' = [s EXCEPT !.held = Append(s.held, w)]
    <3>1. server'.held = Append(s.held, w)
      BY <1>2, <2>3 DEF ServerState
    <3>2. Append(<<>>, w) = <<w>> /\ Len(<<w>>) = 1
      OBVIOUS
    <3>3. toClient' = toClient
      BY <1>1, <1>5, <2>3
    <3>4. QED
      BY <1>2, <2>1, <3>1, <3>2, <3>3
  <2>4. QED
    BY <1>5, <2>2, <2>3
<1>13. FreeOf(r, {Created})
  BY <1>5 DEF FreeOf, Evidence
<1>14. Replied'
  BY <1>4, <1>5, <1>6, <1>13, RepliedSaid
<1>15. QED
  BY <1>8, <1>11, <1>12, <1>14 DEF LoginInv

\* Once the account exists or cannot be created, nothing more is asked of registrations.
LEMMA SettledLogin ==
    ASSUME TypeOK, LoginInv, Taken, client' = client,
           toServer' = toServer \/ Head(toServer) # Logout,
           NEW s \in Seq(ToClient), toClient' = toClient \o s,
           \/ FreeOf(s, Evidence) /\ server'.session[Me] = server.session[Me]
           \/ /\ server'.session[Me] = User /\ FreeOf(toServer', {Logout})
              /\ server.session[Me] = User \/ ~FreeOf(s, {Succeeded, Created}),
           ~Creatable', FreeOf(s, {Created}),
           User \in server.accounts => User \in server'.accounts
    PROVE  LoginInv'
<1>1. Entered'
  BY EnteredSaid
<1>2. Registered' /\ Refused'
  BY DEF Registered, Refused
<1>3. Replied'
  BY RepliedSaid
<1>4. QED
  BY <1>1, <1>2, <1>3 DEF LoginInv

\* What the server answers when the character enters the world.
LEMMA EntryWords ==
    LET j == Join(Me, User, Start)
        c == Control("player")
        in == <<j, Text("logged in", User), Succeeded, c>>
    IN /\ in \in Seq(ToClient) /\ ~FreeOf(in, {Succeeded, Created}) /\ FreeOf(in, {Created})
       /\ j # Created /\ c # Created /\ j \notin Resets
       /\ <<Succeeded>> \in Seq(ToClient)
       /\ FreeOf(<<Succeeded>>, Resets) /\ FreeOf(<<Succeeded>>, {Created})
<1> DEFINE j == Join(Me, User, Start)
<1> DEFINE c == Control("player")
<1> DEFINE l == Text("logged in", User)
<1> DEFINE in == <<j, l, Succeeded, c>>
<1>1. in \in Seq(ToClient) /\ <<Succeeded>> \in Seq(ToClient)
  BY Spoken DEF Succeeded
<1>2. j # Created /\ c # Created /\ Succeeded # Created
  <2>1. j.type = "Join" /\ c.type = "Control"
    BY DEF Join, Control
  <2>2. QED
    BY <2>1, RequestKinds
<1>3. l # Created
  BY DEF Text, Created
<1>4. j \notin Resets /\ Succeeded \notin Resets
  <2>1. j.type = "Join"
    BY DEF Join
  <2>2. \A m \in Resets : m.type \in {"WarningBox", "ConfirmOverwrite"}
    BY DEF Resets, Warnings
  <2>3. QED
    BY <2>1, <2>2, RequestKinds
<1> HIDE DEF j, c, l, in
<1>5. /\ Len(in) = 4 /\ in[1] = j /\ in[2] = l /\ in[3] = Succeeded /\ in[4] = c
  BY DEF in
<1>6. FreeOf(in, {Created}) /\ ~FreeOf(in, {Succeeded, Created})
  <2>1. \A k \in 1 .. 4 : k = 1 \/ k = 2 \/ k = 3 \/ k = 4
    OBVIOUS
  <2>2. FreeOf(in, {Created})
    BY <1>2, <1>3, <1>5, <2>1 DEF FreeOf
  <2>3. ~FreeOf(in, {Succeeded, Created})
    BY <1>5 DEF FreeOf
  <2>4. QED
    BY <2>2, <2>3
<1>7. FreeOf(<<Succeeded>>, Resets) /\ FreeOf(<<Succeeded>>, {Created})
  <2>1. Succeeded \notin {Created}
    BY <1>2
  <2>2. QED
    BY <1>4, <2>1, Short
<1>8. QED
  BY <1>1, <1>2, <1>4, <1>6, <1>7 DEF j, c, l, in

LEMMA LoginLogin ==
    ASSUME TypeOK, Undisturbed, LoginInv, ServerLogin
    PROVE  LoginInv'
<1> DEFINE enters == <<Join(Me, User, Start), Text("logged in", User), Succeeded, Control("player")>>
<1> DEFINE s == [server EXCEPT !.refused = @ \cup {User}]
<1> DEFINE missing == Warning("missing", "login")
<1> DEFINE inuse == Warning("inuse", "login")
<1>1. Asked("login") /\ Head(toServer).user = User
  BY Asking DEF ServerLogin, Asked
<1>2. server \in ServerState /\ server.session[Me] \in {User, LoggedOut}
  BY DEF TypeOK
<1>3. \/ server.session[Me] # LoggedOut /\ Answer(server, <<Succeeded>>)
      \/ User \notin server.accounts /\ Answer(server, <<>>)
      \/ User \notin server.accounts /\ User \notin server.refused /\ Refuse(s, missing)
      \/ User \in server.accounts /\ Refuse(server, inuse)
      \/ User \in server.accounts /\ Answer(EnterWorld(server, User), enters)
  BY <1>1 DEF ServerLogin, Undisturbed, Succeeded
<1>4. ASSUME NEW t, NEW sent, Answer(t, sent)
      PROVE  /\ client' = client /\ toServer' = Tail(toServer) /\ server' = t
             /\ toClient' = toClient \o sent
  BY <1>4 DEF Answer
<1>5. ASSUME toServer' = Tail(toServer)
      PROVE  /\ Taken /\ Head(toServer) # Logout /\ FreeOf(toServer', {Logout})
  <2>1. Taken /\ Head(toServer) # Logout /\ toServer # <<>> /\ toServer \in Seq(ToServer)
    BY <1>1, <1>5, RequestTaken
  <2>2. First(toServer, Logout)
    BY DEF LoginInv, Entered
  <2>3. QED
    BY <1>5, <2>1, <2>2, FirstTail
<1>6. CASE server.session[Me] # LoggedOut /\ Answer(server, <<Succeeded>>)
  <2>1. server.session[Me] = User /\ server' = server
    BY <1>2, <1>4, <1>6
  <2>2. /\ <<Succeeded>> \in Seq(ToClient)
        /\ FreeOf(<<Succeeded>>, Resets) /\ FreeOf(<<Succeeded>>, {Created})
    BY EntryWords
  <2>3. toClient' = toClient \o <<Succeeded>> /\ client' = client /\ toServer' = Tail(toServer)
    BY <1>4, <1>6
  <2>4. Taken /\ Head(toServer) # Logout /\ FreeOf(toServer', {Logout})
    BY <1>5, <2>3
  <2>5. Entered'
    BY <2>1, <2>2, <2>3, <2>4, EnteredSaid
  <2>6. Registered' /\ Refused'
    BY <2>1, <2>2, <2>3, <2>4, RegisteredSaid DEF Creatable
  <2>7. Replied'
    BY <2>1, <2>2, <2>3, RepliedSaid
  <2>8. QED
    BY <2>5, <2>6, <2>7 DEF LoginInv
<1>7. CASE Answer(server, <<>>)
  <2>1. toClient' = toClient \o <<>> /\ client' = client /\ toServer' = Tail(toServer) /\ server' = server
    BY <1>4, <1>7
  <2>2. Taken /\ Head(toServer) # Logout
    BY <1>5, <2>1
  <2>3. QED
    BY <2>1, <2>2, HarmlessWords, HarmlessLogin DEF SameLogin
<1>8. CASE User \notin server.accounts /\ User \notin server.refused /\ Refuse(s, missing)
  BY <1>1, <1>8, MissingLogin
<1>9. CASE User \in server.accounts /\ Refuse(server, inuse)
  <2>1. inuse \in Warnings
    BY Sendable
  <2> HIDE DEF inuse
  <2>2. client' = client /\ toServer' = Tail(toServer)
    BY <1>2, <1>9, <2>1, RefuseIs
  <2>3. PICK r \in Seq(ToClient) :
          /\ toClient' = toClient \o r /\ FreeOf(r, Evidence)
          /\ server' = server \/ server' = [server EXCEPT !.held = Append(server.held, inuse)]
    BY <1>2, <1>9, <2>1, RefuseIs
  <2>4. server'.session = server.session /\ server'.accounts = server.accounts
    BY <1>2, <2>3 DEF ServerState
  <2>5. ~Creatable'
    BY <1>9, <2>4 DEF Creatable
  <2>6. FreeOf(r, {Created})
    BY <2>3 DEF FreeOf, Evidence
  <2>7. Taken /\ Head(toServer) # Logout
    BY <1>5, <2>2
  <2>8. QED
    BY <2>2, <2>3, <2>4, <2>5, <2>6, <2>7, SettledLogin
<1>10. CASE User \in server.accounts /\ Answer(EnterWorld(server, User), enters)
  <2>1. /\ enters \in Seq(ToClient) /\ ~FreeOf(enters, {Succeeded, Created})
        /\ FreeOf(enters, {Created})
    BY EntryWords
  <2> HIDE DEF enters
  <2>2. /\ client' = client /\ toServer' = Tail(toServer) /\ server' = EnterWorld(server, User)
        /\ toClient' = toClient \o enters
    BY <1>4, <1>10
  <2>3. server'.session[Me] = User /\ server'.accounts = server.accounts
    BY <1>2, <2>2, Two DEF EnterWorld, ServerState
  <2>4. ~Creatable'
    BY <1>10, <2>3 DEF Creatable
  <2>5. Taken /\ Head(toServer) # Logout /\ FreeOf(toServer', {Logout})
    BY <1>5, <2>2
  <2>6. QED
    BY <2>1, <2>2, <2>3, <2>4, <2>5, SettledLogin
<1>11. QED
  BY <1>3, <1>6, <1>7, <1>8, <1>9, <1>10

\* What the server answers when the character is created, and when it is not.
LEMMA CreateWords ==
    LET new == <<Join(Me, User, Start), Created, Control("player")>>
    IN /\ new \in Seq(ToClient) /\ ~FreeOf(new, {Succeeded, Created})
       /\ Len(new) = 3 /\ \A k \in 1 .. 3 : new[k] = Created => k = 2
       /\ new[1] \notin Resets
<1> DEFINE j == Join(Me, User, Start)
<1> DEFINE c == Control("player")
<1> DEFINE new == <<j, Created, c>>
<1>1. new \in Seq(ToClient)
  BY Spoken DEF Created
<1>2. j # Created /\ c # Created /\ j \notin Resets
  BY EntryWords
<1>3. Len(new) = 3 /\ new[1] = j /\ new[2] = Created /\ new[3] = c
  BY DEF new
<1> HIDE DEF j, c, new
<1>4. \A k \in 1 .. 3 : k = 1 \/ k = 2 \/ k = 3
  OBVIOUS
<1>5. ~FreeOf(new, {Succeeded, Created})
  BY <1>3 DEF FreeOf
<1>6. \A k \in 1 .. 3 : new[k] = Created => k = 2
  BY <1>2, <1>3, <1>4
<1>7. QED
  BY <1>1, <1>2, <1>3, <1>5, <1>6 DEF new, j, c

LEMMA DenyWords ==
    \A m \in {[type |-> "ConfirmOverwrite"], Warning("other", "newCharacter")} :
      <<m>> \in Seq(ToClient) /\ FreeOf(<<m>>, Evidence) /\ FreeOf(<<m>>, {Created})
<1> SUFFICES ASSUME NEW m \in {[type |-> "ConfirmOverwrite"], Warning("other", "newCharacter")}
             PROVE  <<m>> \in Seq(ToClient) /\ FreeOf(<<m>>, Evidence) /\ FreeOf(<<m>>, {Created})
  OBVIOUS
<1>1. m.type \in {"ConfirmOverwrite", "WarningBox"}
  BY DEF Warning
<1>2. m \notin Evidence /\ m \notin {Created}
  BY <1>1, EvidenceKinds, RequestKinds
<1>3. <<m>> \in Seq(ToClient)
  BY Spoken
<1>4. \A x, M : x \notin M => FreeOf(<<x>>, M)
  BY DEF FreeOf
<1>5. QED
  BY <1>2, <1>3, <1>4, Zenon

LEMMA RegisterLogin ==
    ASSUME TypeOK, LoginInv, ServerRegister
    PROVE  LoginInv'
<1> DEFINE new == <<Join(Me, User, Start), Created, Control("player")>>
<1> DEFINE over == [type |-> "ConfirmOverwrite"]
<1> DEFINE other == Warning("other", "newCharacter")
<1> DEFINE s == [server EXCEPT !.accounts = @ \cup {User}]
<1>1. Asked("newCharacter") /\ Head(toServer).user = User
  BY Asking DEF ServerRegister, Asked
<1>2. server \in ServerState /\ toClient \in Seq(ToClient)
  BY DEF TypeOK
<1>3. \/ User \in server.accounts /\ Answer(server, <<over>>)
      \/ server.refuses /\ Answer(server, <<other>>)
      \/ Creatable /\ Answer(EnterWorld(s, User), new)
  BY <1>1 DEF ServerRegister, Creatable, Created
<1>4. ASSUME NEW t, NEW sent, Answer(t, sent)
      PROVE  /\ client' = client /\ toServer' = Tail(toServer) /\ server' = t
             /\ toClient' = toClient \o sent
  BY <1>4 DEF Answer
<1>5. toServer' = Tail(toServer)
  BY <1>3, <1>4
<1> HIDE DEF over, other, s
<1>6. /\ toServer # <<>> /\ toServer \in Seq(ToServer) /\ Taken /\ Head(toServer) # Logout
      /\ ~FreeOf(toServer, {Enrol})
  <2> HIDE DEF new
  <2>1. \A t : Asked(t) =>
          /\ toServer # <<>> /\ Taken /\ toServer \in Seq(ToServer)
          /\ t # "logout" => Head(toServer) # Logout
          /\ t = "newCharacter" => ~FreeOf(toServer, {Enrol})
    BY <1>5, RequestTaken
  <2>2. "newCharacter" # "logout"
    OBVIOUS
  <2>3. QED
    BY <1>1, <2>1, <2>2, Zenon
<1>7. ASSUME NEW m \in {over, other}, Answer(server, <<m>>), ~Creatable PROVE LoginInv'
  <2>1. <<m>> \in Seq(ToClient) /\ FreeOf(<<m>>, Evidence) /\ FreeOf(<<m>>, {Created})
    BY DenyWords DEF over, other
  <2>2. /\ client' = client /\ server' = server /\ toClient' = toClient \o <<m>>
    BY <1>4, <1>7
  <2>3. ~Creatable'
    BY <1>7, <2>2 DEF Creatable
  <2>4. QED
    BY <1>6, <2>1, <2>2, <2>3, SettledLogin
<1>8. CASE Creatable /\ Answer(EnterWorld(s, User), new)
  <2>1. /\ new \in Seq(ToClient) /\ ~FreeOf(new, {Succeeded, Created})
        /\ Len(new) = 3 /\ (\A k \in 1 .. 3 : new[k] = Created => k = 2)
        /\ new[1] \notin Resets
    BY CreateWords
  <2> HIDE DEF new
  <2>2. /\ client' = client /\ server' = EnterWorld(s, User) /\ toClient' = toClient \o new
    BY <1>4, <1>8
  <2>3. server'.session[Me] = User /\ User \in server'.accounts
    BY <1>2, <2>2, Two DEF EnterWorld, ServerState, s
  <2>4. FreeOf(toServer', {Logout})
    BY <1>5, <1>6, FirstTail DEF LoginInv, Entered
  <2>5. Entered'
    BY <1>6, <2>1, <2>2, <2>3, <2>4, EnteredSaid
  <2>6. Registered' /\ Refused'
    BY <2>3 DEF Registered, Refused, Creatable
  <2>7. /\ Awaiting(client) /\ FreeOf(toClient, Resets)
        /\ \A k \in 1 .. Len(toClient) : toClient[k] # Created
    BY <1>6, <1>8 DEF LoginInv, Registered, Replied, Creatable
  <2>8. /\ Len(toClient') = Len(toClient) + 3 /\ Len(toClient) \in Nat
        /\ \A k \in 1 .. Len(toClient) : toClient'[k] = toClient[k]
        /\ \A k \in 1 .. 3 : toClient'[Len(toClient) + k] = new[k]
        /\ \A k \in 1 .. Len(toClient') :
             k \in 1 .. Len(toClient) \/ (k - Len(toClient) \in 1 .. 3 /\ toClient'[k] = new[k - Len(toClient)])
    <3>1. \A q, r \in Seq(ToClient) :
            /\ Len(q \o r) = Len(q) + Len(r) /\ Len(q) \in Nat
            /\ \A k \in 1 .. Len(q) : (q \o r)[k] = q[k]
            /\ \A k \in 1 .. Len(r) : (q \o r)[Len(q) + k] = r[k]
            /\ \A k \in 1 .. Len(q \o r) :
                 k \in 1 .. Len(q) \/ (k - Len(q) \in 1 .. Len(r) /\ (q \o r)[k] = r[k - Len(q)])
      BY ConcatIs
    <3>2. Len(new) = 3
      BY <2>1
    <3>3. new \in Seq(ToClient) /\ toClient \in Seq(ToClient)
      BY <1>2, <2>1
    <3>4. /\ Len(toClient') = Len(toClient) + Len(new) /\ Len(toClient) \in Nat
          /\ \A k \in 1 .. Len(toClient) : toClient'[k] = toClient[k]
          /\ \A k \in 1 .. Len(new) : toClient'[Len(toClient) + k] = new[k]
          /\ \A k \in 1 .. Len(toClient') :
               \/ k \in 1 .. Len(toClient)
               \/ k - Len(toClient) \in 1 .. Len(new) /\ toClient'[k] = new[k - Len(toClient)]
      BY <2>2, <3>1, <3>3, Zenon
    <3>5. QED
      BY <3>2, <3>4, Zenon
  <2>9. ASSUME NEW k \in 1 .. Len(toClient'), toClient'[k] = Created
        PROVE  \A l \in 1 .. k - 1 : toClient'[l] \notin Resets \cup {Created}
    <3>1. k = Len(toClient) + 2
      <4>1. k - Len(toClient) \in 1 .. 3 /\ new[k - Len(toClient)] = Created
        BY <2>7, <2>8, <2>9
      <4>2. k - Len(toClient) = 2
        BY <2>1, <4>1
      <4>3. QED
        BY <2>8, <4>2
    <3>2. ASSUME NEW l \in 1 .. k - 1 PROVE toClient'[l] \notin Resets \cup {Created}
      <4>1. l \in 1 .. Len(toClient) \/ l = Len(toClient) + 1
        BY <2>8, <3>1
      <4>2. CASE l \in 1 .. Len(toClient)
        BY <2>7, <2>8, <4>2 DEF FreeOf
      <4>3. CASE l = Len(toClient) + 1
        <5>1. toClient'[l] = new[1] /\ new[1] # Created
          BY <2>1, <2>8, <4>3
        <5>2. QED
          BY <2>1, <5>1
      <4>4. QED
        BY <4>1, <4>2, <4>3
    <3>3. QED
      BY <3>2
  <2>10. Replied'
    BY <2>2, <2>3, <2>7, <2>9 DEF Replied, Awaiting
  <2>11. QED
    BY <2>5, <2>6, <2>10 DEF LoginInv
<1>9. QED
  BY <1>3, <1>7, <1>8 DEF Creatable

LEMMA LogoutLogin ==
    ASSUME TypeOK, LoginInv, ServerLogout
    PROVE  LoginInv'
<1> DEFINE left == <<Join(Me, LoggedOut, Start), Control("camera")>>
<1> DEFINE t == [server EXCEPT !.session[Me] = LoggedOut, !.control = "camera"]
<1>1. server \in ServerState /\ toClient \in Seq(ToClient)
  BY DEF TypeOK
<1>2. \/ server.session[Me] = LoggedOut /\ Answer(server, <<>>)
      \/ Answer(t, left)
  BY DEF ServerLogout
<1>3. /\ t.session[Me] = LoggedOut /\ t.accounts = server.accounts /\ t.held = server.held
      /\ t.refuses = server.refuses /\ t.refused = server.refused
  BY <1>1, Two DEF ServerState
<1>4. Harmless(left)
  <2>1. /\ Join(Me, LoggedOut, Start) \in ToClient /\ Join(Me, LoggedOut, Start).type = "Join"
        /\ Control("camera") \in ToClient /\ Control("camera").type = "Control"
    <3>1. Join(Me, LoggedOut, Start) \in ToClient /\ Control("camera") \in ToClient
      BY HereIs, Sendable
    <3>2. QED
      BY <3>1 DEF Join, Control
  <2>2. Harmless(<<Join(Me, LoggedOut, Start)>>) /\ Harmless(<<Control("camera")>>)
    BY <2>1, HarmlessWords
  <2>3. left = <<Join(Me, LoggedOut, Start)>> \o <<Control("camera")>>
    OBVIOUS
  <2>4. QED
    BY <2>2, <2>3, HarmlessWords
<1> HIDE DEF left, t
<1>5. PICK s :
        /\ Harmless(s) /\ toClient' = toClient \o s /\ client' = client
        /\ toServer' = Tail(toServer) /\ server'.session[Me] = LoggedOut
        /\ server'.accounts = server.accounts /\ server'.held = server.held
        /\ server'.refuses = server.refuses /\ server'.refused = server.refused
  BY <1>2, <1>3, <1>4, HarmlessWords DEF Answer
<1>6. s \in Seq(ToClient) /\ FreeOf(s, Evidence) /\ FreeOf(s, Resets) /\ FreeOf(s, {Created})
  <2>1. s \in Seq(ToClient) /\ FreeOf(s, Evidence) /\ FreeOf(s, Resets)
    BY <1>5 DEF Harmless
  <2>2. QED
    BY <2>1 DEF FreeOf, Evidence
<1>7. /\ toServer # <<>> /\ toServer \in Seq(ToServer) /\ Taken /\ ~FreeOf(toServer, {Logout})
  BY <1>5, RequestTaken DEF ServerLogout
<1>8. Entered'
  <2>1. ~client.loggedIn /\ FreeOf(toClient, Evidence) /\ First(toServer, Logout)
    BY <1>7 DEF LoginInv, Entered
  <2>2. FreeOf(toServer', {Logout}) /\ First(toServer', Logout)
    BY <1>5, <1>7, <2>1, FirstTail
  <2>3. FreeOf(toClient', Evidence)
    BY <1>1, <1>5, <1>6, <2>1, FreeConcat
  <2>4. server'.session[Me] # User
    BY <1>5, SessionAssumption
  <2>5. QED
    BY <1>5, <2>1, <2>2, <2>3, <2>4 DEF Entered
<1>9. Registered' /\ Refused'
  BY <1>5, <1>6, <1>7, RegisteredSaid DEF Creatable
<1>10. Replied'
  BY <1>5, <1>6, RepliedSaid
<1>11. QED
  BY <1>8, <1>9, <1>10 DEF LoginInv

LEMMA CameraLogin ==
    ASSUME TypeOK, LoginInv, ServerDropsCamera
    PROVE  LoginInv'
<1>1. server \in ServerState
  BY DEF TypeOK
<1>2. Control("camera") \in ToClient /\ Control("camera").type = "Control"
  BY Sendable DEF Control
<1>3. Harmless(<<>>) /\ Harmless(<<Control("camera")>>)
  BY <1>2, HarmlessWords
<1>4. SameLogin(server, server) /\ SameLogin(server, [server EXCEPT !.control = "camera"])
  BY <1>1 DEF SameLogin, ServerState
<1>5. /\ client' = client /\ toServer' = Tail(toServer) /\ SameLogin(server, server')
      /\ \E s : Harmless(s) /\ toClient' = toClient \o s
  BY <1>3, <1>4 DEF ServerDropsCamera, Answer
<1>6. Taken /\ Head(toServer) # Logout
  BY <1>5, RequestTaken DEF ServerDropsCamera
<1>7. QED
  BY <1>5, <1>6, HarmlessLogin

LEMMA StepLogin ==
    ASSUME TypeOK, Undisturbed, LoginInv, [Next]_vars
    PROVE  LoginInv'
<1>1. CASE UNCHANGED vars
  BY <1>1 DEF vars, missionVars, LoginInv, Entered, Registered, Refused, Replied, Creatable
<1>2. CASE ServerStep
  BY <1>2, LoadLogin, LoginLogin, RegisterLogin, LogoutLogin, CameraLogin DEF ServerStep
<1>3. QED
  BY <1>1, <1>2, NextCases, ReceiveLogin, ClientLogin, ToldLogin, ContinueLogin

LEMMA InitLogin ==
    ASSUME Init
    PROVE  LoginInv
<1>1. /\ toServer = <<>> /\ server.held = <<>> /\ server.session[Me] = LoggedOut
      /\ ~client.loggedIn
  BY Two DEF Init, MissionInit, FreshClient
<1>2. toClient \in Seq(Loading)
  BY InitRoster
<1>3. Harmless(toClient)
  BY <1>2, HarmlessWords
<1>4. FreeOf(toClient, Evidence) /\ FreeOf(toClient, Resets)
  BY <1>3 DEF Harmless
<1>5. \A M : FreeOf(toServer, M)
  BY <1>1 DEF FreeOf
<1>6. First(toServer, Logout)
  BY <1>1 DEF First
<1>7. server.session[Me] # User
  BY <1>1, SessionAssumption
<1>8. Entered
  BY <1>1, <1>4, <1>5, <1>6, <1>7 DEF Entered
<1>9. Replied
  BY <1>4 DEF Replied, FreeOf, Evidence
<1>10. QED
  BY <1>1, <1>4, <1>5, <1>8, <1>9 DEF LoginInv, Registered, Refused

\* What the client says of its login is true once every message has arrived, however the
\* load, refusals, registration and logout were interleaved (client.py 593-596, 807-836):
\* if no one else logs in as the user, commands come while nothing is in flight, and
\* a login is refused once.  Without any of the three there are counterexamples.
THEOREM LoginTruthHolds == Undisturbed => (Spec => []LoginTruth)
<1> SUFFICES ASSUME Undisturbed PROVE Spec => []LoginTruth
  OBVIOUS
<1>1. Init => LoginInv
  BY InitLogin
<1>2. TypeOK /\ LoginInv /\ [Next]_vars => LoginInv'
  BY StepLogin
<1>3. LoginInv => LoginTruth
  <2> SUFFICES ASSUME LoginInv, Quiet PROVE client.loggedIn <=> server.session[Me] = User
    BY DEF LoginTruth
  <2>1. \A M : FreeOf(toServer, M) /\ FreeOf(toClient, M)
    BY DEF Quiet, FreeOf
  <2>2. QED
    BY <2>1 DEF LoginInv, Entered
<1>4. QED
  BY <1>1, <1>2, <1>3, Typing, PTL DEF Spec
=============================================================================
