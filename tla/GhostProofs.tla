----------------------------- MODULE GhostProofs -----------------------------
(***************************************************************************)
(* Theorems about GhostTable and ObjectRegistry, for every number of ids,  *)
(* size of the burst, set of classes and number of packets.  The argument  *)
(* follows the packets that are still to come: Loads says what each may    *)
(* carry about an id, given where the server's record of it stands, and    *)
(* Records that a creation or removal that is neither read nor judged is   *)
(* in the packet the record names.  Reading a packet then moves the table  *)
(* to where ViewsAgree wants it, committed or not.                         *)
(*                                                                         *)
(* The registry sees the same packet in three steps, and is compared with  *)
(* the table as it stands after each of them (HeaderShown, ObjectsShown,   *)
(* SectionShown): what it lists is in that table (Faithful), and all of it *)
(* is listed (Lists).                                                      *)
(*                                                                         *)
(* The last part is about ObjectPositions: a record is compared with its   *)
(* object and the last pose (ShowsObject), also when the object is gone.   *)
(***************************************************************************)
EXTENDS ObjectRegistry, ObjectPositions, FiniteSetTheorems, TLAPS

-----------------------------------------------------------------------------
(* The inductive invariant *)

Links ==
    /\ judged <= received /\ received <= sent
    /\ taken \subseteq 1 .. received
    /\ delivered = {i \in taken : i <= judged}

InTransit(info) == info.st \in {"ghosting", "killing"}

\* Only a creation or removal in flight has a packet.
Rested == \A id \in Ids : record[id].packet # 0 => InTransit(record[id])

\* Before ReadyForNormalGhosts a packet holds events of the burst only.
BurstCargo(c) ==
    /\ c.control = 0 /\ c.ops = [id \in Ids |-> "none"]
    /\ c.scoped = c.events \ {0}
    /\ \A id \in 1 .. BurstSize : c.class[id] = record[id].class

\* The client says it is ready when the burst is complete, and not before.
Phase ==
    /\ consumed <= BurstSize + 1
    /\ normal => ready # 0
    /\ ready # 0 => consumed = BurstSize + 1
    /\ normal => \A id \in Ids : record[id].st # "burst"
    /\ ~normal =>
         /\ existing = 1 .. BurstSize
         /\ \A id \in Ids : record[id].st = IF id <= BurstSize THEN "burst" ELSE "free"
         /\ \A i \in 1 .. sent : BurstCargo(cargo[i])

Carried(id, info, c) ==
    IF info.st = "ghosting" THEN c.ops[id] = "create" /\ c.class[id] = info.class
    ELSE c.ops[id] = "remove"

\* A creation or removal in flight has no verdict yet, and is in its packet.
Records ==
    \A id \in Ids :
        /\ record[id].class = NoClass <=> record[id].st = "free"
        /\ id \in existing => record[id].st \in {"burst", "live"}
        /\ InTransit(record[id]) =>
             /\ record[id].packet \in judged + 1 .. sent
             /\ record[id].packet > received => Carried(id, record[id], cargo[record[id].packet])

\* The ghost is still there when packet i arrives.
Stays(info, i) ==
    \/ info.st \in {"burst", "live", "kill"}
    \/ info.st = "killing" /\ i < info.packet

\* What the packets to come carry.
Load(i, id) ==
    /\ cargo[i].ops[id] = "create" => record[id].st = "ghosting" /\ record[id].packet = i
    /\ cargo[i].ops[id] = "remove" => record[id].st = "killing" /\ record[id].packet = i
    /\ cargo[i].ops[id] = "update" \/ cargo[i].control = id => Stays(record[id], i)
    /\ id \in cargo[i].scoped => Stays(record[id], i) /\ cargo[i].class[id] = record[id].class
Loads == \A i \in received + 1 .. sent, id \in Ids : Load(i, id)

TypeInv == TypeOK /\ Links /\ Rested
GhostInv == TypeInv /\ Phase /\ Records /\ Loads /\ ViewsAgree /\ NeverMisread

-----------------------------------------------------------------------------
(* The steps of the packet layer *)

LEMMA SenderLinks ==
    ASSUME TypeOK, Links, SenderStep
    PROVE  /\ sent' \in {sent, sent + 1} /\ judged' \in judged .. received
           /\ received' = received /\ taken' = taken
           /\ Links'
           /\ judged' = judged => delivered' = delivered
           /\ delivered' \subseteq taken
           /\ \A i \in judged + 1 .. judged' : i \in delivered' <=> i \in taken
<1>1. PICK k \in judged .. received, n \in {0, 1} : Judge(k) /\ Send(n)
  BY DEF SenderStep
<1>2. /\ sent' = sent + n /\ received' = received /\ taken' = taken /\ judged' = k
      /\ delivered' = delivered \union {i \in taken : judged < i /\ i <= k}
  BY <1>1 DEF SenderStep, Judge, Send
<1>3. sent \in Nat /\ received \in Nat /\ judged \in Nat /\ taken \subseteq Nat
  BY DEF TypeOK
<1>4. delivered' = {i \in taken : i <= k}
  <2>1. k \in Nat /\ judged <= k
    BY <1>1, <1>3
  <2>2. \A i \in taken : i <= k <=> (i <= judged \/ (judged < i /\ i <= k))
    BY <1>3, <2>1
  <2>3. delivered = {i \in taken : i <= judged}
    BY DEF Links
  <2>4. QED
    BY <1>2, <2>2, <2>3
<1>5. QED
  BY <1>1, <1>2, <1>3, <1>4 DEF Links

LEMMA TakeLinks ==
    ASSUME TypeOK, Links, NEW i \in received + 1 .. sent, NEW ok \in BOOLEAN, Take(i, ok)
    PROVE  /\ Links' /\ received' = i /\ i \in Nat /\ i > received /\ received \in Nat
           /\ taken' = IF ok THEN taken \union {i} ELSE taken
           /\ sent' = sent /\ judged' = judged /\ delivered' = delivered
           /\ received' \in 0 .. sent' /\ judged' \in 0 .. received'
           /\ taken' \subseteq 1 .. received' /\ delivered' \subseteq taken'
<1>1. /\ received' = i /\ sent' = sent /\ judged' = judged /\ delivered' = delivered
      /\ taken' = IF ok THEN taken \union {i} ELSE taken
  BY DEF Take
<1>2. sent \in Nat /\ received \in Nat /\ judged \in Nat /\ taken \subseteq 1 .. received
  BY DEF TypeOK
<1>3. taken' \subseteq 1 .. i
  <2>1. \A j \in 1 .. received : j \in 1 .. i
    BY <1>2
  <2>2. i \in 1 .. i
    BY <1>2
  <2>3. QED
    BY <1>1, <1>2, <2>1, <2>2
<1>4. \A j \in taken' : j <= judged <=> j \in taken /\ j <= judged
  BY <1>1, <1>2 DEF Links
<1>5. delivered' = {j \in taken' : j <= judged}
  BY <1>1, <1>2, <1>4 DEF Links
<1>6. QED
  BY <1>1, <1>2, <1>3, <1>5 DEF Links

\* A record in another state.
LEMMA Restated ==
    ASSUME NEW info \in GhostInfo, NEW s \in GhostState, NEW n \in Nat
    PROVE  /\ [info EXCEPT !.st = s, !.packet = n] \in GhostInfo
           /\ [info EXCEPT !.st = s, !.packet = n].st = s
           /\ [info EXCEPT !.st = s, !.packet = n].class = info.class
           /\ [info EXCEPT !.st = s, !.packet = n].packet = n
           /\ [info EXCEPT !.st = s] \in GhostInfo
           /\ [info EXCEPT !.st = s].st = s
           /\ [info EXCEPT !.st = s].class = info.class
           /\ [info EXCEPT !.st = s].packet = info.packet
BY DEF GhostInfo

-----------------------------------------------------------------------------
(* Types *)

LEMMA InitType == Init => TypeInv
<1> SUFFICES ASSUME Init PROVE TypeInv
  OBVIOUS
<1>1. \A id \in Ids : record[id].packet = 0 /\ record[id] \in GhostInfo
  BY GhostAssumption DEF Init, Free, GhostInfo, GhostState
<1>2. record \in [Ids -> GhostInfo]
  BY <1>1 DEF Init
<1>3. /\ sent = 0 /\ received = 0 /\ judged = 0 /\ taken = {} /\ delivered = {}
  BY DEF Init, ChannelInit
<1>4. cargo \in [1 .. sent -> Cargo]
  BY <1>3 DEF Init
<1>5. existing \subseteq Ids
  BY GhostAssumption DEF Init, Ids
<1>6. Links /\ Rested
  BY <1>1, <1>3 DEF Links, Rested
<1>7. /\ sent \in Nat /\ received \in 0 .. sent /\ judged \in 0 .. received
      /\ taken \subseteq 1 .. received /\ delivered \subseteq taken
  BY <1>3
<1>8. /\ waiting \subseteq Events /\ rides \in [Events -> Nat] /\ scopes \in Nat
      /\ normal \in BOOLEAN /\ consumed \in Nat /\ count \in BOOLEAN /\ ready \in Nat
      /\ misread \in BOOLEAN /\ classes \in [Ids -> Classes \union {NoClass}]
  BY DEF Init
<1>9. QED
  BY <1>2, <1>4, <1>5, <1>6, <1>7, <1>8 DEF TypeInv, TypeOK

LEMMA ScopeType == TypeInv /\ (\E id \in Ids : Scope(id) \/ Unscope(id)) => TypeInv'
<1> SUFFICES ASSUME TypeInv, NEW id \in Ids, Scope(id) \/ Unscope(id) PROVE TypeInv'
  OBVIOUS
<1>1. /\ record' \in [Ids -> GhostInfo] /\ Rested'
      /\ existing' \subseteq Ids /\ scopes' \in Nat
  <2>1. CASE Scope(id)
    BY <2>1 DEF Scope, TypeInv, TypeOK, Rested, InTransit, GhostInfo, GhostState
  <2>2. CASE Unscope(id)
    <3>1. record[id] \in GhostInfo /\ Free \in GhostInfo
      BY DEF TypeInv, TypeOK, GhostInfo, GhostState, Free
    <3>2. [record[id] EXCEPT !.st = "kill"] \in GhostInfo
      BY <3>1 DEF GhostInfo, GhostState
    <3>3. record[id].packet = 0
      BY <2>2 DEF Unscope, TypeInv, Rested, InTransit
    <3>4. record'[id].packet = 0
      BY <2>2, <3>1, <3>3 DEF Unscope, Free, TypeInv, TypeOK, GhostInfo
    <3>5. QED
      BY <2>2, <3>1, <3>2, <3>4 DEF Unscope, TypeInv, TypeOK, Rested
  <2>3. QED
    BY <2>1, <2>2
<1>2. UNCHANGED <<chan, waiting, rides, normal, cargo, clientVars>>
  BY DEF Scope, Unscope
<1>3. QED
  BY <1>1, <1>2 DEF TypeInv, TypeOK, Links, chan, clientVars, Rested

LEMMA SendsType == TypeInv /\ ServerSends => TypeInv'
<1> SUFFICES ASSUME TypeInv, ServerSends PROVE TypeInv'
  OBVIOUS
<1>1. /\ sent' = sent + 1 /\ judged' = judged /\ received' = received /\ taken' = taken
      /\ delivered' = delivered /\ Links'
  BY SenderLinks DEF TypeInv, ServerSends
<1>2. PICK control \in Live \union {0}, last \in Events,
           some \in SUBSET (IF normal THEN Writable ELSE {}) :
        LET events == {e \in waiting : e <= last}
        IN  /\ events = {} => waiting = {}
            /\ events # {} \/ some # {}
            /\ cargo' = [i \in 1 .. sent + 1 |->
                 IF i <= sent THEN cargo[i]
                 ELSE [control |-> control, events |-> events,
                       scoped |-> events \intersect existing,
                       ops |-> [id \in Ids |-> IF id \in some
                                  THEN OperationOn(record[id]) ELSE "none"],
                       class |-> [id \in Ids |-> record[id].class]]]
            /\ waiting' = waiting \ events
            /\ rides' = [e \in Events |-> IF e \in events THEN sent + 1 ELSE rides[e]]
            /\ record' = [id \in Ids |->
                 IF id \in some /\ record[id].st = "new"
                 THEN [record[id] EXCEPT !.st = "ghosting", !.packet = sent + 1]
                 ELSE IF id \in some /\ record[id].st = "kill"
                 THEN [record[id] EXCEPT !.st = "killing", !.packet = sent + 1]
                 ELSE record[id]]
  BY DEF ServerSends
<1>3. /\ sent \in Nat /\ record \in [Ids -> GhostInfo] /\ waiting \subseteq Events
      /\ rides \in [Events -> Nat] /\ cargo \in [1 .. sent -> Cargo]
  BY DEF TypeInv, TypeOK
<1> DEFINE events == {e \in waiting : e <= last}
           load == [control |-> control, events |-> events, scoped |-> events \intersect existing,
                    ops |-> [id \in Ids |-> IF id \in some
                               THEN OperationOn(record[id]) ELSE "none"],
                    class |-> [id \in Ids |-> record[id].class]]
<1> HIDE DEF events
<1>4. load \in Cargo
  <2>1. control \in Ids \union {0}
    BY DEF Live
  <2>2. events \subseteq Events /\ events \intersect existing \subseteq Events
    BY <1>3 DEF events
  <2>3. \A info \in GhostInfo : OperationOn(info) \in Operation /\ "none" \in Operation
    BY DEF OperationOn, Operation
  <2>4. \A id \in Ids : record[id].class \in Classes \union {NoClass}
    BY <1>3 DEF GhostInfo
  <2>5. /\ [id \in Ids |-> IF id \in some THEN OperationOn(record[id]) ELSE "none"]
             \in [Ids -> Operation]
        /\ [id \in Ids |-> record[id].class] \in [Ids -> Classes \union {NoClass}]
    BY <1>3, <2>3, <2>4
  <2>6. QED
    BY <2>1, <2>2, <2>5 DEF Cargo
<1>5. cargo' \in [1 .. sent' -> Cargo]
  <2>1. cargo' = [i \in 1 .. sent + 1 |-> IF i <= sent THEN cargo[i] ELSE load]
    BY <1>2 DEF events
  <2> HIDE DEF load
  <2>2. QED
    BY <1>1, <1>3, <1>4, <2>1
<1>6. record' \in [Ids -> GhostInfo] /\ Rested'
  <2>1. \A info \in GhostInfo :
          /\ [info EXCEPT !.st = "ghosting", !.packet = sent + 1] \in GhostInfo
          /\ [info EXCEPT !.st = "killing", !.packet = sent + 1] \in GhostInfo
    <3>1. {"ghosting", "killing"} \subseteq GhostState /\ sent + 1 \in Nat
      BY <1>3 DEF GhostState
    <3>2. QED
      BY <3>1, Restated
  <2>2. record' \in [Ids -> GhostInfo]
    BY <1>2, <1>3, <2>1
  <2>3. ASSUME NEW id \in Ids, record'[id].packet # 0
        PROVE  InTransit(record'[id])
    <3>1. \/ record'[id] = [record[id] EXCEPT !.st = "ghosting", !.packet = sent + 1]
          \/ record'[id] = [record[id] EXCEPT !.st = "killing", !.packet = sent + 1]
          \/ record'[id] = record[id]
      BY <1>2
    <3>2. record[id] \in GhostInfo
      BY <1>3
    <3>3. QED
      BY <2>3, <3>1, <3>2 DEF TypeInv, Rested, InTransit, GhostInfo
  <2>4. QED
    BY <2>2, <2>3 DEF Rested
<1>7. waiting' \subseteq Events /\ rides' \in [Events -> Nat]
  <2>1. /\ waiting' = waiting \ events
        /\ rides' = [e \in Events |-> IF e \in events THEN sent + 1 ELSE rides[e]]
    BY <1>2 DEF events
  <2>2. QED
    BY <1>3, <2>1
<1>8. UNCHANGED <<existing, scopes, normal, clientVars>>
  BY DEF ServerSends
<1>9. /\ sent' \in Nat /\ received' \in 0 .. sent' /\ judged' \in 0 .. received'
      /\ taken' \subseteq 1 .. received' /\ delivered' \subseteq taken'
  BY <1>1 DEF TypeInv, TypeOK
<1>10. QED
  BY <1>1, <1>5, <1>6, <1>7, <1>8, <1>9 DEF TypeInv, TypeOK, clientVars

LEMMA NotifiedType == TypeInv /\ ServerNotified => TypeInv'
<1> SUFFICES ASSUME TypeInv, ServerNotified PROVE TypeInv'
  OBVIOUS
<1>1. /\ sent' = sent /\ judged' \in judged .. received /\ received' = received
      /\ taken' = taken /\ delivered' \subseteq taken /\ Links'
  BY SenderLinks DEF TypeInv, ServerNotified
<1>2. /\ record' = [id \in Ids |-> AfterVerdict(record[id])]
      /\ waiting' = waiting \union
           {e \in Events : rides[e] \in 1 .. judged' /\ rides[e] \notin delivered'}
      /\ rides' = [e \in Events |-> IF rides[e] \in 1 .. judged' THEN 0 ELSE rides[e]]
      /\ UNCHANGED <<existing, scopes, normal, cargo, clientVars>>
  BY DEF ServerNotified
<1>3. /\ sent \in Nat /\ record \in [Ids -> GhostInfo] /\ waiting \subseteq Events
      /\ rides \in [Events -> Nat]
  BY DEF TypeInv, TypeOK
<1>4. ASSUME NEW id \in Ids
      PROVE  record'[id] \in GhostInfo /\ (record'[id].packet # 0 => InTransit(record'[id]))
  <2>1. record[id] \in GhostInfo /\ record'[id] = AfterVerdict(record[id])
    BY <1>2, <1>3
  <2>2. CASE record[id].packet \notin 1 .. judged'
    BY <2>1, <2>2 DEF AfterVerdict, TypeInv, Rested
  <2>3. CASE record[id].packet \in 1 .. judged'
    <3>1. record[id].st \in {"ghosting", "killing"}
      BY <2>3 DEF TypeInv, Rested, InTransit
    <3>2. \/ record'[id] = [record[id] EXCEPT !.st = "live", !.packet = 0]
          \/ record'[id] = [record[id] EXCEPT !.st = "new", !.packet = 0]
          \/ record'[id] = [record[id] EXCEPT !.st = "kill", !.packet = 0]
          \/ record'[id] = Free
      BY <2>1, <2>3, <3>1 DEF AfterVerdict
    <3>3. {"live", "new", "kill"} \subseteq GhostState /\ 0 \in Nat
      BY DEF GhostState
    <3>4. Free \in GhostInfo /\ Free.packet = 0
      BY DEF Free, GhostInfo, GhostState
    <3>5. \A s \in {"live", "new", "kill"} :
            /\ [record[id] EXCEPT !.st = s, !.packet = 0] \in GhostInfo
            /\ [record[id] EXCEPT !.st = s, !.packet = 0].packet = 0
      BY <2>1, <3>3 DEF GhostInfo
    <3>6. QED
      BY <3>2, <3>4, <3>5
  <2>4. QED
    BY <2>2, <2>3
<1>5. record' \in [Ids -> GhostInfo] /\ Rested'
  BY <1>2, <1>4 DEF Rested
<1>6. waiting' \subseteq Events /\ rides' \in [Events -> Nat]
  BY <1>2, <1>3
<1>7. /\ sent' \in Nat /\ received' \in 0 .. sent' /\ judged' \in 0 .. received'
      /\ taken' \subseteq 1 .. received' /\ delivered' \subseteq taken'
  BY <1>1 DEF TypeInv, TypeOK
<1>8. QED
  BY <1>1, <1>2, <1>5, <1>6, <1>7 DEF TypeInv, TypeOK, clientVars

LEMMA HearReadyType == TypeInv /\ HearReady => TypeInv'
<1> SUFFICES ASSUME TypeInv, HearReady PROVE TypeInv'
  OBVIOUS
<1>1. /\ record' = [id \in Ids |-> IF record[id].st = "burst"
                                  THEN [record[id] EXCEPT !.st = "live"] ELSE record[id]]
      /\ record \in [Ids -> GhostInfo]
  BY DEF HearReady, TypeInv, TypeOK
<1>2. ASSUME NEW id \in Ids
      PROVE  record'[id] \in GhostInfo /\ (record'[id].packet # 0 => InTransit(record'[id]))
  BY <1>1 DEF GhostInfo, GhostState, TypeInv, Rested, InTransit
<1>3. record' \in [Ids -> GhostInfo] /\ Rested'
  BY <1>1, <1>2 DEF Rested
<1>4. QED
  BY <1>3 DEF HearReady, TypeInv, TypeOK, Links, chan, clientVars

-----------------------------------------------------------------------------
(* Reading a packet *)

\* What reading a packet does, whatever comes of it: the events before e are
\* consumed, and the table changes in the ids scoped before reached, or in all
\* of the ghost section when it is committed.
Reads(i, e, reached, ok) ==
    /\ consumed' = ConsumedBefore(i, e)
    /\ \A k \in cargo[i].events : k < e => NoGap(i, k)
    /\ classes' = IF ok THEN [id \in Ids |-> Staged(i, Scoped(i, BurstSize + 1), id)]
                  ELSE Scoped(i, reached)
    /\ Take(i, ok)
    /\ Ready(i)
    /\ count' \in BOOLEAN /\ misread' \in BOOLEAN
    /\ misread' => misread \/ ~Understood(i)
    /\ UNCHANGED serverVars

LEMMA ReadsCases ==
    ASSUME TypeInv, NEW i \in received + 1 .. sent,
           (\E e \in Events : FailInEvents(i, e)) \/ FailInGhosts(i) \/ Commit(i)
    PROVE  \E e \in 0 .. BurstSize + 1, reached \in Nat, ok \in BOOLEAN :
               e <= reached /\ Reads(i, e, reached, ok)
<1>1. BurstSize \in Nat /\ BurstSize + 1 \in 0 .. BurstSize + 1 /\ BurstSize + 1 \in Nat
  BY GhostAssumption
<1>2. misread \in BOOLEAN /\ count \in BOOLEAN
  BY DEF TypeInv, TypeOK
<1>3. ASSUME NEW e \in Events, FailInEvents(i, e)
      PROVE  \E reached \in Nat : e <= reached /\ Reads(i, e, reached, FALSE)
  <2>1. PICK reached \in {e} \union (IF NoGap(i, e) THEN {e + 1} ELSE {}) :
          /\ classes' = Scoped(i, reached)
          /\ count' = (count \/ \E k \in cargo[i].scoped : k < reached)
    BY <1>3 DEF FailInEvents
  <2>2. e \in Nat
    BY <1>1 DEF Events
  <2>3. reached \in Nat /\ e <= reached
    BY <2>1, <2>2
  <2>4. Reads(i, e, reached, FALSE)
    <3>1. count' \in BOOLEAN
      BY <2>1
    <3>2. misread' \in BOOLEAN /\ (misread' => misread \/ ~Understood(i))
      BY <1>2, <1>3 DEF FailInEvents
    <3>3. /\ consumed' = ConsumedBefore(i, e) /\ Take(i, FALSE) /\ Ready(i)
          /\ \A k \in cargo[i].events : k < e => NoGap(i, k)
          /\ UNCHANGED serverVars
      BY <1>3 DEF FailInEvents
    <3>4. QED
      BY <2>1, <3>1, <3>2, <3>3 DEF Reads
  <2>5. QED
    BY <2>3, <2>4
<1>4. Events \subseteq 0 .. BurstSize + 1
  BY <1>1 DEF Events
<1>5. ASSUME FailInGhosts(i)
      PROVE  Reads(i, BurstSize + 1, BurstSize + 1, FALSE)
  <2>1. count' \in BOOLEAN
    BY <1>5 DEF FailInGhosts, AfterEvents
  <2>2. misread' \in BOOLEAN /\ (misread' => misread \/ ~Understood(i))
    BY <1>5 DEF FailInGhosts
  <2>3. QED
    BY <1>5, <2>1, <2>2 DEF FailInGhosts, Reads, EventsRead, AfterEvents
<1>6. ASSUME Commit(i)
      PROVE  Reads(i, BurstSize + 1, BurstSize + 1, TRUE)
  <2>1. count' \in BOOLEAN
    BY <1>6 DEF Commit, AfterEvents
  <2>2. misread' \in BOOLEAN /\ (misread' => misread \/ ~Understood(i))
    BY <1>2, <1>6 DEF Commit
  <2>3. /\ consumed' = ConsumedBefore(i, BurstSize + 1) /\ Take(i, TRUE) /\ Ready(i)
        /\ \A k \in cargo[i].events : k < BurstSize + 1 => NoGap(i, k)
        /\ classes' = [id \in Ids |-> Staged(i, Scoped(i, BurstSize + 1), id)]
        /\ UNCHANGED serverVars
    BY <1>6 DEF Commit, EventsRead, AfterEvents
  <2>4. QED
    BY <2>1, <2>2, <2>3 DEF Reads
<1>7. FALSE \in BOOLEAN /\ TRUE \in BOOLEAN
  OBVIOUS
<1>8. CASE \E e \in Events : FailInEvents(i, e)
  <2>1. PICK e \in Events : FailInEvents(i, e)
    BY <1>8
  <2>2. PICK reached \in Nat : e <= reached /\ Reads(i, e, reached, FALSE)
    BY <1>3, <2>1
  <2>3. e \in 0 .. BurstSize + 1
    BY <1>4
  <2>4. QED
    BY <1>7, <2>2, <2>3
<1>9. BurstSize + 1 <= BurstSize + 1
  BY <1>1
<1>10. QED
  BY <1>1, <1>5, <1>6, <1>7, <1>8, <1>9

\* The events consumed are the next ones, without a gap.
LEMMA Consumption ==
    ASSUME TypeInv, NEW i \in 1 .. sent, NEW e \in 0 .. BurstSize + 1,
           \A k \in cargo[i].events : k < e => NoGap(i, k)
    PROVE  /\ ConsumedBefore(i, e) \in Nat
           /\ consumed <= ConsumedBefore(i, e)
           /\ ConsumedBefore(i, e) <= consumed \/ ConsumedBefore(i, e) <= e
           /\ \A k \in consumed .. ConsumedBefore(i, e) - 1 : k \in cargo[i].events /\ k < e
<1> DEFINE S == {k \in consumed .. e - 1 : k \in cargo[i].events}
           n == Cardinality(S)
<1>1. BurstSize \in Nat /\ consumed \in Nat /\ e \in Nat
  BY GhostAssumption DEF TypeInv, TypeOK
<1>2. IsFiniteSet(consumed .. e - 1)
  BY <1>1, FS_Interval
<1>3. IsFiniteSet(S)
  BY <1>2, FS_Subset
<1>4. n \in Nat
  BY <1>3, FS_CardinalityType
<1>5. ASSUME NEW k \in consumed .. consumed + n - 1
      PROVE  k \in S
  <2> SUFFICES ASSUME k \notin S PROVE FALSE
    OBVIOUS
  <2>1. k \in Nat /\ consumed <= k /\ k < consumed + n
    BY <1>1, <1>4
  <2>2. S \subseteq consumed .. k - 1
    <3> SUFFICES ASSUME NEW l \in S, l \notin consumed .. k - 1 PROVE FALSE
      OBVIOUS
    <3>1. l \in Nat /\ consumed <= l /\ l < e /\ k <= l /\ l \in cargo[i].events
      BY <1>1, <2>1
    <3>2. k \in cargo[i].events
      BY <1>1, <2>1, <3>1 DEF NoGap
    <3>3. k \in S
      BY <1>1, <2>1, <3>1, <3>2
    <3>4. QED
      BY <3>3
  <2>3. /\ IsFiniteSet(consumed .. k - 1)
        /\ Cardinality(consumed .. k - 1) = k - consumed
    <3>1. consumed \in Int /\ k - 1 \in Int
      BY <1>1, <2>1
    <3>2. /\ IsFiniteSet(consumed .. k - 1)
          /\ Cardinality(consumed .. k - 1)
               = IF consumed > k - 1 THEN 0 ELSE k - 1 - consumed + 1
      BY <3>1, FS_Interval
    <3>3. QED
      BY <1>1, <2>1, <3>2
  <2>4. n <= k - consumed
    BY <2>2, <2>3, FS_Subset
  <2>5. QED
    BY <1>1, <1>4, <2>1, <2>4
<1>6. ConsumedBefore(i, e) = n + consumed
  BY DEF ConsumedBefore
<1> HIDE DEF n
<1>7. \A k \in consumed .. ConsumedBefore(i, e) - 1 : k \in cargo[i].events /\ k < e
  BY <1>1, <1>4, <1>5, <1>6
<1>8. ConsumedBefore(i, e) <= consumed \/ ConsumedBefore(i, e) <= e
  <2>1. CASE n = 0
    BY <1>1, <1>6, <2>1
  <2>2. CASE n # 0
    <3>1. consumed + n - 1 \in consumed .. ConsumedBefore(i, e) - 1
      BY <1>1, <1>4, <1>6, <2>2
    <3>2. consumed + n - 1 < e
      BY <1>7, <3>1
    <3>3. QED
      BY <1>1, <1>4, <1>6, <3>2
  <2>3. QED
    BY <2>1, <2>2
<1>9. QED
  BY <1>1, <1>4, <1>6, <1>7, <1>8

LEMMA ReadsType ==
    ASSUME TypeInv, NEW i \in received + 1 .. sent, NEW e \in 0 .. BurstSize + 1,
           NEW reached \in Nat, NEW ok \in BOOLEAN, Reads(i, e, reached, ok)
    PROVE  TypeInv' /\ (ready' # ready => consumed' > 0 /\ (IdleEarly \/ consumed' = BurstSize + 1))
<1>1. /\ Links' /\ sent' = sent /\ received' \in 0 .. sent' /\ judged' \in 0 .. received'
      /\ taken' \subseteq 1 .. received' /\ delivered' \subseteq taken'
      /\ i \in Nat /\ received \in Nat /\ i > received
  BY TakeLinks DEF TypeInv, Reads
<1>2. i \in 1 .. sent /\ sent \in Nat
  BY <1>1 DEF TypeInv, TypeOK
<1>3. consumed' \in Nat
  BY <1>2, Consumption DEF Reads
<1>4. cargo[i].class \in [Ids -> Classes \union {NoClass}]
  BY <1>2 DEF TypeInv, TypeOK, Cargo
<1>5. \A r \in Nat : Scoped(i, r) \in [Ids -> Classes \union {NoClass}]
  BY <1>4 DEF Scoped, TypeInv, TypeOK
<1>6. \A id \in Ids : \A table \in [Ids -> Classes \union {NoClass}] :
         Staged(i, table, id) \in Classes \union {NoClass}
  BY <1>4 DEF Staged
<1>7. classes' \in [Ids -> Classes \union {NoClass}]
  <2>1. BurstSize + 1 \in Nat
    BY GhostAssumption
  <2>2. CASE ok
    <3>1. classes' = [id \in Ids |-> Staged(i, Scoped(i, BurstSize + 1), id)]
      BY <2>2 DEF Reads
    <3>2. Scoped(i, BurstSize + 1) \in [Ids -> Classes \union {NoClass}]
      BY <1>5, <2>1
    <3>3. \A id \in Ids : Staged(i, Scoped(i, BurstSize + 1), id) \in Classes \union {NoClass}
      BY <1>6, <3>2
    <3>4. QED
      BY <3>1, <3>3
  <2>3. CASE ~ok
    BY <1>5, <2>3 DEF Reads
  <2>4. QED
    BY <2>2, <2>3
<1>8. ready' \in Nat /\ (ready' # ready => consumed' > 0 /\ (IdleEarly \/ consumed' = BurstSize + 1))
  <2>1. ready' \in {0, i} \/ ready' = ready
    BY DEF Reads, Ready
  <2>2. ready \in Nat
    BY DEF TypeInv, TypeOK
  <2>3. ready' # ready => consumed' > 0 /\ (IdleEarly \/ consumed' = BurstSize + 1)
    BY DEF Reads, Ready
  <2>4. QED
    BY <1>1, <2>1, <2>2, <2>3
<1>9. UNCHANGED serverVars /\ count' \in BOOLEAN /\ misread' \in BOOLEAN
  BY DEF Reads
<1>10. Rested'
  BY <1>9 DEF TypeInv, Rested, serverVars
<1>11. cargo' \in [1 .. sent' -> Cargo]
  BY <1>1, <1>9 DEF TypeInv, TypeOK, serverVars
<1>12. QED
  BY <1>1, <1>3, <1>7, <1>8, <1>9, <1>10, <1>11 DEF TypeInv, TypeOK, serverVars

LEMMA NextType == TypeInv /\ [Next]_vars => TypeInv'
<1> SUFFICES ASSUME TypeInv, [Next]_vars PROVE TypeInv'
  OBVIOUS
<1>1. CASE UNCHANGED vars
  BY <1>1 DEF vars, chan, serverVars, clientVars, TypeInv, TypeOK, Links, Rested
<1>2. ASSUME NEW i \in received + 1 .. sent,
             (\E e \in Events : FailInEvents(i, e)) \/ FailInGhosts(i) \/ Commit(i)
      PROVE  TypeInv'
  BY <1>2, ReadsCases, ReadsType
<1>3. QED
  BY <1>1, <1>2, ScopeType, SendsType, NotifiedType, HearReadyType DEF Next

\* Type correctness of server, channel and client.
THEOREM Typing == Spec => []TypeOK
<1>1. Init => TypeInv
  BY InitType
<1>2. TypeInv /\ [Next]_vars => TypeInv'
  BY NextType
<1>3. TypeInv => TypeOK
  BY DEF TypeInv
<1>4. QED
  BY <1>1, <1>2, <1>3, PTL DEF Spec

-----------------------------------------------------------------------------
(* The views *)

\* What the server's record says the client has of this id.
View(info, gone) ==
    CASE info.st \in {"burst", "live", "kill"} -> info.class
      [] info.st \in {"free", "new"} -> gone
      [] info.st = "ghosting" -> IF info.packet \in taken THEN info.class ELSE gone
      [] info.st = "killing" -> IF info.packet \in taken THEN gone ELSE info.class

LEMMA Viewed ==
    ASSUME TypeOK
    PROVE  ViewsAgree <=>
             \A id \in Ids : (record[id].st = "burst" => consumed > id)
                               => classes[id] = View(record[id], NoClass)
<1>1. ASSUME NEW id \in Ids
      PROVE  record[id].st \in GhostState
  BY DEF TypeOK, GhostInfo
<1>2. QED
  BY <1>1 DEF ViewsAgree, View, GhostState

\* Reading packet i changes nothing of a ghost that stays but what it says itself.
LEMMA Understanding ==
    ASSUME GhostInv, NEW i \in received + 1 .. sent
    PROVE  Understood(i)
<1>1. /\ sent \in Nat /\ received \in Nat /\ i \in 1 .. sent /\ i > received
      /\ taken \subseteq 1 .. received /\ BurstSize \in Nat /\ i \notin taken
      /\ NoClass \notin Classes
  BY GhostAssumption DEF GhostInv, TypeInv, TypeOK
<1>2. ASSUME NEW id \in Ids
      PROVE  /\ record[id] \in GhostInfo /\ Load(i, id)
             /\ record[id].st = "burst" => ~normal /\ BurstCargo(cargo[i])
             /\ record[id].class = NoClass <=> record[id].st = "free"
             /\ (record[id].st # "burst") => classes[id] = View(record[id], NoClass)
  <2>1. record[id] \in GhostInfo /\ normal \in BOOLEAN
    BY DEF GhostInv, TypeInv, TypeOK
  <2>2. Load(i, id)
    BY DEF GhostInv, Loads
  <2>3. record[id].st = "burst" => ~normal /\ BurstCargo(cargo[i])
    BY <1>1 DEF GhostInv, Phase
  <2>4. record[id].st # "burst" => classes[id] = View(record[id], NoClass)
    BY Viewed DEF GhostInv, TypeInv
  <2>5. QED
    BY <2>1, <2>2, <2>3, <2>4 DEF GhostInv, Records
<1>3. ASSUME NEW id \in Ids, Stays(record[id], i), record[id].st # "burst"
      PROVE  classes[id] = record[id].class /\ classes[id] # NoClass
  BY <1>1, <1>2, <1>3 DEF Stays, View
<1>4. cargo[i].control # 0 => classes[cargo[i].control] # NoClass
  <2> SUFFICES ASSUME cargo[i].control # 0 PROVE classes[cargo[i].control] # NoClass
    OBVIOUS
  <2>1. cargo[i].control \in Ids
    BY <1>1 DEF GhostInv, TypeInv, TypeOK, Cargo
  <2>2. Stays(record[cargo[i].control], i)
    BY <1>2, <2>1 DEF Load
  <2>3. record[cargo[i].control].st # "burst"
    BY <1>2, <2>1 DEF BurstCargo
  <2>4. QED
    BY <1>3, <2>1, <2>2, <2>3
<1>5. ASSUME NEW id \in Ids, cargo[i].ops[id] = "create"
      PROVE  Scoped(i, BurstSize + 1)[id] = NoClass
  <2>1. record[id].st = "ghosting" /\ record[id].packet = i
    BY <1>2, <1>5 DEF Load
  <2>2. id \notin cargo[i].scoped
    BY <1>2, <2>1 DEF Load, Stays
  <2>3. classes[id] = NoClass
    BY <1>1, <1>2, <2>1 DEF View
  <2>4. QED
    BY <2>2, <2>3 DEF Scoped
<1>6. ASSUME NEW id \in Ids, cargo[i].ops[id] = "update"
      PROVE  Scoped(i, BurstSize + 1)[id] # NoClass
  <2>1. Stays(record[id], i)
    BY <1>2, <1>6 DEF Load
  <2>2. record[id].st # "burst"
    BY <1>2, <1>6 DEF BurstCargo
  <2>3. classes[id] = record[id].class /\ classes[id] # NoClass
    BY <1>3, <2>1, <2>2
  <2>4. QED
    BY <1>2, <2>3 DEF Scoped, Load
<1>7. QED
  BY <1>4, <1>5, <1>6 DEF Understood

\* Whatever comes of packet i, afterwards the table is what the server must think.
LEMMA ReadsAgree ==
    ASSUME GhostInv, ~IdleEarly, NEW i \in received + 1 .. sent, NEW e \in 0 .. BurstSize + 1,
           NEW reached \in Nat, e <= reached, NEW ok \in BOOLEAN, Reads(i, e, reached, ok)
    PROVE  GhostInv'
<1>1. /\ sent \in Nat /\ received \in Nat /\ i \in 1 .. sent /\ i > received /\ i \in Nat
      /\ taken \subseteq 1 .. received /\ BurstSize \in Nat /\ i \notin taken
      /\ NoClass \notin Classes /\ consumed \in Nat /\ IdCount \in Nat /\ e \in Nat
  BY GhostAssumption DEF GhostInv, TypeInv, TypeOK
<1>2. /\ TypeInv' /\ UNCHANGED serverVars
      /\ ready' # ready => consumed' = BurstSize + 1
  BY ReadsType DEF GhostInv, Reads
<1>3. /\ received' = i /\ sent' = sent /\ judged' = judged
      /\ taken' = IF ok THEN taken \union {i} ELSE taken
  BY TakeLinks DEF GhostInv, TypeInv, Reads
<1>4. /\ consumed <= consumed' /\ consumed' \in Nat
      /\ consumed' <= consumed \/ consumed' <= e
      /\ \A k \in consumed .. consumed' - 1 : k \in cargo[i].events /\ k < e
  <2>1. /\ consumed' = ConsumedBefore(i, e)
        /\ \A k \in cargo[i].events : k < e => NoGap(i, k)
    BY DEF Reads
  <2>2. QED
    BY <1>1, <2>1, Consumption DEF GhostInv
<1>5. Phase'
  <2>1. consumed' <= BurstSize + 1
    BY <1>1, <1>4 DEF GhostInv, Phase
  <2>2. ready # 0 => consumed' = consumed
    BY <1>1, <1>4 DEF GhostInv, Phase
  <2>3. ready' # 0 => consumed' = BurstSize + 1
    BY <1>2, <2>2 DEF GhostInv, Phase
  <2>4. normal' => ready' # 0
    <3>1. ready # 0 => ready' # 0
      BY DEF Reads, Ready
    <3>2. QED
      BY <1>2, <3>1 DEF GhostInv, Phase, serverVars
  <2>5. \A j \in 1 .. sent : BurstCargo(cargo[j]) => BurstCargo(cargo[j])'
    BY <1>2 DEF BurstCargo, serverVars
  <2>6. QED
    BY <1>2, <1>3, <2>1, <2>3, <2>4, <2>5 DEF GhostInv, Phase, serverVars
<1>6. Records'
  BY <1>1, <1>2, <1>3 DEF GhostInv, Records, serverVars, Carried, InTransit
<1>7. Loads'
  <2>1. \A j \in i + 1 .. sent : j \in received + 1 .. sent
    BY <1>1
  <2>2. QED
    BY <1>2, <1>3, <2>1 DEF GhostInv, Loads, Load, serverVars
<1>8. NeverMisread'
  BY Understanding DEF GhostInv, NeverMisread, Reads
<1>9. ASSUME NEW id \in Ids, record'[id].st = "burst" => consumed' > id
      PROVE  classes'[id] = View(record[id], NoClass)'
  <2>1. /\ record' = record /\ record[id] \in GhostInfo /\ Load(i, id) /\ id \in Nat
        /\ record[id].class = NoClass <=> record[id].st = "free"
    <3>1. id \in Nat
      BY <1>1 DEF Ids
    <3>2. QED
      BY <1>2, <3>1 DEF GhostInv, TypeInv, TypeOK, Loads, Records, serverVars
  <2>2. (record[id].st = "burst" => consumed > id) => classes[id] = View(record[id], NoClass)
    BY Viewed DEF GhostInv, TypeInv
  <2>3. View(record[id], NoClass)' = 
          CASE record[id].st \in {"burst", "live", "kill"} -> record[id].class
            [] record[id].st \in {"free", "new"} -> NoClass
            [] record[id].st = "ghosting" ->
                 IF record[id].packet \in taken' THEN record[id].class ELSE NoClass
            [] record[id].st = "killing" ->
                 IF record[id].packet \in taken' THEN NoClass ELSE record[id].class
    BY <2>1 DEF View
  <2>4. CASE record[id].st = "burst"
    <3>1. ~normal /\ BurstCargo(cargo[i]) /\ id <= BurstSize
      BY <1>1, <2>1, <2>4 DEF GhostInv, Phase, Ids
    <3>2. (id < reached /\ id \in cargo[i].scoped) \/ consumed > id
      <4>1. CASE consumed <= id
        <5>1. id \in consumed .. consumed' - 1
          BY <1>1, <1>4, <1>9, <2>1, <2>4, <4>1 DEF Ids
        <5>2. id \in cargo[i].events /\ id < e
          BY <1>4, <5>1
        <5>3. id # 0
          BY DEF Ids
        <5>4. QED
          BY <1>1, <2>1, <3>1, <5>2, <5>3 DEF BurstCargo
      <4>2. QED
        BY <1>1, <2>1, <4>1
    <3>3. id < BurstSize + 1
      BY <1>1, <2>1, <3>1
    <3>4. \A r \in {reached, BurstSize + 1} : Scoped(i, r)[id] = record[id].class
      <4>1. id \in cargo[i].scoped => cargo[i].class[id] = record[id].class
        BY <2>1 DEF Load
      <4>2. consumed > id => classes[id] = record[id].class
        BY <2>2, <2>4 DEF View
      <4>3. QED
        BY <3>2, <3>3, <4>1, <4>2 DEF Scoped
    <3>5. cargo[i].ops[id] = "none"
      BY <3>1 DEF BurstCargo
    <3>6. classes'[id] = record[id].class
      BY <3>4, <3>5 DEF Reads, Staged
    <3>7. QED
      BY <2>3, <2>4, <3>6
  <2>5. CASE record[id].st # "burst"
    <3>1. classes[id] = View(record[id], NoClass)
      BY <2>2, <2>5
    <3>2. ASSUME NEW r \in Nat, Stays(record[id], i)
          PROVE  Scoped(i, r)[id] = record[id].class
      <4>1. classes[id] = record[id].class
        BY <1>1, <2>1, <2>5, <3>1, <3>2 DEF Stays, View
      <4>2. QED
        BY <2>1, <3>2, <4>1 DEF Load, Scoped
    <3>3. ASSUME NEW r \in Nat, ~Stays(record[id], i)
          PROVE  Scoped(i, r)[id] = classes[id]
      BY <2>1, <3>3 DEF Load, Scoped
    <3>4. BurstSize + 1 \in Nat
      BY <1>1
    <3>5. \/ classes'[id] = Scoped(i, reached)[id] /\ ~ok
          \/ classes'[id] = Staged(i, Scoped(i, BurstSize + 1), id) /\ ok
      BY DEF Reads, Scoped
    <3>6. CASE record[id].st \in {"live", "kill"}
      <4>1. Stays(record[id], i)
        BY <3>6 DEF Stays
      <4>2. cargo[i].ops[id] # "create" /\ cargo[i].ops[id] # "remove"
        BY <2>1, <3>6 DEF Load
      <4>3. classes'[id] = record[id].class
        BY <3>2, <3>4, <3>5, <4>1, <4>2 DEF Staged
      <4>4. QED
        BY <2>3, <3>6, <4>3
    <3>7. CASE record[id].st \in {"free", "new"}
      <4>1. ~Stays(record[id], i)
        BY <3>7 DEF Stays
      <4>2. cargo[i].ops[id] # "create" /\ cargo[i].ops[id] # "remove"
        BY <2>1, <3>7 DEF Load
      <4>3. classes'[id] = classes[id]
        BY <3>3, <3>4, <3>5, <4>1, <4>2 DEF Staged
      <4>4. QED
        BY <2>3, <3>1, <3>7, <4>3 DEF View
    <3>8. CASE record[id].st = "ghosting"
      <4>1. ~Stays(record[id], i) /\ cargo[i].ops[id] # "remove"
        BY <2>1, <3>8 DEF Stays, Load
      <4>2. CASE record[id].packet # i
        <5>1. cargo[i].ops[id] # "create"
          BY <2>1, <4>2 DEF Load
        <5>2. classes'[id] = classes[id]
          BY <3>3, <3>4, <3>5, <4>1, <5>1 DEF Staged
        <5>3. record[id].packet \in taken' <=> record[id].packet \in taken
          BY <1>3, <4>2
        <5>4. QED
          BY <2>3, <3>1, <3>8, <5>2, <5>3 DEF View
      <4>3. CASE record[id].packet = i
        <5>1. cargo[i].ops[id] = "create" /\ cargo[i].class[id] = record[id].class
          BY <1>1, <3>8, <4>3 DEF GhostInv, Records, InTransit, Carried
        <5>2. classes[id] = NoClass
          BY <1>1, <3>1, <3>8, <4>3 DEF View
        <5>3. classes'[id] = IF ok THEN record[id].class ELSE NoClass
          BY <3>3, <3>5, <4>1, <5>1, <5>2 DEF Staged
        <5>4. record[id].packet \in taken' <=> ok
          BY <1>1, <1>3, <4>3
        <5>5. QED
          BY <2>3, <3>8, <5>3, <5>4
      <4>4. QED
        BY <4>2, <4>3
    <3>9. CASE record[id].st = "killing"
      <4>1. cargo[i].ops[id] # "create"
        BY <2>1, <3>9 DEF Load
      <4>2. CASE record[id].packet # i
        <5>1. cargo[i].ops[id] # "remove"
          BY <2>1, <4>2 DEF Load
        <5>2. classes'[id] = classes[id]
          <6>1. Stays(record[id], i) => classes[id] = record[id].class
            BY <1>1, <2>1, <3>1, <3>9 DEF Stays, View
          <6>2. QED
            BY <3>2, <3>3, <3>4, <3>5, <4>1, <5>1, <6>1 DEF Staged
        <5>3. record[id].packet \in taken' <=> record[id].packet \in taken
          BY <1>3, <4>2
        <5>4. QED
          BY <2>3, <3>1, <3>9, <5>2, <5>3 DEF View
      <4>3. CASE record[id].packet = i
        <5>1. cargo[i].ops[id] = "remove"
          BY <1>1, <3>9, <4>3 DEF GhostInv, Records, InTransit, Carried
        <5>2. classes[id] = record[id].class
          BY <1>1, <3>1, <3>9, <4>3 DEF View
        <5>3. ~Stays(record[id], i)
          BY <1>1, <3>9, <4>3 DEF Stays
        <5>4. classes'[id] = IF ok THEN NoClass ELSE record[id].class
          BY <3>3, <3>5, <5>1, <5>2, <5>3 DEF Staged
        <5>5. record[id].packet \in taken' <=> ok
          BY <1>1, <1>3, <4>3
        <5>6. QED
          BY <2>3, <3>9, <5>4, <5>5
      <4>4. QED
        BY <4>2, <4>3
    <3>10. QED
      BY <2>1, <2>5, <3>6, <3>7, <3>8, <3>9 DEF GhostInfo, GhostState
  <2>6. QED
    BY <2>4, <2>5
<1>10. ViewsAgree'
  <2>1. TypeOK'
    BY <1>2 DEF TypeInv
  <2>2. ASSUME NEW id \in Ids
        PROVE  /\ record'[id].st \in GhostState
               /\ (record'[id].st = "burst" => consumed' > id)
                    => classes'[id] = View(record[id], NoClass)'
    BY <1>9, <2>1 DEF TypeOK, GhostInfo
  <2>3. QED
    BY <2>2 DEF ViewsAgree, View, GhostState
<1>11. QED
  BY <1>2, <1>5, <1>6, <1>7, <1>8, <1>10 DEF GhostInv

-----------------------------------------------------------------------------
(* The steps of the server *)

LEMMA InitGhost == Init => GhostInv
<1> SUFFICES ASSUME Init PROVE GhostInv
  OBVIOUS
<1>1. /\ sent = 0 /\ received = 0 /\ judged = 0 /\ taken = {} /\ consumed = 0
      /\ ready = 0 /\ normal = FALSE /\ existing = 1 .. BurstSize /\ misread = FALSE
      /\ BurstSize \in Nat /\ IdCount \in Nat /\ NoClass \notin Classes
  BY GhostAssumption DEF Init, ChannelInit
<1>2. ASSUME NEW id \in Ids
      PROVE  /\ record[id].st = IF id <= BurstSize THEN "burst" ELSE "free"
             /\ record[id].class = NoClass <=> record[id].st = "free"
             /\ classes[id] = NoClass /\ id \in Nat /\ id > 0
  <2>1. record[id] \in {Free} \union [st : {"burst"}, class : Classes, packet : {0}]
    BY DEF Init
  <2>2. record[id].st = "burst" <=> id <= BurstSize
    BY DEF Init
  <2>3. classes[id] = NoClass /\ id \in Nat /\ id > 0
    BY <1>1 DEF Init, Ids
  <2>4. QED
    BY <1>1, <2>1, <2>2, <2>3 DEF Free
<1>3. Phase
  BY <1>1, <1>2 DEF Phase
<1>4. Records
  BY <1>1, <1>2 DEF Records, InTransit
<1>5. Loads
  BY <1>1 DEF Loads
<1>6. ViewsAgree
  <2>1. \A id \in Ids : \/ record[id].st = "burst" /\ ~(consumed > id)
                        \/ record[id].st = "free" /\ classes[id] = NoClass
    BY <1>1, <1>2
  <2>2. QED
    BY <2>1 DEF ViewsAgree
<1>7. QED
  BY <1>1, <1>3, <1>4, <1>5, <1>6, InitType DEF GhostInv, NeverMisread

LEMMA ScopeAgrees == GhostInv /\ (\E id \in Ids : Scope(id) \/ Unscope(id)) => GhostInv'
<1> SUFFICES ASSUME GhostInv, NEW id \in Ids, Scope(id) \/ Unscope(id) PROVE GhostInv'
  OBVIOUS
<1>1. TypeInv' /\ NeverMisread'
  BY ScopeType DEF GhostInv, Scope, Unscope, clientVars, NeverMisread
<1>2. /\ UNCHANGED <<sent, received, taken, judged, delivered, normal, cargo, consumed, classes, ready>>
      /\ existing' \subseteq existing
      /\ \A x \in Ids : x # id => record'[x] = record[x]
      /\ \A x \in Ids : record[x] \in GhostInfo
      /\ NoClass \notin Classes
  BY GhostAssumption
    DEF Scope, Unscope, chan, clientVars, GhostInv, TypeInv, TypeOK
<1>3. /\ record'[id].st # "burst" /\ record[id].st # "burst" /\ normal
      /\ record'[id].class = NoClass <=> record'[id].st = "free"
      /\ ~InTransit(record'[id]) /\ ~InTransit(record[id])
      /\ id \in existing' => record'[id].st = "live"
      /\ \A i \in Nat : Stays(record[id], i) =>
              Stays(record'[id], i) /\ record'[id].class = record[id].class
      /\ View(record'[id], NoClass) = View(record[id], NoClass)
  <2>1. CASE Scope(id)
    <3>1. PICK c \in Classes : record' = [record EXCEPT ![id] = [st |-> "new", class |-> c, packet |-> 0]]
      BY <2>1 DEF Scope
    <3>2. record'[id] = [st |-> "new", class |-> c, packet |-> 0] /\ record[id].st = "free"
      BY <2>1, <3>1 DEF Scope, GhostInv, TypeInv, TypeOK
    <3>3. id \notin existing' /\ normal
      BY <2>1, <3>2 DEF Scope, GhostInv, Records
    <3>4. QED
      BY <1>2, <3>2, <3>3 DEF InTransit, Stays, View
  <2>2. CASE Unscope(id)
    <3>1. id \notin existing' /\ record[id].st \in {"new", "live"}
      BY <2>2 DEF Unscope
    <3>2. record'[id] = IF record[id].st = "new" THEN Free ELSE [record[id] EXCEPT !.st = "kill"]
      BY <2>2 DEF Unscope, GhostInv, TypeInv, TypeOK
    <3>3. /\ record[id].st = "live" => record'[id].st = "kill" /\ record'[id].class = record[id].class
          /\ record[id].st = "new" => record'[id].st = "free" /\ record'[id].class = NoClass
      BY <1>2, <3>1, <3>2 DEF Free, GhostInfo
    <3>4. normal
      <4>1. ~normal => record[id].st = IF id <= BurstSize THEN "burst" ELSE "free"
        BY DEF GhostInv, Phase
      <4>2. QED
        BY <3>1, <4>1
    <3>5. record[id].class = NoClass <=> record[id].st = "free"
      BY DEF GhostInv, Records
    <3>6. QED
      BY <3>1, <3>3, <3>4, <3>5 DEF InTransit, Stays, View
  <2>3. QED
    BY <2>1, <2>2
<1>4. Phase'
  BY <1>2, <1>3 DEF GhostInv, Phase
<1>5. Records'
  <2>1. ASSUME NEW x \in Ids
        PROVE  /\ record'[x].class = NoClass <=> record'[x].st = "free"
               /\ x \in existing' => record'[x].st \in {"burst", "live"}
               /\ InTransit(record'[x]) =>
                    /\ record'[x].packet \in judged + 1 .. sent
                    /\ record'[x].packet > received =>
                         Carried(x, record'[x], cargo[record'[x].packet])
    BY <1>2, <1>3 DEF GhostInv, Records
  <2>2. QED
    BY <1>2, <2>1 DEF Records, InTransit, Carried
<1>6. Loads'
  <2>1. ASSUME NEW i \in received + 1 .. sent, NEW x \in Ids
        PROVE  Load(i, x)'
    <3>1. Load(i, x) /\ i \in Nat
      BY DEF GhostInv, Loads, TypeInv, TypeOK
    <3>2. CASE x # id
      BY <1>2, <3>1, <3>2 DEF Load, Stays
    <3>3. CASE x = id
      <4>1. cargo[i].ops[id] # "create" /\ cargo[i].ops[id] # "remove"
        BY <1>3, <3>1, <3>3 DEF Load, InTransit
      <4>2. Stays(record[id], i) =>
              Stays(record'[id], i) /\ record'[id].class = record[id].class
        BY <1>3, <3>1
      <4>3. QED
        BY <1>2, <3>1, <3>3, <4>1, <4>2 DEF Load, Stays
    <3>4. QED
      BY <3>2, <3>3
  <2>2. QED
    BY <1>2, <2>1 DEF Loads
<1>7. ViewsAgree'
  <2>1. TypeOK' /\ TypeOK
    BY <1>1 DEF TypeInv, GhostInv
  <2>2. \A x \in Ids : (record[x].st = "burst" => consumed > x)
                             => classes[x] = View(record[x], NoClass)
    BY <2>1, Viewed DEF GhostInv
  <2>3. ASSUME NEW x \in Ids
        PROVE  /\ record'[x].st \in GhostState
               /\ (record'[x].st = "burst" => consumed' > x)
                             => classes'[x] = View(record'[x], NoClass)
    BY <1>2, <1>3, <2>1, <2>2 DEF TypeOK, GhostInfo
  <2>4. QED
    BY <1>2, <2>3 DEF ViewsAgree, View, GhostState
<1>8. QED
  BY <1>1, <1>4, <1>5, <1>6, <1>7 DEF GhostInv

LEMMA HearReadyAgrees == GhostInv /\ HearReady => GhostInv'
<1> SUFFICES ASSUME GhostInv, HearReady PROVE GhostInv'
  OBVIOUS
<1>1. TypeInv' /\ NeverMisread'
  BY HearReadyType DEF GhostInv, HearReady, clientVars, NeverMisread
<1>2. /\ UNCHANGED <<sent, received, taken, judged, delivered, existing, cargo, consumed, classes, ready>>
      /\ ready # 0 /\ ~normal /\ normal' = TRUE /\ consumed = BurstSize + 1
      /\ NoClass \notin Classes /\ BurstSize \in Nat /\ IdCount \in Nat
  BY GhostAssumption DEF HearReady, chan, clientVars, GhostInv, Phase
<1>3. ASSUME NEW id \in Ids
      PROVE  /\ record[id].st = IF id <= BurstSize THEN "burst" ELSE "free"
             /\ record'[id].st = IF id <= BurstSize THEN "live" ELSE "free"
             /\ record'[id].class = record[id].class
             /\ record[id].st = "burst" => consumed > id
             /\ \A i \in Nat : Stays(record[id], i) => Stays(record'[id], i)
  <2>1. record[id].st = IF id <= BurstSize THEN "burst" ELSE "free"
    BY <1>2 DEF GhostInv, Phase
  <2>2. record'[id] = IF record[id].st = "burst" THEN [record[id] EXCEPT !.st = "live"] ELSE record[id]
    BY DEF HearReady
  <2>3. record[id] \in GhostInfo
    BY DEF GhostInv, TypeInv, TypeOK
  <2>4. id \in Nat /\ (id <= BurstSize => consumed > id)
    BY <1>2 DEF Ids
  <2>5. record'[id].st = IF id <= BurstSize THEN "live" ELSE "free"
    BY <2>1, <2>2, <2>3 DEF GhostInfo
  <2>6. record'[id].class = record[id].class
    BY <2>1, <2>2, <2>3 DEF GhostInfo
  <2>7. QED
    BY <2>1, <2>4, <2>5, <2>6 DEF Stays
<1>4. Phase'
  BY <1>2, <1>3 DEF GhostInv, Phase
<1>5. Records'
  BY <1>2, <1>3 DEF GhostInv, Records, InTransit
<1>6. Loads'
  <2>1. ASSUME NEW i \in received + 1 .. sent, NEW id \in Ids
        PROVE  Load(i, id)'
    <3>1. Load(i, id) /\ i \in Nat
      BY DEF GhostInv, Loads, TypeInv, TypeOK
    <3>2. cargo[i].ops[id] # "create" /\ cargo[i].ops[id] # "remove"
      BY <1>3, <3>1 DEF Load
    <3>3. Stays(record[id], i) => Stays(record'[id], i)
      BY <1>3, <3>1
    <3>4. QED
      BY <1>2, <1>3, <3>1, <3>2, <3>3 DEF Load, Stays
  <2>2. QED
    BY <1>2, <2>1 DEF Loads
<1>7. ViewsAgree'
  <2>1. \A id \in Ids : (record[id].st = "burst" => consumed > id)
                             => classes[id] = View(record[id], NoClass)
    BY Viewed DEF GhostInv, TypeInv
  <2>2. ASSUME NEW id \in Ids
        PROVE  classes[id] = IF id <= BurstSize THEN record[id].class ELSE NoClass
    BY <1>3, <2>1 DEF View
  <2>3. QED
    BY <1>2, <1>3, <2>2 DEF ViewsAgree
<1>8. QED
  BY <1>1, <1>4, <1>5, <1>6, <1>7 DEF GhostInv

\* A packet is sent: what it says of an id is what its record says.
LEMMA SendsAgree == GhostInv /\ ServerSends => GhostInv'
<1> SUFFICES ASSUME GhostInv, ServerSends PROVE GhostInv'
  OBVIOUS
<1>1. /\ sent' = sent + 1 /\ judged' = judged /\ received' = received /\ taken' = taken
      /\ delivered' = delivered
  BY SenderLinks DEF GhostInv, TypeInv, ServerSends
<1>2. TypeInv' /\ NeverMisread' /\ UNCHANGED <<existing, normal, consumed, classes, ready>>
  BY SendsType DEF GhostInv, ServerSends, clientVars, NeverMisread
<1>3. PICK control \in Live \union {0}, last \in Events,
           some \in SUBSET (IF normal THEN Writable ELSE {}) :
        LET events == {e \in waiting : e <= last}
        IN  /\ events = {} => waiting = {}
            /\ events # {} \/ some # {}
            /\ cargo' = [i \in 1 .. sent + 1 |->
                 IF i <= sent THEN cargo[i]
                 ELSE [control |-> control, events |-> events,
                       scoped |-> events \intersect existing,
                       ops |-> [id \in Ids |-> IF id \in some
                                  THEN OperationOn(record[id]) ELSE "none"],
                       class |-> [id \in Ids |-> record[id].class]]]
            /\ waiting' = waiting \ events
            /\ rides' = [e \in Events |-> IF e \in events THEN sent + 1 ELSE rides[e]]
            /\ record' = [id \in Ids |->
                 IF id \in some /\ record[id].st = "new"
                 THEN [record[id] EXCEPT !.st = "ghosting", !.packet = sent + 1]
                 ELSE IF id \in some /\ record[id].st = "kill"
                 THEN [record[id] EXCEPT !.st = "killing", !.packet = sent + 1]
                 ELSE record[id]]
  BY DEF ServerSends
<1> DEFINE load == cargo'[sent + 1]
           events == {e \in waiting : e <= last}
<1>4. /\ sent \in Nat /\ judged \in Nat /\ judged <= sent /\ received \in Nat /\ received <= sent
      /\ taken \subseteq 1 .. received
      /\ waiting \subseteq Events /\ BurstSize \in Nat /\ IdCount \in Nat /\ BurstSize <= IdCount
      /\ NoClass \notin Classes
  BY GhostAssumption DEF GhostInv, TypeInv, TypeOK
<1>5. /\ \A i \in 1 .. sent : cargo'[i] = cargo[i]
      /\ load.control = control /\ load.events = events /\ load.scoped = events \intersect existing
      /\ load.ops = [id \in Ids |-> IF id \in some THEN OperationOn(record[id]) ELSE "none"]
      /\ \A id \in Ids : load.class[id] = record[id].class
  <2> DEFINE new == [control |-> control, events |-> events,
                     scoped |-> events \intersect existing,
                     ops |-> [id \in Ids |-> IF id \in some
                                THEN OperationOn(record[id]) ELSE "none"],
                     class |-> [id \in Ids |-> record[id].class]]
  <2>1. cargo' = [i \in 1 .. sent + 1 |-> IF i <= sent THEN cargo[i] ELSE new]
    BY <1>3
  <2>2. /\ new.control = control /\ new.events = events
        /\ new.scoped = events \intersect existing
        /\ new.ops = [id \in Ids |-> IF id \in some THEN OperationOn(record[id]) ELSE "none"]
        /\ \A id \in Ids : new.class[id] = record[id].class
    OBVIOUS
  <2> HIDE DEF new, events
  <2>3. cargo'[sent + 1] = new /\ \A i \in 1 .. sent : cargo'[i] = cargo[i]
    BY <1>4, <2>1
  <2>4. QED
    BY <2>2, <2>3
<1> HIDE DEF load, events
<1>6. ASSUME NEW id \in Ids
      PROVE  /\ record[id] \in GhostInfo
             /\ record'[id].class = record[id].class
             /\ \/ /\ id \in some /\ record[id].st = "new" /\ record'[id].st = "ghosting"
                   /\ record'[id].packet = sent + 1
                \/ /\ id \in some /\ record[id].st = "kill" /\ record'[id].st = "killing"
                   /\ record'[id].packet = sent + 1
                \/ /\ record'[id] = record[id]
                   /\ id \notin some \/ record[id].st \notin {"new", "kill"}
  <2>1. record[id] \in GhostInfo
    BY DEF GhostInv, TypeInv, TypeOK
  <2>2. \/ id \in some /\ record[id].st = "new"
           /\ record'[id] = [record[id] EXCEPT !.st = "ghosting", !.packet = sent + 1]
        \/ id \in some /\ record[id].st = "kill"
           /\ record'[id] = [record[id] EXCEPT !.st = "killing", !.packet = sent + 1]
        \/ record'[id] = record[id] /\ (id \notin some \/ record[id].st \notin {"new", "kill"})
    BY <1>3
  <2>3. LET made == [record[id] EXCEPT !.st = "ghosting", !.packet = sent + 1]
        IN  made.st = "ghosting" /\ made.class = record[id].class /\ made.packet = sent + 1
    BY <2>1 DEF GhostInfo
  <2>4. LET made == [record[id] EXCEPT !.st = "killing", !.packet = sent + 1]
        IN  made.st = "killing" /\ made.class = record[id].class /\ made.packet = sent + 1
    BY <2>1 DEF GhostInfo
  <2>5. record'[id].class = record[id].class
    BY <2>2, <2>3, <2>4
  <2>6. CASE /\ id \in some /\ record[id].st = "new"
             /\ record'[id] = [record[id] EXCEPT !.st = "ghosting", !.packet = sent + 1]
    BY <2>1, <2>3, <2>5, <2>6
  <2>7. CASE /\ id \in some /\ record[id].st = "kill"
             /\ record'[id] = [record[id] EXCEPT !.st = "killing", !.packet = sent + 1]
    BY <2>1, <2>4, <2>5, <2>7
  <2>8. CASE record'[id] = record[id] /\ (id \notin some \/ record[id].st \notin {"new", "kill"})
    BY <2>1, <2>5, <2>8
  <2>9. QED
    BY <2>2, <2>6, <2>7, <2>8
<1>7. ~normal => some = {} /\ control = 0
  BY <1>3, <1>4 DEF Live, GhostInv, Phase
<1>8. Phase'
  <2>1. ASSUME ~normal
        PROVE  /\ \A id \in Ids : record'[id] = record[id]
               /\ \A i \in 1 .. sent' : BurstCargo(cargo[i])'
    <3>1. \A id \in Ids : record'[id] = record[id]
      BY <1>6, <1>7, <2>1
    <3>2. \A id \in 1 .. BurstSize : id \in Ids
      BY <1>4 DEF Ids
    <3>3. \A i \in 1 .. sent : BurstCargo(cargo[i])'
      BY <1>5, <2>1, <3>1, <3>2 DEF GhostInv, Phase, BurstCargo
    <3>4. load.control = 0 /\ load.ops = [id \in Ids |-> "none"]
      BY <1>5, <1>7, <2>1
    <3>5. load.scoped = load.events \ {0}
      <4>1. existing = 1 .. BurstSize
        BY <2>1 DEF GhostInv, Phase
      <4>2. \A e \in events : e \in existing <=> e # 0
        BY <1>4, <4>1 DEF Events, events
      <4>3. QED
        BY <1>5, <4>2
    <3>6. \A id \in 1 .. BurstSize : load.class[id] = record'[id].class
      BY <1>5, <3>1, <3>2
    <3>7. ASSUME NEW i \in 1 .. sent', i = sent + 1
          PROVE  BurstCargo(cargo[i])'
      <4>1. cargo'[i] = load
        BY <3>7 DEF load
      <4>2. QED
        BY <3>4, <3>5, <3>6, <4>1 DEF BurstCargo
    <3>8. \A i \in 1 .. sent' : i \in 1 .. sent \/ i = sent + 1
      BY <1>1, <1>4
    <3>9. QED
      BY <3>1, <3>3, <3>7, <3>8
  <2>2. normal => \A id \in Ids : record'[id].st # "burst"
    BY <1>6 DEF GhostInv, Phase
  <2>3. QED
    BY <1>1, <1>2, <2>1, <2>2 DEF GhostInv, Phase
<1>9. Records'
  <2>1. ASSUME NEW id \in Ids
        PROVE  /\ record'[id].class = NoClass <=> record'[id].st = "free"
               /\ id \in existing => record'[id].st \in {"burst", "live"}
               /\ InTransit(record'[id]) =>
                    /\ record'[id].packet \in judged + 1 .. sent + 1
                    /\ record'[id].packet > received =>
                         Carried(id, record'[id], cargo'[record'[id].packet])
    <3>1. /\ record[id].class = NoClass <=> record[id].st = "free"
          /\ id \in existing => record[id].st \in {"burst", "live"}
          /\ InTransit(record[id]) =>
               /\ record[id].packet \in judged + 1 .. sent
               /\ record[id].packet > received =>
                    Carried(id, record[id], cargo[record[id].packet])
      BY DEF GhostInv, Records
    <3>2. CASE record'[id] = record[id]
      BY <1>4, <1>5, <3>1, <3>2 DEF Carried
    <3>3. CASE record'[id].packet = sent + 1 /\ id \in some
               /\ record[id].st = "new" /\ record'[id].st = "ghosting"
      <4>1. load.ops[id] = "create" /\ load.class[id] = record'[id].class
        BY <1>5, <1>6, <3>3 DEF OperationOn
      <4>2. Carried(id, record'[id], cargo'[record'[id].packet])
        BY <3>3, <4>1 DEF Carried, load
      <4>3. QED
        BY <1>4, <1>6, <3>1, <3>3, <4>2
    <3>4. CASE record'[id].packet = sent + 1 /\ id \in some
               /\ record[id].st = "kill" /\ record'[id].st = "killing"
      <4>1. load.ops[id] = "remove"
        BY <1>5, <1>6, <3>4 DEF OperationOn
      <4>2. Carried(id, record'[id], cargo'[record'[id].packet])
        BY <3>4, <4>1 DEF Carried, load
      <4>3. QED
        BY <1>4, <1>6, <3>1, <3>4, <4>2
    <3>5. QED
      BY <1>6, <3>2, <3>3, <3>4
  <2>2. QED
    BY <1>1, <1>2, <2>1 DEF Records, InTransit, Carried
<1>10. ASSUME NEW i \in received + 1 .. sent + 1, NEW id \in Ids
       PROVE  Load(i, id)'
  <2>1. \A k \in 1 .. sent : Stays(record[id], k) => Stays(record'[id], k)
    BY <1>4, <1>6 DEF Stays
  <2>2. CASE i # sent + 1
    <3>1. i \in 1 .. sent /\ i \in received + 1 .. sent
      BY <1>4, <2>2
    <3>2. Load(i, id)
      BY <3>1 DEF GhostInv, Loads
    <3>3. cargo[i].ops[id] = "create" => record'[id] = record[id]
      BY <1>6, <3>2 DEF Load
    <3>4. cargo[i].ops[id] = "remove" => record'[id] = record[id]
      BY <1>6, <3>2 DEF Load
    <3>5. QED
      BY <1>5, <1>6, <2>1, <3>1, <3>2, <3>3, <3>4 DEF Load, Stays
  <2>3. CASE i = sent + 1
    <3>1. load.ops[id] = "create" => id \in some /\ record[id].st = "new"
      BY <1>5, <1>6 DEF OperationOn
    <3>2. load.ops[id] = "remove" => id \in some /\ record[id].st = "kill"
      BY <1>5, <1>6 DEF OperationOn
    <3>3. load.ops[id] = "update" => record[id].st = "live"
      BY <1>5, <1>6 DEF OperationOn
    <3>4. load.control = id => record[id].st = "live"
      <4>1. id # 0 /\ load.control = control
        BY <1>4, <1>5 DEF Ids
      <4>2. QED
        BY <4>1 DEF Live
    <3>5. id \in load.scoped => record[id].st \in {"burst", "live"}
      BY <1>5 DEF GhostInv, Records
    <3>6. record[id].st \in {"burst", "live"} => record'[id] = record[id]
      BY <1>6
    <3>7. load.class[id] = record'[id].class
      BY <1>5, <1>6
    <3>8. record'[id].st \in {"burst", "live"} => Stays(record'[id], i)
      BY DEF Stays
    <3>9. QED
      BY <1>6, <2>3, <3>1, <3>2, <3>3, <3>4, <3>5, <3>6, <3>7, <3>8 DEF Load, load, Stays
  <2>4. QED
    BY <2>2, <2>3
<1>11. Loads'
  BY <1>1, <1>10 DEF Loads
<1>12. ViewsAgree'
  <2>1. TypeOK' /\ TypeOK
    BY <1>2 DEF TypeInv, GhostInv
  <2>2. \A id \in Ids : (record[id].st = "burst" => consumed > id)
                             => classes[id] = View(record[id], NoClass)
    BY <2>1, Viewed DEF GhostInv
  <2>3. sent + 1 \notin taken
    BY <1>4
  <2>4. ASSUME NEW id \in Ids
        PROVE  /\ record'[id].st \in GhostState
               /\ (record'[id].st = "burst" => consumed' > id)
                             => classes'[id] = View(record'[id], NoClass)
    BY <1>2, <1>6, <2>1, <2>2, <2>3 DEF TypeOK, GhostInfo, View
  <2>5. QED
    BY <1>1, <2>4 DEF ViewsAgree, View, GhostState
<1>13. QED
  BY <1>2, <1>8, <1>9, <1>11, <1>12 DEF GhostInv

\* The verdicts move a record to where the client has gone, or back.
LEMMA NotifiedAgrees == GhostInv /\ ServerNotified => GhostInv'
<1> SUFFICES ASSUME GhostInv, ServerNotified PROVE GhostInv'
  OBVIOUS
<1>1. /\ sent' = sent /\ judged' \in judged .. received /\ received' = received
      /\ taken' = taken /\ delivered' \subseteq taken
      /\ \A i \in judged + 1 .. judged' : i \in delivered' <=> i \in taken
  BY SenderLinks DEF GhostInv, TypeInv, ServerNotified
<1>2. /\ TypeInv' /\ NeverMisread'
      /\ UNCHANGED <<existing, normal, cargo, consumed, classes, ready>>
  BY NotifiedType DEF GhostInv, ServerNotified, clientVars, NeverMisread
<1>3. /\ sent \in Nat /\ judged \in Nat /\ received \in Nat /\ judged <= received
      /\ received <= sent /\ NoClass \notin Classes
  BY GhostAssumption DEF GhostInv, TypeInv, TypeOK, Links
<1>4. ASSUME NEW id \in Ids
      PROVE  LET old == record[id]   new == record'[id]
             IN  \/ new = old /\ (InTransit(old) => old.packet > judged')
                 \/ /\ InTransit(old) /\ old.packet \in judged + 1 .. judged'
                    /\ new.packet = 0 /\ ~InTransit(new) /\ new.st # "burst"
                    /\ id \notin existing
                    /\ View(new, NoClass) = View(old, NoClass)
                    /\ new.class = NoClass <=> new.st = "free"
  <2>1. /\ record[id] \in GhostInfo /\ record'[id] = AfterVerdict(record[id])
        /\ record[id].packet # 0 => InTransit(record[id])
        /\ InTransit(record[id]) => record[id].packet \in judged + 1 .. sent
        /\ record[id].class = NoClass <=> record[id].st = "free"
    BY DEF GhostInv, TypeInv, TypeOK, Rested, Records, ServerNotified
  <2>2. CASE record[id].packet \notin 1 .. judged'
    BY <1>1, <1>3, <2>1, <2>2 DEF AfterVerdict
  <2>3. CASE record[id].packet \in 1 .. judged'
    <3>1. InTransit(record[id]) /\ record[id].packet \in judged + 1 .. judged'
      BY <1>1, <1>3, <2>1, <2>3
    <3>2. record[id].packet \in delivered' <=> record[id].packet \in taken
      BY <1>1, <3>1
    <3>3. id \notin existing
      BY <3>1 DEF GhostInv, Records, InTransit
    <3>4. \A s \in GhostState :
            /\ [record[id] EXCEPT !.st = s, !.packet = 0].st = s
            /\ [record[id] EXCEPT !.st = s, !.packet = 0].class = record[id].class
            /\ [record[id] EXCEPT !.st = s, !.packet = 0].packet = 0
      BY <2>1 DEF GhostInfo
    <3>5. "live" \in GhostState /\ "new" \in GhostState /\ "kill" \in GhostState
      BY DEF GhostState
    <3>6. CASE record[id].st = "ghosting" /\ record[id].packet \in taken
      <4>1. record'[id] = [record[id] EXCEPT !.st = "live", !.packet = 0]
        BY <2>1, <2>3, <3>2, <3>6 DEF AfterVerdict
      <4>2. /\ record'[id].st = "live" /\ record'[id].packet = 0
            /\ record'[id].class = record[id].class
        BY <3>4, <3>5, <4>1
      <4>3. QED
        BY <2>1, <3>1, <3>3, <3>6, <4>2 DEF View, InTransit
    <3>7. CASE record[id].st = "ghosting" /\ record[id].packet \notin taken
      <4>1. record'[id] = [record[id] EXCEPT !.st = "new", !.packet = 0]
        BY <2>1, <2>3, <3>2, <3>7 DEF AfterVerdict
      <4>2. /\ record'[id].st = "new" /\ record'[id].packet = 0
            /\ record'[id].class = record[id].class
        BY <3>4, <3>5, <4>1
      <4>3. QED
        BY <2>1, <3>1, <3>3, <3>7, <4>2 DEF View, InTransit
    <3>8. CASE record[id].st = "killing" /\ record[id].packet \in taken
      <4>1. record'[id] = Free
        BY <2>1, <2>3, <3>2, <3>8 DEF AfterVerdict
      <4>2. QED
        BY <2>1, <3>1, <3>3, <3>8, <4>1 DEF View, InTransit, Free
    <3>9. CASE record[id].st = "killing" /\ record[id].packet \notin taken
      <4>1. record'[id] = [record[id] EXCEPT !.st = "kill", !.packet = 0]
        BY <2>1, <2>3, <3>2, <3>9 DEF AfterVerdict
      <4>2. /\ record'[id].st = "kill" /\ record'[id].packet = 0
            /\ record'[id].class = record[id].class
        BY <3>4, <3>5, <4>1
      <4>3. QED
        BY <2>1, <3>1, <3>3, <3>9, <4>2 DEF View, InTransit
    <3>10. QED
      BY <3>1, <3>6, <3>7, <3>8, <3>9 DEF InTransit
  <2>4. QED
    BY <2>2, <2>3
<1>5. Phase'
  <2>1. ~normal => \A id \in Ids : record'[id] = record[id]
    <3>1. ASSUME ~normal, NEW id \in Ids
          PROVE  ~InTransit(record[id])
      BY <3>1 DEF GhostInv, Phase, InTransit
    <3>2. QED
      BY <1>4, <3>1
  <2>2. normal => \A id \in Ids : record'[id].st # "burst"
    BY <1>4 DEF GhostInv, Phase
  <2>3. \A id \in 1 .. BurstSize : id \in Ids
    BY GhostAssumption DEF Ids
  <2>4. QED
    BY <1>1, <1>2, <2>1, <2>2, <2>3 DEF GhostInv, Phase, BurstCargo
<1>6. Records'
  <2>1. ASSUME NEW id \in Ids
        PROVE  /\ record'[id].class = NoClass <=> record'[id].st = "free"
               /\ id \in existing => record'[id].st \in {"burst", "live"}
               /\ InTransit(record'[id]) =>
                    /\ record'[id].packet \in judged' + 1 .. sent
                    /\ record'[id].packet > received =>
                         Carried(id, record'[id], cargo[record'[id].packet])
    BY <1>1, <1>3, <1>4 DEF GhostInv, Records
  <2>2. QED
    BY <1>1, <1>2, <2>1 DEF Records, InTransit, Carried
<1>7. Loads'
  <2>1. ASSUME NEW i \in received + 1 .. sent, NEW id \in Ids
        PROVE  Load(i, id)'
    <3>1. Load(i, id)
      BY DEF GhostInv, Loads
    <3>2. CASE record'[id] = record[id]
      BY <1>2, <3>1, <3>2 DEF Load, Stays
    <3>3. CASE InTransit(record[id]) /\ record[id].packet \in judged + 1 .. judged'
      <4>1. record[id].packet < i
        BY <1>1, <1>3, <3>3
      <4>2. /\ ~Stays(record[id], i) /\ cargo[i].ops[id] # "create"
            /\ cargo[i].ops[id] # "remove"
        BY <1>1, <1>3, <3>1, <3>3, <4>1 DEF Stays, Load, InTransit
      <4>3. QED
        BY <1>2, <3>1, <4>2 DEF Load
    <3>4. QED
      BY <1>4, <3>2, <3>3
  <2>2. QED
    BY <1>1, <2>1 DEF Loads
<1>8. ViewsAgree'
  <2>1. TypeOK' /\ TypeOK
    BY <1>2 DEF TypeInv, GhostInv
  <2>2. \A id \in Ids : (record[id].st = "burst" => consumed > id)
                             => classes[id] = View(record[id], NoClass)
    BY <2>1, Viewed DEF GhostInv
  <2>3. ASSUME NEW id \in Ids
        PROVE  /\ record'[id].st \in GhostState
               /\ (record'[id].st = "burst" => consumed' > id)
                             => classes'[id] = View(record'[id], NoClass)
    BY <1>2, <1>4, <2>1, <2>2 DEF TypeOK, GhostInfo, InTransit
  <2>4. QED
    BY <1>1, <2>3 DEF ViewsAgree, View, GhostState
<1>9. QED
  BY <1>2, <1>5, <1>6, <1>7, <1>8 DEF GhostInv

LEMMA NextGhost == ~IdleEarly /\ GhostInv /\ [Next]_vars => GhostInv'
<1> SUFFICES ASSUME ~IdleEarly, GhostInv, [Next]_vars PROVE GhostInv'
  OBVIOUS
<1>1. CASE UNCHANGED vars
  <2>1. TypeInv'
    BY <1>1, NextType DEF GhostInv
  <2>2. Phase'
    BY <1>1 DEF vars, chan, serverVars, clientVars, GhostInv, Phase, BurstCargo
  <2>3. Records'
    BY <1>1 DEF vars, chan, serverVars, clientVars, GhostInv, Records, InTransit, Carried
  <2>4. Loads'
    BY <1>1 DEF vars, chan, serverVars, clientVars, GhostInv, Loads, Load, Stays
  <2>5. ViewsAgree' /\ NeverMisread'
    BY <1>1 DEF vars, chan, serverVars, clientVars, GhostInv, ViewsAgree, NeverMisread
  <2>6. QED
    BY <2>1, <2>2, <2>3, <2>4, <2>5 DEF GhostInv
<1>2. ASSUME NEW i \in received + 1 .. sent,
             (\E e \in Events : FailInEvents(i, e)) \/ FailInGhosts(i) \/ Commit(i)
      PROVE  GhostInv'
  <2>1. PICK e \in 0 .. BurstSize + 1, reached \in Nat, ok \in BOOLEAN :
               e <= reached /\ Reads(i, e, reached, ok)
    BY <1>2, ReadsCases DEF GhostInv
  <2>2. QED
    BY <2>1, ReadsAgree
<1>3. QED
  BY <1>1, <1>2, ScopeAgrees, SendsAgree, NotifiedAgrees, HearReadyAgrees DEF Next

LEMMA GhostInvariant == ~IdleEarly => (Spec => []GhostInv)
<1> SUFFICES ASSUME ~IdleEarly PROVE Spec => []GhostInv
  OBVIOUS
<1>1. GhostInv /\ [Next]_vars => GhostInv'
  BY NextGhost
<1>2. QED
  BY <1>1, InitGhost, PTL DEF Spec

\* NeverMisread, when the burst does not fall silent early: whatever is lost,
\* fails to decode half-way or is sent again, no update is taken for a creation
\* and no creation for an update (phases.py 692-736, the staging of the ghost
\* section, and netconn.py 568-577, the NACK).
THEOREM NeverMisreadHolds == ~IdleEarly => (Spec => []NeverMisread)
<1> SUFFICES ASSUME ~IdleEarly PROVE Spec => []NeverMisread
  OBVIOUS
<1>1. GhostInv => NeverMisread
  BY DEF GhostInv
<1>2. QED
  BY <1>1, GhostInvariant, PTL

\* ViewsAgree under the same hypothesis: the client's table is what the server
\* must think it is, for every id at every moment (phases.py 738-747).
THEOREM ViewsAgreeHolds == ~IdleEarly => (Spec => []ViewsAgree)
<1> SUFFICES ASSUME ~IdleEarly PROVE Spec => []ViewsAgree
  OBVIOUS
<1>1. GhostInv => ViewsAgree
  BY DEF GhostInv
<1>2. QED
  BY <1>1, GhostInvariant, PTL

-----------------------------------------------------------------------------
(* The registry *)

\* The registry only watches.
LEMMA RegistryWatches == RegistrySpec => Spec
<1>1. RegistryInit => Init
  BY DEF RegistryInit
<1>2. [RegistryNext]_<<vars, registryVars>> => [Next]_vars
  BY DEF RegistryNext, Next, RegistryFailInEvents, RegistryFailInGhosts, RegistryCommit
<1>3. QED
  BY <1>1, <1>2, PTL DEF RegistrySpec, Spec

ObjectInfo == [scoped : BOOLEAN, class : Classes \union {NoClass}, self : BOOLEAN]

RegistryTyped(r) == r.objects \in [Ids -> ObjectInfo] /\ r.control \in Ids \union {0}

\* What r lists is in the table, as what it is; the control object is listed.
Faithful(r, table) ==
    /\ \A id \in Ids : r.objects[id].scoped =>
         table[id] # NoClass /\ r.objects[id].class = table[id]
    /\ r.control # 0 => r.objects[r.control].scoped /\ r.objects[r.control].self

\* r lists what is in the table, but for objects of the burst not consumed.
Lists(r, table, n) ==
    \A id \in Ids : table[id] # NoClass /\ ~(id <= BurstSize /\ n <= id) => r.objects[id].scoped

\* Even before its event is consumed an object of the burst is known as what it is.
Known ==
    \A id \in Ids : record[id].st = "burst" /\ classes[id] # NoClass
                     => classes[id] = record[id].class

Shown == [objects |-> objects, control |-> controlGhost]
RegistryInv ==
    /\ GhostInv /\ Known
    /\ RegistryTyped(Shown) /\ Faithful(Shown, classes) /\ Lists(Shown, classes, consumed)

LEMMA HeaderShown ==
    ASSUME NEW i, NEW n \in Nat, NEW r, RegistryTyped(r), Faithful(r, classes), Lists(r, classes, n),
           cargo[i].control \in Ids \union {0},
           cargo[i].control # 0 => classes[cargo[i].control] \in Classes,
           NoClass \notin Classes
    PROVE  LET s == AfterHeader(i, r)
           IN  RegistryTyped(s) /\ Faithful(s, classes) /\ Lists(s, classes, n)
<1> DEFINE id == cargo[i].control   s == AfterHeader(i, r)
<1>1. CASE id = 0
  BY <1>1 DEF AfterHeader
<1>2. CASE id # 0
  <2>1. id \in Ids /\ classes[id] \in Classes
    BY <1>2
  <2> DEFINE info == Updated(r.objects[id], classes[id])
             q == [r EXCEPT !.objects[id] = Updated(@, classes[id])]
  <2>2. r.objects[id] \in ObjectInfo
    BY <2>1 DEF RegistryTyped
  <2>3. q.objects = [r.objects EXCEPT ![id] = info] /\ q.control = r.control
    BY <2>1 DEF RegistryTyped
  <2>4. s = SetControl(q, id)
    BY <1>2 DEF AfterHeader
  <2>5. info \in ObjectInfo /\ info.scoped /\ info.class = classes[id] /\ info # NoRecord
    <3>1. info = [r.objects[id] EXCEPT !.scoped = TRUE, !.class = classes[id]]
      BY DEF Updated
    <3> HIDE DEF info
    <3>2. info \in ObjectInfo /\ info.scoped /\ info.class = classes[id]
      BY <2>1, <2>2, <3>1 DEF ObjectInfo
    <3>3. QED
      BY <3>2 DEF NoRecord
  <2> HIDE DEF info, q
  <2>6. q.objects \in [Ids -> ObjectInfo]
    BY <2>1, <2>3, <2>5 DEF RegistryTyped
  <2>7. /\ s.control = id
        /\ s.objects = [x \in Ids |-> [q.objects[x] EXCEPT !.self =
                          IF x = id THEN q.objects[x] # NoRecord ELSE @ /\ x # q.control]]
    BY <2>4 DEF SetControl
  <2>8. ASSUME NEW x \in Ids
        PROVE  /\ s.objects[x] \in ObjectInfo
               /\ s.objects[x].scoped = q.objects[x].scoped
               /\ s.objects[x].class = q.objects[x].class
               /\ x = id => s.objects[x].self
    <3>1. q.objects[x] \in ObjectInfo /\ (x = id => q.objects[x] # NoRecord)
      BY <2>1, <2>3, <2>5, <2>6 DEF RegistryTyped
    <3>2. s.objects[x] = [q.objects[x] EXCEPT !.self =
                          IF x = id THEN q.objects[x] # NoRecord
                          ELSE q.objects[x].self /\ x # q.control]
      BY <2>7
    <3>3. QED
      BY <3>1, <3>2 DEF ObjectInfo
  <2>9. RegistryTyped(s)
    BY <2>1, <2>7, <2>8 DEF RegistryTyped
  <2>10. Faithful(s, classes)
    <3>1. ASSUME NEW x \in Ids, s.objects[x].scoped
          PROVE  classes[x] # NoClass /\ s.objects[x].class = classes[x]
      <4>1. CASE x = id
        BY <2>1, <2>3, <2>5, <2>8, <4>1 DEF RegistryTyped
      <4>2. CASE x # id
        <5>1. q.objects[x] = r.objects[x]
          BY <2>3, <4>2
        <5>2. QED
          BY <2>8, <3>1, <5>1 DEF Faithful
      <4>3. QED
        BY <4>1, <4>2
    <3>2. s.objects[id].scoped /\ s.objects[id].self
      BY <2>1, <2>3, <2>5, <2>8 DEF RegistryTyped
    <3>3. QED
      BY <2>7, <3>1, <3>2 DEF Faithful
  <2>11. Lists(s, classes, n)
    BY <2>1, <2>3, <2>5, <2>8 DEF Lists, RegistryTyped
  <2>12. QED
    BY <2>9, <2>10, <2>11
<1>3. QED
  BY <1>1, <1>2

LEMMA ObjectsShown ==
    ASSUME NEW i, NEW last \in Nat, NEW r, RegistryTyped(r), Faithful(r, classes),
           Lists(r, classes, consumed), consumed \in Nat, NEW n \in Nat,
           \A id \in Ids : id \in cargo[i].scoped => cargo[i].class[id] \in Classes,
           \A id \in Ids : consumed <= id /\ id < n => id <= last /\ id \in cargo[i].scoped,
           NoClass \notin Classes
    PROVE  LET s == AfterObjects(i, r, last)
           IN  /\ RegistryTyped(s) /\ Faithful(s, Scoped(i, last + 1))
               /\ Lists(s, Scoped(i, last + 1), n)
<1> DEFINE s == AfterObjects(i, r, last)   table == Scoped(i, last + 1)
<1>1. /\ s.control = r.control
      /\ s.objects = [id \in Ids |-> IF id <= last /\ id \in cargo[i].scoped
                                   THEN Updated(r.objects[id], cargo[i].class[id])
                                   ELSE r.objects[id]]
  BY DEF AfterObjects, RegistryTyped
<1>2. table = [id \in Ids |-> IF id < last + 1 /\ id \in cargo[i].scoped
                              THEN cargo[i].class[id] ELSE classes[id]]
  BY DEF Scoped
<1>3. \A id \in Ids : id \in Nat /\ (id < last + 1 <=> id <= last)
  BY GhostAssumption DEF Ids
<1> HIDE DEF s, table
<1>4. ASSUME NEW id \in Ids
      PROVE  /\ s.objects[id] \in ObjectInfo /\ s.objects[id].self = r.objects[id].self
             /\ IF id <= last /\ id \in cargo[i].scoped
                THEN /\ s.objects[id].scoped /\ s.objects[id].class = cargo[i].class[id]
                     /\ table[id] = cargo[i].class[id] /\ table[id] \in Classes
                ELSE s.objects[id] = r.objects[id] /\ table[id] = classes[id]
  <2>1. r.objects[id] \in ObjectInfo
    BY DEF RegistryTyped
  <2>2. CASE id <= last /\ id \in cargo[i].scoped
    <3>1. s.objects[id] = [r.objects[id] EXCEPT !.scoped = TRUE, !.class = cargo[i].class[id]]
      BY <1>1, <2>2 DEF Updated
    <3>2. cargo[i].class[id] \in Classes /\ table[id] = cargo[i].class[id]
      BY <1>2, <1>3, <2>2
    <3>3. QED
      BY <2>1, <2>2, <3>1, <3>2 DEF ObjectInfo
  <2>3. CASE ~(id <= last /\ id \in cargo[i].scoped)
    BY <1>1, <1>2, <1>3, <2>1, <2>3
  <2>4. QED
    BY <2>2, <2>3
<1>5. RegistryTyped(s)
  BY <1>1, <1>4 DEF RegistryTyped
<1>6. Faithful(s, table)
  BY <1>1, <1>4 DEF Faithful, RegistryTyped
<1>7. Lists(s, table, n)
  <2> SUFFICES ASSUME NEW id \in Ids, table[id] # NoClass, ~(id <= BurstSize /\ n <= id)
               PROVE  s.objects[id].scoped
    BY DEF Lists
  <2>1. CASE id <= last /\ id \in cargo[i].scoped
    BY <1>4, <2>1
  <2>2. CASE ~(id <= last /\ id \in cargo[i].scoped)
    <3>1. classes[id] # NoClass /\ s.objects[id] = r.objects[id]
      BY <1>4, <2>2
    <3>2. ~(id <= BurstSize /\ consumed <= id)
      BY <1>3, <2>2
    <3>3. QED
      BY <3>1, <3>2 DEF Lists
  <2>3. QED
    BY <2>1, <2>2
<1>8. QED
  BY <1>5, <1>6, <1>7 DEF s, table

LEMMA SectionShown ==
    ASSUME NEW i, NEW n \in Nat, NEW r, RegistryTyped(r),
           Faithful(r, Scoped(i, BurstSize + 1)), Lists(r, Scoped(i, BurstSize + 1), n),
           cargo[i].ops \in [Ids -> Operation],
           \A id \in Ids : cargo[i].ops[id] = "create" => cargo[i].class[id] \in Classes,
           \A id \in Ids : cargo[i].ops[id] = "update" =>
                               Scoped(i, BurstSize + 1)[id] # NoClass,
           Scoped(i, BurstSize + 1) \in [Ids -> Classes \union {NoClass}],
           0 \notin Ids, NoClass \notin Classes
    PROVE  LET s == AfterSection(i, r)
               table == [id \in Ids |-> Staged(i, Scoped(i, BurstSize + 1), id)]
           IN  RegistryTyped(s) /\ Faithful(s, table) /\ Lists(s, table, n)
<1> DEFINE s == AfterSection(i, r)   before == Scoped(i, BurstSize + 1)
           table == [id \in Ids |-> Staged(i, before, id)]
           touched == {id \in Ids : cargo[i].ops[id] \in {"create", "update"}}
           named == headerGhost' \in touched
           old == IF r.control \in Removed(i) /\ r.control < headerGhost' THEN 0 ELSE r.control
<1>1. /\ s.objects = [id \in Ids |->
             [scoped |-> (r.objects[id].scoped \/ id \in touched) /\ id \notin Removed(i),
              class |-> IF id \notin touched THEN r.objects[id].class
                        ELSE Staged(i, before, id),
              self |-> \/ named /\ id = headerGhost'
                       \/ r.objects[id].self /\ ~(named /\ id = old)]]
      /\ s.control = IF named THEN headerGhost'
                     ELSE IF r.control \in Removed(i) THEN 0 ELSE r.control
  BY DEF AfterSection
<1> HIDE DEF s
<1> DEFINE sc(id) == (r.objects[id].scoped \/ id \in touched) /\ id \notin Removed(i)
           sf(id) == \/ named /\ id = headerGhost'
                     \/ r.objects[id].self /\ ~(named /\ id = old)
           cl(id) == IF id \notin touched THEN r.objects[id].class ELSE table[id]
<1>2. ASSUME NEW id \in Ids
      PROVE  /\ s.objects[id] = [scoped |-> sc(id), class |-> cl(id), self |-> sf(id)]
             /\ s.objects[id].scoped <=> sc(id)
             /\ s.objects[id].class = cl(id)
             /\ s.objects[id].self <=> sf(id)
             /\ sc(id) \in BOOLEAN /\ sf(id) \in BOOLEAN
  <2>1. s.objects[id] = [scoped |-> sc(id), class |-> cl(id), self |-> sf(id)]
    BY <1>1
  <2>2. sc(id) \in BOOLEAN /\ sf(id) \in BOOLEAN
    OBVIOUS
  <2> HIDE DEF sc, sf, cl
  <2>3. QED
    BY <2>1, <2>2
<1>3. ASSUME NEW id \in Ids
      PROVE  /\ id \in touched => table[id] \in Classes /\ id \notin Removed(i)
             /\ id \in Removed(i) => table[id] = NoClass
             /\ id \notin touched /\ id \notin Removed(i) => table[id] = before[id]
             /\ table[id] \in Classes \union {NoClass}
  <2>1. before[id] \in Classes \union {NoClass}
    OBVIOUS
  <2> HIDE DEF before
  <2>2. /\ cargo[i].ops[id] = "create" => cargo[i].class[id] \in Classes
        /\ cargo[i].ops[id] = "update" => before[id] # NoClass
    BY DEF before
  <2>3. table[id] = Staged(i, before, id)
    OBVIOUS
  <2>4. CASE cargo[i].ops[id] = "create"
    BY <2>1, <2>2, <2>3, <2>4 DEF Staged, Removed
  <2>5. CASE cargo[i].ops[id] = "remove"
    BY <2>1, <2>2, <2>3, <2>5 DEF Staged, Removed
  <2>6. CASE cargo[i].ops[id] \in {"none", "update"}
    BY <2>1, <2>2, <2>3, <2>6 DEF Staged, Removed
  <2>7. QED
    BY <2>4, <2>5, <2>6 DEF Operation
<1> HIDE DEF table
<1>4. RegistryTyped(s)
  <2>1. ASSUME NEW id \in Ids
        PROVE  s.objects[id] \in ObjectInfo
    <3>1. r.objects[id] \in ObjectInfo
      BY DEF RegistryTyped
    <3>2. cl(id) \in Classes \union {NoClass}
      BY <1>3, <3>1 DEF ObjectInfo
    <3>3. \A x, y \in BOOLEAN : [scoped |-> x, class |-> cl(id), self |-> y] \in ObjectInfo
      BY <3>2 DEF ObjectInfo
    <3> HIDE DEF sc, sf, cl
    <3>4. /\ s.objects[id] = [scoped |-> sc(id), class |-> cl(id), self |-> sf(id)]
          /\ sc(id) \in BOOLEAN /\ sf(id) \in BOOLEAN
      BY <1>2
    <3>5. QED
      BY <3>3, <3>4
  <2>2. s.control \in Ids \union {0}
    BY <1>1 DEF RegistryTyped
  <2>3. QED
    BY <1>1, <2>1, <2>2 DEF RegistryTyped
<1>5. Faithful(s, table)
  <2>1. ASSUME NEW id \in Ids, s.objects[id].scoped
        PROVE  table[id] # NoClass /\ s.objects[id].class = table[id]
    <3>1. id \notin Removed(i) /\ (r.objects[id].scoped \/ id \in touched)
      BY <1>2, <2>1
    <3>2. CASE id \in touched
      <4>1. s.objects[id].class = cl(id)
        BY <1>2
      <4>2. cl(id) = table[id] /\ table[id] \in Classes
        BY <1>3, <3>2
      <4>3. QED
        BY <4>1, <4>2
    <3>3. CASE id \notin touched
      <4>1. r.objects[id].scoped /\ table[id] = before[id] /\ s.objects[id].class = r.objects[id].class
        BY <1>2, <1>3, <3>1, <3>3
      <4>2. before[id] # NoClass /\ r.objects[id].class = before[id]
        BY <4>1 DEF Faithful
      <4>3. QED
        BY <4>1, <4>2
    <3>4. QED
      BY <3>2, <3>3
  <2>2. s.control # 0 => s.objects[s.control].scoped /\ s.objects[s.control].self
    <3>1. CASE named
      <4>1. /\ headerGhost' \in Ids /\ s.control = headerGhost'
            /\ headerGhost' \in touched /\ headerGhost' \notin Removed(i)
        BY <1>1, <1>3, <3>1
      <4>2. sc(headerGhost') /\ sf(headerGhost')
        BY <3>1, <4>1
      <4> HIDE DEF sc, sf, cl
      <4>3. QED
        BY <1>2, <4>1, <4>2
    <3>2. CASE ~named
      <4>1. CASE r.control \in Removed(i) \/ r.control = 0
        BY <1>1, <3>2, <4>1
      <4>2. CASE r.control \notin Removed(i) /\ r.control # 0
        <5>1. r.control \in Ids /\ s.control = r.control
          BY <1>1, <3>2, <4>2 DEF RegistryTyped
        <5>2. r.objects[r.control].scoped /\ r.objects[r.control].self
          BY <4>2 DEF Faithful
        <5>3. QED
          BY <1>2, <3>2, <4>2, <5>1, <5>2
      <4>3. QED
        BY <4>1, <4>2
    <3>3. QED
      BY <3>1, <3>2
  <2>3. QED
    BY <2>1, <2>2 DEF Faithful
<1>6. Lists(s, table, n)
  <2> SUFFICES ASSUME NEW id \in Ids, table[id] # NoClass, ~(id <= BurstSize /\ n <= id)
               PROVE  s.objects[id].scoped
    BY DEF Lists
  <2>1. id \notin Removed(i)
    BY <1>3
  <2>2. id \notin touched => r.objects[id].scoped
    <3>1. id \notin touched => before[id] # NoClass
      BY <1>3, <2>1
    <3>2. QED
      BY <3>1 DEF Lists
  <2>3. QED
    BY <1>2, <2>1, <2>2
<1>7. QED
  BY <1>4, <1>5, <1>6 DEF s, table

\* What a packet to come says is true, and understood.
LEMMA Truthful ==
    ASSUME RegistryInv, NEW i \in received + 1 .. sent
    PROVE  /\ i \in 1 .. sent /\ cargo[i] \in Cargo
           /\ cargo[i].control # 0 => classes[cargo[i].control] \in Classes
           /\ Understood(i)
           /\ \A id \in Ids :
                /\ cargo[i].ops[id] = "create" => cargo[i].class[id] \in Classes
                /\ id \in cargo[i].scoped =>
                     /\ cargo[i].class[id] \in Classes
                     /\ classes[id] # NoClass => classes[id] = cargo[i].class[id]
                     /\ consumed > id \/ record[id].st # "burst" => classes[id] # NoClass
                /\ record[id].st = "burst" => BurstCargo(cargo[i])
                /\ id \in Nat /\ (id <= BurstSize /\ ~normal => BurstCargo(cargo[i]))
<1>1. /\ sent \in Nat /\ received \in Nat /\ i \in 1 .. sent /\ i > received
      /\ taken \subseteq 1 .. received /\ IdCount \in Nat /\ NoClass \notin Classes
  BY GhostAssumption DEF RegistryInv, GhostInv, TypeInv, TypeOK
<1>2. cargo[i] \in Cargo /\ Understood(i)
  BY <1>1, Understanding DEF RegistryInv, GhostInv, TypeInv, TypeOK
<1>3. cargo[i].control # 0 => classes[cargo[i].control] \in Classes
  BY <1>2 DEF RegistryInv, GhostInv, TypeInv, TypeOK, Cargo, Understood
<1>4. ASSUME NEW id \in Ids
      PROVE  /\ cargo[i].ops[id] = "create" => cargo[i].class[id] \in Classes
             /\ id \in cargo[i].scoped =>
                  /\ cargo[i].class[id] \in Classes
                  /\ classes[id] # NoClass => classes[id] = cargo[i].class[id]
                  /\ consumed > id \/ record[id].st # "burst" => classes[id] # NoClass
             /\ record[id].st = "burst" => BurstCargo(cargo[i])
             /\ id \in Nat /\ (id <= BurstSize /\ ~normal => BurstCargo(cargo[i]))
  <2>1. /\ record[id] \in GhostInfo /\ Load(i, id) /\ id \in Nat
        /\ record[id].class = NoClass <=> record[id].st = "free"
    BY <1>1 DEF RegistryInv, GhostInv, TypeInv, TypeOK, Loads, Records, Ids
  <2>2. (record[id].st = "burst" => consumed > id) => classes[id] = View(record[id], NoClass)
    BY Viewed DEF RegistryInv, GhostInv, TypeInv
  <2>3. cargo[i].ops[id] = "create" => cargo[i].class[id] \in Classes
    <3>1. cargo[i].ops[id] = "create" => Carried(id, record[id], cargo[i]) /\ record[id].st = "ghosting"
      BY <1>1, <2>1 DEF RegistryInv, GhostInv, Records, Load, InTransit
    <3>2. QED
      BY <2>1, <3>1 DEF Carried, GhostInfo
  <2>4. ASSUME id \in cargo[i].scoped
        PROVE  /\ cargo[i].class[id] \in Classes
               /\ classes[id] # NoClass => classes[id] = cargo[i].class[id]
               /\ consumed > id \/ record[id].st # "burst" => classes[id] # NoClass
    <3>1. Stays(record[id], i) /\ cargo[i].class[id] = record[id].class
      BY <2>1, <2>4 DEF Load
    <3>2. record[id].class \in Classes
      BY <2>1, <3>1 DEF Stays, GhostInfo
    <3>3. consumed > id \/ record[id].st # "burst" => classes[id] = record[id].class
      BY <1>1, <2>1, <2>2, <3>1 DEF Stays, View
    <3>4. record[id].st = "burst" /\ classes[id] # NoClass => classes[id] = record[id].class
      BY DEF RegistryInv, Known
    <3>5. QED
      BY <1>1, <3>1, <3>2, <3>3, <3>4
  <2>5. ~normal => BurstCargo(cargo[i])
    BY <1>1 DEF RegistryInv, GhostInv, Phase
  <2>6. record[id].st = "burst" => ~normal
    BY DEF RegistryInv, GhostInv, Phase
  <2>7. QED
    BY <2>1, <2>3, <2>4, <2>5, <2>6
<1>5. QED
  BY <1>1, <1>2, <1>3, <1>4

\* What the registry shows when the events before last + 1 have been read.
LEMMA UpToShown ==
    ASSUME RegistryInv, NEW i \in received + 1 .. sent, NEW last \in Nat, NEW n \in Nat,
           \A k \in consumed .. n - 1 : k \in cargo[i].events /\ k <= last,
           n <= BurstSize + 1
    PROVE  LET s == UpToGhosts(i, last)
           IN  /\ RegistryTyped(s) /\ Faithful(s, Scoped(i, last + 1))
               /\ Lists(s, Scoped(i, last + 1), n)
<1>1. /\ cargo[i] \in Cargo /\ NoClass \notin Classes /\ consumed \in Nat /\ BurstSize \in Nat
      /\ IdCount \in Nat
  BY Truthful, GhostAssumption DEF RegistryInv, GhostInv, TypeInv, TypeOK
<1> DEFINE h == AfterHeader(i, Shown)
<1>2. RegistryTyped(h) /\ Faithful(h, classes) /\ Lists(h, classes, consumed)
  <2>1. cargo[i].control \in Ids \union {0}
    BY <1>1 DEF Cargo
  <2>2. cargo[i].control # 0 => classes[cargo[i].control] \in Classes
    BY Truthful
  <2>3. QED
    BY <1>1, <2>1, <2>2, HeaderShown DEF RegistryInv
<1>3. \A id \in Ids : id \in cargo[i].scoped => cargo[i].class[id] \in Classes
  BY Truthful
<1>4. ASSUME NEW id \in Ids, consumed <= id, id < n
      PROVE  id <= last /\ id \in cargo[i].scoped
  <2>1. id \in consumed .. n - 1 /\ id \in Nat /\ id # 0
    BY <1>1, <1>4 DEF Ids
  <2>2. id \in cargo[i].events /\ id <= last
    BY <2>1
  <2>3. ~normal /\ id <= BurstSize
    BY <1>1, <1>4, <2>1 DEF RegistryInv, GhostInv, Phase
  <2>4. BurstCargo(cargo[i])
    BY <2>3, Truthful
  <2>5. QED
    BY <2>1, <2>2, <2>4 DEF BurstCargo
<1>5. UpToGhosts(i, last) = AfterObjects(i, h, last)
  BY DEF UpToGhosts, Shown
<1> HIDE DEF h
<1>6. QED
  BY <1>1, <1>2, <1>3, <1>4, <1>5, ObjectsShown

\* The table tells of an object of the burst what it is, or nothing.
LEMMA KnownStep ==
    ASSUME GhostInv, Known, [Next]_vars
    PROVE  Known'
<1>1. CASE UNCHANGED vars
  BY <1>1 DEF vars, serverVars, clientVars, Known
<1>2. ASSUME NEW i \in received + 1 .. sent,
             (\E e \in Events : FailInEvents(i, e)) \/ FailInGhosts(i) \/ Commit(i)
      PROVE  Known'
  <2>1. PICK e \in 0 .. BurstSize + 1, reached \in Nat, ok \in BOOLEAN :
               e <= reached /\ Reads(i, e, reached, ok)
    BY <1>2, ReadsCases DEF GhostInv
  <2>2. i \in 1 .. sent
    BY DEF GhostInv, TypeInv, TypeOK
  <2>3. record' = record
    BY <2>1 DEF Reads, serverVars
  <2>4. ASSUME NEW id \in Ids, record[id].st = "burst", classes'[id] # NoClass
        PROVE  classes'[id] = record[id].class
    <3>1. cargo[i].ops[id] = "none"
      BY <2>2, <2>4 DEF GhostInv, Phase, BurstCargo
    <3>2. id \in cargo[i].scoped => cargo[i].class[id] = record[id].class
      BY DEF GhostInv, Loads, Load
    <3>3. \A r \in {reached, BurstSize + 1} : Scoped(i, r)[id] \in {classes[id], record[id].class}
      BY <3>2 DEF Scoped
    <3>4. classes'[id] \in {classes[id], record[id].class}
      <4>1. CASE ok
        BY <2>1, <3>1, <3>3, <4>1 DEF Reads, Staged
      <4>2. CASE ~ok
        BY <2>1, <3>3, <4>2 DEF Reads
      <4>3. QED
        BY <4>1, <4>2
    <3>5. QED
      BY <2>4, <3>4 DEF Known
  <2>5. QED
    BY <2>3, <2>4 DEF Known
<1>3. ASSUME NEW id \in Ids, Scope(id) \/ Unscope(id)
      PROVE  Known'
  <2>1. classes' = classes /\ \A x \in Ids : x # id => record'[x] = record[x]
    BY <1>3 DEF Scope, Unscope, clientVars, GhostInv, TypeInv, TypeOK
  <2>2. record'[id].st # "burst"
    <3>1. CASE Scope(id)
      BY <3>1 DEF Scope, GhostInv, TypeInv, TypeOK
    <3>2. CASE Unscope(id)
      BY <3>2 DEF Unscope, GhostInv, TypeInv, TypeOK, Free, GhostInfo
    <3>3. QED
      BY <1>3, <3>1, <3>2
  <2>3. QED
    BY <2>1, <2>2 DEF Known
<1>4. ASSUME ServerSends
      PROVE  Known'
  <2>1. classes' = classes
    BY <1>4 DEF ServerSends, clientVars
  <2>2. ASSUME NEW id \in Ids, record'[id].st = "burst"
        PROVE  record'[id] = record[id]
    <3>1. record[id] \in GhostInfo
      BY DEF GhostInv, TypeInv, TypeOK
    <3>2. \/ record'[id] = [record[id] EXCEPT !.st = "ghosting", !.packet = sent + 1]
          \/ record'[id] = [record[id] EXCEPT !.st = "killing", !.packet = sent + 1]
          \/ record'[id] = record[id]
      BY <1>4 DEF ServerSends
    <3>3. /\ [record[id] EXCEPT !.st = "ghosting", !.packet = sent + 1].st = "ghosting"
          /\ [record[id] EXCEPT !.st = "killing", !.packet = sent + 1].st = "killing"
      BY <3>1 DEF GhostInfo
    <3>4. QED
      BY <2>2, <3>2, <3>3
  <2>3. QED
    BY <2>1, <2>2 DEF Known
<1>5. ASSUME ServerNotified
      PROVE  Known'
  <2>1. classes' = classes
    BY <1>5 DEF ServerNotified, clientVars
  <2>2. ASSUME NEW id \in Ids, record'[id].st = "burst"
        PROVE  record'[id] = record[id]
    <3>1. record[id] \in GhostInfo /\ record'[id] = AfterVerdict(record[id])
      BY <1>5 DEF GhostInv, TypeInv, TypeOK, ServerNotified
    <3>2. record[id].packet # 0 => record[id].st \in {"ghosting", "killing"}
      BY DEF GhostInv, TypeInv, Rested, InTransit
    <3>3. \/ record'[id] = record[id]
          \/ record'[id] = [record[id] EXCEPT !.st = "live", !.packet = 0]
          \/ record'[id] = [record[id] EXCEPT !.st = "new", !.packet = 0]
          \/ record'[id] = [record[id] EXCEPT !.st = "kill", !.packet = 0]
          \/ record'[id] = Free
      BY <3>1, <3>2 DEF AfterVerdict
    <3>4. /\ [record[id] EXCEPT !.st = "live", !.packet = 0].st = "live"
          /\ [record[id] EXCEPT !.st = "new", !.packet = 0].st = "new"
          /\ [record[id] EXCEPT !.st = "kill", !.packet = 0].st = "kill"
      BY <3>1 DEF GhostInfo
    <3>5. record'[id] = record[id] \/ record'[id].st \in {"live", "new", "kill", "free"}
      <4>1. Free.st = "free"
        BY DEF Free
      <4>2. CASE record'[id] = Free
        BY <4>1, <4>2
      <4>3. CASE record'[id] = record[id]
        BY <4>3
      <4>4. CASE record'[id] = [record[id] EXCEPT !.st = "live", !.packet = 0]
        BY <3>4, <4>4
      <4>5. CASE record'[id] = [record[id] EXCEPT !.st = "new", !.packet = 0]
        BY <3>4, <4>5
      <4>6. CASE record'[id] = [record[id] EXCEPT !.st = "kill", !.packet = 0]
        BY <3>4, <4>6
      <4>7. QED
        BY <3>3, <4>2, <4>3, <4>4, <4>5, <4>6
    <3>6. QED
      BY <2>2, <3>5
  <2>3. QED
    BY <2>1, <2>2 DEF Known
<1>6. ASSUME HearReady
      PROVE  Known'
  <2>1. \A id \in Ids : record'[id].st # "burst"
    BY <1>6 DEF HearReady, GhostInv, TypeInv, TypeOK, GhostInfo
  <2>2. QED
    BY <2>1 DEF Known
<1>7. QED
  BY <1>1, <1>2, <1>3, <1>4, <1>5, <1>6 DEF Next

LEMMA NowShown ==
    ASSUME NEW s, Becomes(s), NEW table, NEW n, classes' = table, consumed' = n,
           RegistryTyped(s), Faithful(s, table), Lists(s, table, n)
    PROVE  /\ RegistryTyped(Shown)' /\ Faithful(Shown, classes)'
           /\ Lists(Shown, classes, consumed)'
BY DEF Becomes, RegistryTyped, Faithful, Lists, Shown

\* The body fails at event e: of its object there is no record yet.
LEMMA FailInEventsShown ==
    ASSUME RegistryInv, NEW i \in received + 1 .. sent, NEW e \in Events,
           RegistryFailInEvents(i, e)
    PROVE  /\ RegistryTyped(Shown)' /\ Faithful(Shown, classes)'
           /\ Lists(Shown, classes, consumed)'
<1>1. CASE classes' = classes /\ consumed' = consumed /\ UNCHANGED <<objects, controlGhost>>
  BY <1>1 DEF RegistryInv, RegistryTyped, Faithful, Lists, Shown
<1> DEFINE last == IF e = 0 THEN 0 ELSE e - 1
           s == UpToGhosts(i, last)
           table == Scoped(i, last + 1)
<1>2. CASE Becomes(s)
  <2>1. FailInEvents(i, e)
    BY DEF RegistryFailInEvents
  <2>2. /\ consumed \in Nat /\ consumed <= BurstSize + 1 /\ e \in Nat /\ e <= BurstSize
        /\ last \in Nat /\ BurstSize \in Nat /\ TypeInv /\ i \in 1 .. sent /\ IdCount \in Nat
    BY GhostAssumption, SMTT(30) DEF RegistryInv, GhostInv, TypeInv, TypeOK, Phase, Events
  <2>3. /\ consumed' \in Nat
        /\ consumed' <= consumed \/ consumed' <= e
        /\ \A k \in consumed .. consumed' - 1 : k \in cargo[i].events /\ k < e
    <3>1. /\ consumed' = ConsumedBefore(i, e) /\ e \in 0 .. BurstSize + 1
          /\ \A k \in cargo[i].events : k < e => NoGap(i, k)
      BY <2>1, <2>2 DEF FailInEvents
    <3>2. QED
      BY <2>2, <3>1, Consumption
  <2>4. /\ consumed' <= BurstSize + 1
        /\ \A k \in consumed .. consumed' - 1 : k \in cargo[i].events /\ k <= last
    <3>1. ASSUME NEW k \in consumed .. consumed' - 1
          PROVE  k \in cargo[i].events /\ k <= last
      <4>1. k \in cargo[i].events /\ k < e
        BY <2>3
      <4>2. k \in Nat
        BY <2>2, <2>3
      <4>3. QED
        BY <2>2, <4>1, <4>2
    <3>2. consumed' <= BurstSize + 1
      BY <2>2, <2>3
    <3>3. QED
      BY <3>1, <3>2
  <2>5. RegistryTyped(s) /\ Faithful(s, table) /\ Lists(s, table, consumed')
    BY <2>2, <2>3, <2>4, UpToShown
  <2>6. PICK reached \in {e, e + 1} : classes' = Scoped(i, reached)
    BY <2>1 DEF FailInEvents
  <2>7. ASSUME NEW id \in Ids
        PROVE  IF id = e THEN /\ table[id] = classes[id]
                              /\ classes'[id] \in {classes[id], cargo[i].class[id]}
                              /\ classes'[id] # classes[id] => id \in cargo[i].scoped
               ELSE table[id] = classes'[id]
    <3>1. id \in Nat /\ id # 0
      BY <2>2 DEF Ids
    <3>2. /\ table[id] = IF id < last + 1 /\ id \in cargo[i].scoped THEN cargo[i].class[id]
                         ELSE classes[id]
          /\ classes'[id] = IF id < reached /\ id \in cargo[i].scoped THEN cargo[i].class[id]
                            ELSE classes[id]
      BY <2>6 DEF Scoped
    <3>3. CASE id = e
      BY <2>2, <3>1, <3>2, <3>3
    <3>4. CASE id # e
      <4>1. id < last + 1 <=> id < reached
        BY <2>2, <2>6, <3>1, <3>4
      <4>2. QED
        BY <3>2, <3>4, <4>1
    <3>5. QED
      BY <3>3, <3>4
  <2> HIDE DEF s, table
  <2>8. Faithful(s, classes')
    <3>1. ASSUME NEW id \in Ids, s.objects[id].scoped
          PROVE  classes'[id] # NoClass /\ s.objects[id].class = classes'[id]
      <4>1. table[id] # NoClass /\ s.objects[id].class = table[id]
        BY <2>5, <3>1 DEF Faithful
      <4>2. CASE id = e
        <5>1. id \in cargo[i].scoped => classes[id] = cargo[i].class[id]
          BY <2>7, <4>1, <4>2, Truthful
        <5>2. QED
          BY <2>7, <4>1, <4>2, <5>1
      <4>3. QED
        BY <2>7, <4>1, <4>2
    <3>2. QED
      BY <2>5, <3>1 DEF Faithful
  <2>9. Lists(s, classes', consumed')
    <3>1. ASSUME NEW id \in Ids, classes'[id] # NoClass, ~(id <= BurstSize /\ consumed' <= id)
          PROVE  s.objects[id].scoped
      <4>1. table[id] # NoClass
        <5>1. CASE id = e
          <6>1. consumed > id
            BY <2>2, <2>3, <3>1, <5>1
          <6>2. id \in cargo[i].scoped => classes[id] # NoClass
            BY <6>1, Truthful
          <6>3. QED
            BY <2>7, <3>1, <5>1, <6>2
        <5>2. QED
          BY <2>7, <3>1, <5>1
      <4>2. QED
        BY <2>5, <3>1, <4>1 DEF Lists
    <3>2. QED
      BY <3>1 DEF Lists
  <2>10. QED
    BY <1>2, <2>5, <2>8, <2>9, NowShown DEF s
<1>3. QED
  BY <1>1, <1>2 DEF RegistryFailInEvents

\* All the events of the packet have been read.
LEMMA EventsShown ==
    ASSUME RegistryInv, NEW i \in received + 1 .. sent, EventsRead(i), AfterEvents(i)
    PROVE  LET r == UpToGhosts(i, BurstSize)   before == Scoped(i, BurstSize + 1)
           IN  /\ RegistryTyped(r) /\ Faithful(r, before) /\ Lists(r, before, consumed')
               /\ consumed' \in Nat
<1>1. /\ consumed \in Nat /\ consumed <= BurstSize + 1 /\ BurstSize \in Nat /\ TypeInv
      /\ i \in 1 .. sent
  BY GhostAssumption DEF RegistryInv, GhostInv, TypeInv, TypeOK, Phase
<1>2. /\ consumed' \in Nat
      /\ consumed' <= consumed \/ consumed' <= BurstSize + 1
      /\ \A k \in consumed .. consumed' - 1 : k \in cargo[i].events /\ k < BurstSize + 1
  <2>1. /\ consumed' = ConsumedBefore(i, BurstSize + 1) /\ BurstSize + 1 \in 0 .. BurstSize + 1
        /\ \A k \in cargo[i].events : k < BurstSize + 1 => NoGap(i, k)
    BY <1>1 DEF EventsRead, AfterEvents
  <2>2. QED
    BY <1>1, <2>1, Consumption
<1>3. consumed' <= BurstSize + 1
  BY <1>1, <1>2
<1>4. ASSUME NEW k \in consumed .. consumed' - 1
      PROVE  k \in cargo[i].events /\ k <= BurstSize
  <2>1. k \in cargo[i].events /\ k < BurstSize + 1
    BY <1>2
  <2>2. k \in Nat
    BY <1>1, <1>2
  <2>3. QED
    BY <1>1, <2>1, <2>2
<1>5. QED
  BY <1>1, <1>2, <1>3, <1>4, UpToShown

\* The section fails: only the header and the events are shown.
LEMMA FailInGhostsShown ==
    ASSUME RegistryInv, NEW i \in received + 1 .. sent, RegistryFailInGhosts(i)
    PROVE  /\ RegistryTyped(Shown)' /\ Faithful(Shown, classes)'
           /\ Lists(Shown, classes, consumed)'
<1> DEFINE s == UpToGhosts(i, BurstSize)
<1>1. FailInGhosts(i) /\ Becomes(s)
  BY DEF RegistryFailInGhosts
<1>2. RegistryTyped(s) /\ Faithful(s, classes') /\ Lists(s, classes', consumed')
  <2>1. classes' = Scoped(i, BurstSize + 1) /\ EventsRead(i) /\ AfterEvents(i)
    BY <1>1 DEF FailInGhosts
  <2>2. QED
    BY <2>1, EventsShown
<1> HIDE DEF s
<1>3. QED
  BY <1>1, <1>2, NowShown

\* The section is committed.
LEMMA CommitShown ==
    ASSUME RegistryInv, NEW i \in received + 1 .. sent, RegistryCommit(i)
    PROVE  /\ RegistryTyped(Shown)' /\ Faithful(Shown, classes)'
           /\ Lists(Shown, classes, consumed)'
<1> DEFINE r == UpToGhosts(i, BurstSize)   s == AfterSection(i, r)
           before == Scoped(i, BurstSize + 1)
<1>1. /\ Becomes(s) /\ EventsRead(i) /\ AfterEvents(i)
      /\ classes' = [id \in Ids |-> Staged(i, before, id)]
  BY DEF RegistryCommit, Commit
<1>2. /\ RegistryTyped(r) /\ Faithful(r, before) /\ Lists(r, before, consumed')
      /\ consumed' \in Nat
  BY <1>1, EventsShown
<1>3. cargo[i] \in Cargo /\ NoClass \notin Classes /\ 0 \notin Ids
  BY Truthful, GhostAssumption DEF Ids
<1>4. cargo[i].ops \in [Ids -> Operation]
  BY <1>3 DEF Cargo
<1>5. before \in [Ids -> Classes \union {NoClass}]
  <2>1. \A id \in Ids : cargo[i].class[id] \in Classes \union {NoClass}
    BY <1>3 DEF Cargo
  <2>2. QED
    BY <2>1 DEF Scoped, RegistryInv, GhostInv, TypeInv, TypeOK
<1>6. /\ \A id \in Ids : cargo[i].ops[id] = "create" => cargo[i].class[id] \in Classes
      /\ \A id \in Ids : cargo[i].ops[id] = "update" => before[id] # NoClass
  BY Truthful DEF Understood
<1> HIDE DEF r
<1>7. RegistryTyped(s) /\ Faithful(s, classes') /\ Lists(s, classes', consumed')
  BY <1>1, <1>2, <1>3, <1>4, <1>5, <1>6, SectionShown
<1> HIDE DEF s
<1>8. QED
  BY <1>1, <1>7, NowShown

-----------------------------------------------------------------------------
(* The registry's invariant *)

LEMMA RegistryInitially == RegistryInit => RegistryInv
<1> SUFFICES ASSUME RegistryInit PROVE RegistryInv
  OBVIOUS
<1>1. /\ Init /\ objects = [id \in Ids |-> NoRecord] /\ controlGhost = 0
      /\ classes = [id \in Ids |-> NoClass]
  BY DEF RegistryInit, Init
<1>2. NoRecord \in ObjectInfo /\ ~NoRecord.scoped
  BY DEF NoRecord, ObjectInfo
<1>3. RegistryTyped(Shown) /\ Faithful(Shown, classes) /\ Lists(Shown, classes, consumed)
  BY <1>1, <1>2 DEF RegistryTyped, Faithful, Lists, Shown
<1>4. Known
  BY <1>1 DEF Known
<1>5. QED
  BY <1>1, <1>3, <1>4, InitGhost DEF RegistryInv

LEMMA RegistryStep ==
    ASSUME ~IdleEarly, RegistryInv, [RegistryNext]_<<vars, registryVars>>
    PROVE  RegistryInv'
<1>1. [Next]_vars
  BY DEF RegistryNext, Next, RegistryFailInEvents, RegistryFailInGhosts, RegistryCommit
<1>2. GhostInv' /\ Known'
  BY <1>1, NextGhost, KnownStep DEF RegistryInv
<1>3. ASSUME UNCHANGED registryVars, classes' = classes, consumed' = consumed
      PROVE  /\ RegistryTyped(Shown)' /\ Faithful(Shown, classes)'
             /\ Lists(Shown, classes, consumed)'
  BY <1>3 DEF RegistryInv, RegistryTyped, Faithful, Lists, Shown, registryVars
<1>4. CASE UNCHANGED <<vars, registryVars>>
  BY <1>2, <1>3, <1>4 DEF RegistryInv, vars, clientVars
<1>5. CASE /\ UNCHANGED registryVars
           /\ (\E id \in Ids : Scope(id) \/ Unscope(id)) \/ ServerSends \/ ServerNotified \/ HearReady
  <2>1. UNCHANGED clientVars
    BY <1>5 DEF Scope, Unscope, ServerSends, ServerNotified, HearReady
  <2>2. QED
    BY <1>2, <1>3, <1>5, <2>1 DEF RegistryInv, clientVars
<1>6. ASSUME NEW i \in received + 1 .. sent,
             \/ \E e \in Events : RegistryFailInEvents(i, e)
             \/ RegistryFailInGhosts(i)
             \/ RegistryCommit(i)
      PROVE  /\ RegistryTyped(Shown)' /\ Faithful(Shown, classes)'
             /\ Lists(Shown, classes, consumed)'
  BY <1>6, FailInEventsShown, FailInGhostsShown, CommitShown
<1>7. QED
  BY <1>2, <1>4, <1>5, <1>6 DEF RegistryNext, RegistryInv

LEMMA RegistryInvariant == ~IdleEarly => (RegistrySpec => []RegistryInv)
<1> SUFFICES ASSUME ~IdleEarly PROVE RegistrySpec => []RegistryInv
  OBVIOUS
<1>1. RegistryInv /\ [RegistryNext]_<<vars, registryVars>> => RegistryInv'
  BY RegistryStep
<1>2. QED
  BY <1>1, RegistryInitially, PTL DEF RegistrySpec

\* ListedAreGhosts, when the burst does not fall silent early: what list_objects()
\* shows as scoped is a ghost that exists, as what it is, and every ghost but those of
\* the burst that were not decoded is shown (telemetry.py 290-371); the control object
\* is among them (phases.py 504-518).
THEOREM ListedAreGhostsHolds == ~IdleEarly => (RegistrySpec => []ListedAreGhosts)
<1> SUFFICES ASSUME ~IdleEarly PROVE RegistrySpec => []ListedAreGhosts
  OBVIOUS
<1>1. RegistryInv => ListedAreGhosts
  <2> SUFFICES ASSUME RegistryInv PROVE ListedAreGhosts
    OBVIOUS
  <2>1. /\ Shown.objects = objects /\ Shown.control = controlGhost
        /\ RegistryTyped(Shown) /\ Faithful(Shown, classes) /\ Lists(Shown, classes, consumed)
    BY DEF RegistryInv, Shown
  <2>2. \A id \in Ids :
          /\ objects[id].scoped => classes[id] # NoClass /\ objects[id].class = classes[id]
          /\ classes[id] # NoClass /\ ~(id <= BurstSize /\ consumed <= id) => objects[id].scoped
    BY <2>1 DEF Faithful, Lists
  <2>3. controlGhost # 0 =>
          controlGhost \in Ids /\ objects[controlGhost].scoped /\ objects[controlGhost].self
    BY <2>1 DEF Faithful, RegistryTyped
  <2>4. QED
    BY <2>2, <2>3 DEF ListedAreGhosts, Listed
<1>2. QED
  BY <1>1, RegistryInvariant, PTL

-----------------------------------------------------------------------------
(* Where the objects are shown *)

ShownClasses == Named \union {"Camera"}

WorldObjects ==
  [class : ShownClasses \union {"none", "gone"}, name : Names \union {"none"}, sent : BOOLEAN]
GhostRecords ==
  [scoped : BOOLEAN, class : ShownClasses \union {"none"}, name : Names \union {"none"},
   data : ShownClasses \union {"none"}, shape : ShownClasses \union {"none"},
   position : [known : BOOLEAN, at : Int]]
LastPoses == [name : Names \union {"none"}, place : Places, sure : BOOLEAN, objects : 0 .. 2]

PositionsTyped ==
  /\ world \in [Ghosts -> WorldObjects] /\ records \in [Ghosts -> GhostRecords]
  /\ newest \in [Ghosts -> LastPoses]
  /\ driven \in Ghosts \union {0} /\ controlId \in Ghosts \union {0}
  /\ datablocks \subseteq ShownClasses

\* What the record r of object w says, when l is its newest pose and db the datablocks known.
ShowsObject(w, r, l, db) ==
  /\ w.class \in Named => w.name \in Names
  /\ w.class = "Camera" => w.name = "none"
  /\ w.sent => l.objects >= 1 /\ w.class # "none"
  /\ r.scoped => w.sent
  /\ w.sent /\ w.class # "gone" => r.class = w.class /\ l.name = w.name
  /\ w.sent /\ r.class \in Named => r.name = l.name /\ (l.sure => r.position = At(l.place))
  /\ l.objects = 0 => r.data = "none" /\ r.shape = "none"
  /\ l.objects = 1 => r.data \in ShownClasses /\ r.shape = IF r.data \in db THEN r.data ELSE "none"

\* The control object is a ghost the client has; a record has what its object had when its
\* pose came, also when the object is gone.
PositionsInv ==
  /\ PositionsTyped
  /\ driven # 0 => world[driven].sent /\ world[driven].class \in {"Player", "Camera"}
  /\ \A id \in Ghosts : ShowsObject(world[id], records[id], newest[id], datablocks)

\* The control object's pose in the header.
LEMMA PlacedPose ==
    \A l \in LastPoses, a \in Places :
      LET k == [l EXCEPT !.place = a, !.sure = TRUE]
      IN k \in LastPoses /\ k.name = l.name /\ k.objects = l.objects /\ k.place = a /\ k.sure = TRUE
<1> SUFFICES ASSUME NEW l \in LastPoses, NEW a \in Places
             PROVE  LET k == [l EXCEPT !.place = a, !.sure = TRUE]
                    IN /\ k \in LastPoses /\ k.name = l.name /\ k.objects = l.objects
                       /\ k.place = a /\ k.sure = TRUE
  OBVIOUS
<1> DEFINE k == [l EXCEPT !.place = a, !.sure = TRUE]
<1>1. /\ l.name \in Names \union {"none"} /\ l.objects \in 0 .. 2
      /\ DOMAIN l = {"name", "place", "sure", "objects"}
  BY DEF LastPoses
<1>2. k.name = l.name /\ k.objects = l.objects /\ k.place = a /\ k.sure = TRUE
  BY <1>1
<1>3. k \in LastPoses
  BY DEF LastPoses
<1>4. QED
  BY <1>2, <1>3

\* A record that keeps what it says of its object, and its place or the newest one.
LEMMA ShowsStill ==
    ASSUME NEW w, NEW s, NEW r, NEW l, NEW k, NEW db, ShowsObject(w, s, l, db),
           r.class = s.class, r.name = s.name, r.data = s.data, r.shape = s.shape,
           r.scoped => w.sent, k.name = l.name, k.objects = l.objects,
           \/ k.sure => r.position = At(k.place)
           \/ r.position = s.position /\ k.place = l.place /\ k.sure = l.sure
    PROVE  ShowsObject(w, r, k, db)
BY DEF ShowsObject

LEMMA InitPositions == PositionsInit => PositionsInv
<1> SUFFICES ASSUME PositionsInit PROVE PositionsInv
  OBVIOUS
<1>1. 0 \in Places
  BY PositionsAssumption DEF Places
<1>2. PositionsTyped
  BY <1>1 DEF PositionsInit, PositionsTyped, WorldObjects, GhostRecords, LastPoses, NoObject, EmptyRecord, NoPlace, ShownClasses
<1>3. \A id \in Ghosts : ShowsObject(world[id], records[id], newest[id], datablocks)
  BY DEF PositionsInit, ShowsObject, NoObject, EmptyRecord, Named
<1>4. QED
  BY <1>2, <1>3 DEF PositionsInit, PositionsInv

LEMMA ServerPositions ==
    ASSUME PositionsInv, NEW id \in Ghosts \union {0},
           (id \in Ghosts /\ (Enters(id) \/ Leaves(id))) \/ Drives(id)
    PROVE  PositionsInv'
<1>1. UNCHANGED <<records, controlId, datablocks, newest>>
  BY DEF Enters, Leaves, Drives
<1>2. CASE id \in Ghosts /\ Enters(id)
  <2>1. PICK o \in [class : Named, name : Names] \union [class : {"Camera"}, name : {"none"}] :
           world' = [world EXCEPT ![id] = [class |-> o.class, name |-> o.name, sent |-> FALSE]]
    BY <1>2 DEF Enters
  <2>2. driven' = driven /\ world[id].class = "none"
    BY <1>2 DEF Enters
  <2>3. o.class \in ShownClasses /\ o.name \in Names \union {"none"}
    BY DEF ShownClasses
  <2>4. PositionsTyped'
    BY <1>1, <1>2, <2>1, <2>2, <2>3 DEF PositionsInv, PositionsTyped, WorldObjects, GhostRecords, LastPoses
  <2>5. driven # 0 => driven # id
    BY <1>2, <2>2 DEF PositionsInv
  <2>6. ~records[id].scoped
    BY <1>2, <2>2 DEF PositionsInv, ShowsObject
  <2>7. ShowsObject(world'[id], records[id], newest[id], datablocks)
    <3>1. world'[id] = [class |-> o.class, name |-> o.name, sent |-> FALSE]
      BY <1>2, <2>1 DEF PositionsInv, PositionsTyped, WorldObjects, GhostRecords, LastPoses
    <3>2. /\ o.class \in Named => o.name \in Names
          /\ o.class = "Camera" => o.name = "none"
      BY DEF Named
    <3>3. QED
      BY <1>2, <2>6, <3>1, <3>2 DEF PositionsInv, ShowsObject
  <2>8. \A i \in Ghosts : i # id => world'[i] = world[i]
    BY <2>1 DEF PositionsInv, PositionsTyped, WorldObjects, GhostRecords, LastPoses
  <2>9. QED
    BY <1>1, <2>2, <2>4, <2>5, <2>7, <2>8 DEF PositionsInv, PositionsTyped, WorldObjects, GhostRecords, LastPoses
<1>3. CASE id \in Ghosts /\ Leaves(id)
  <2>1. /\ world' = [world EXCEPT ![id] = IF @.sent THEN [@ EXCEPT !.class = "gone"] ELSE NoObject]
        /\ driven' = IF driven = id THEN 0 ELSE driven
        /\ world[id].class \notin {"none", "gone"}
    BY <1>3 DEF Leaves
  <2>2. PositionsTyped'
    <3>1. world \in [Ghosts -> WorldObjects] /\ NoObject \in WorldObjects
      BY DEF PositionsInv, PositionsTyped, NoObject, WorldObjects
    <3>2. \A o \in WorldObjects : [o EXCEPT !.class = "gone"] \in WorldObjects
      BY DEF WorldObjects
    <3>3. world' \in [Ghosts -> WorldObjects]
      BY <1>3, <2>1, <3>1, <3>2
    <3>4. QED
      BY <1>1, <2>1, <3>3 DEF PositionsInv, PositionsTyped, WorldObjects, GhostRecords, LastPoses
  <2>3. ShowsObject(world'[id], records[id], newest[id], datablocks)
    <3>1. world'[id] = IF world[id].sent THEN [world[id] EXCEPT !.class = "gone"] ELSE NoObject
      BY <1>3, <2>1 DEF PositionsInv, PositionsTyped, WorldObjects, GhostRecords, LastPoses
    <3>2. CASE world[id].sent
      <4>1. world'[id].class = "gone" /\ world'[id].sent
        BY <1>3, <3>1, <3>2 DEF PositionsInv, PositionsTyped, WorldObjects, GhostRecords, LastPoses
      <4>2. QED
        BY <1>3, <3>2, <4>1 DEF PositionsInv, ShowsObject, Named
    <3>3. CASE ~world[id].sent
      BY <1>3, <3>1, <3>3 DEF PositionsInv, ShowsObject, NoObject, Named
    <3>4. QED
      BY <3>2, <3>3
  <2>4. \A i \in Ghosts : i # id => world'[i] = world[i]
    BY <2>1 DEF PositionsInv, PositionsTyped, WorldObjects, GhostRecords, LastPoses
  <2>5. driven' # 0 => world'[driven'].sent /\ world'[driven'].class \in {"Player", "Camera"}
    <3>1. driven' # 0 => driven' = driven /\ driven # id /\ driven \in Ghosts
      BY <2>1 DEF PositionsInv, PositionsTyped, WorldObjects, GhostRecords, LastPoses
    <3>2. QED
      BY <2>4, <3>1 DEF PositionsInv
  <2>6. \A i \in Ghosts : ShowsObject(world'[i], records'[i], newest'[i], datablocks')
    BY <1>1, <2>3, <2>4 DEF PositionsInv
  <2>7. QED
    BY <2>2, <2>5, <2>6 DEF PositionsInv
<1>4. CASE Drives(id)
  <2>1. driven' = id /\ world' = world
    BY <1>4 DEF Drives
  <2>2. PositionsTyped'
    BY <1>1, <2>1 DEF PositionsInv, PositionsTyped, WorldObjects, GhostRecords, LastPoses
  <2>3. QED
    BY <1>1, <1>4, <2>1, <2>2 DEF PositionsInv, Drives
<1>5. QED
  BY <1>2, <1>3, <1>4

LEMMA DatablockPositions ==
    ASSUME PositionsInv, DatablockRead("Player")
    PROVE  PositionsInv'
<1>1. /\ UNCHANGED <<world, driven, created, controlId, newest>>
      /\ datablocks' = datablocks \union {"Player"}
      /\ records' = [id \in Ghosts |->
           IF records[id].data = "Player" /\ records[id].shape = "none"
           THEN [records[id] EXCEPT !.shape = "Player"] ELSE records[id]]
  BY DEF DatablockRead, Recorded
<1>2. "Player" \in ShownClasses
  BY DEF ShownClasses, Named
<1>3. PositionsTyped'
  <2>1. records \in [Ghosts -> GhostRecords]
    BY DEF PositionsInv, PositionsTyped, WorldObjects, GhostRecords, LastPoses
  <2>2. \A r \in GhostRecords : [r EXCEPT !.shape = "Player"] \in GhostRecords
    BY <1>2 DEF GhostRecords
  <2>3. records' \in [Ghosts -> GhostRecords]
    BY <1>1, <2>1, <2>2
  <2>4. QED
    BY <1>1, <1>2, <2>3 DEF PositionsInv, PositionsTyped, WorldObjects, GhostRecords, LastPoses
<1>4. ASSUME NEW id \in Ghosts PROVE ShowsObject(world[id], records'[id], newest[id], datablocks')
  <2>1. ShowsObject(world[id], records[id], newest[id], datablocks)
    BY DEF PositionsInv
  <2>2. /\ records'[id].scoped = records[id].scoped /\ records'[id].class = records[id].class
        /\ records'[id].name = records[id].name /\ records'[id].data = records[id].data
        /\ records'[id].position = records[id].position
        /\ records'[id].shape = IF records[id].data = "Player" /\ records[id].shape = "none"
                                THEN "Player" ELSE records[id].shape
    BY <1>1 DEF PositionsInv, PositionsTyped, WorldObjects, GhostRecords, LastPoses
  <2>3. QED
    BY <1>1, <2>1, <2>2 DEF ShowsObject
<1>5. QED
  BY <1>1, <1>3, <1>4 DEF PositionsInv

LEMMA PlacesIs ==
    /\ \A p, c \in Places : (p - c + c) % Room = p
    /\ \A p, c \in Places, at \in Int : (p - c + at) % Room \in Places
    /\ Places \subseteq Int
  BY PositionsAssumption DEF Places

LEMMA PlacedIs ==
    ASSUME NEW r \in GhostRecords, NEW place \in [known : BOOLEAN, at : Int]
    PROVE  /\ Placed(r, place) \in GhostRecords
           /\ Placed(r, place).scoped = r.scoped /\ Placed(r, place).class = r.class
           /\ Placed(r, place).name = r.name /\ Placed(r, place).data = r.data
           /\ Placed(r, place).shape = r.shape
           /\ Placed(r, place).position = IF place.known THEN place ELSE r.position
  BY DEF Placed, GhostRecords

LEMMA ScopedIs ==
    ASSUME NEW r \in GhostRecords, NEW b \in BOOLEAN
    PROVE  LET s == [r EXCEPT !.scoped = b]
           IN /\ s \in GhostRecords /\ s.scoped = b /\ s.class = r.class
              /\ s.name = r.name /\ s.data = r.data /\ s.shape = r.shape /\ s.position = r.position
  BY DEF GhostRecords

LEMMA CreatedIs ==
    ASSUME NEW r \in GhostRecords, NEW o \in WorldObjects, o.class \in ShownClasses,
           datablocks \subseteq ShownClasses
    PROVE  /\ Created(r, o) \in GhostRecords
           /\ Created(r, o).scoped /\ Created(r, o).class = o.class /\ Created(r, o).data = o.class
           /\ Created(r, o).name = (IF o.name = "none" THEN r.name ELSE o.name)
           /\ Created(r, o).shape = (IF o.class \in datablocks THEN o.class ELSE r.shape)
  BY DEF Created, GhostRecords, WorldObjects

\* A packet, seen from one ghost: its record after the header, and its pose's place.
LEMMA PacketPositions ==
    ASSUME PositionsInv, PacketRead
    PROVE  PositionsInv'
<1>1. PICK posed \in SUBSET {id \in Ghosts : world[id].class \notin {"none", "gone"}} :
      \E absolute \in SUBSET {id \in posed : world[id].class \in Named},
         places \in [Ghosts -> Places], camera \in Places, header \in BOOLEAN :
        LET headed == Headed(IF header THEN At(camera) ELSE NoPlace)
            reference == Reference(headed)
        IN
        /\ \A id \in Ghosts : id \in posed \union {driven} \/ places[id] = 0
        /\ driven # 0 => camera = places[driven]
        /\ \A id \in posed : id = driven /\ world[id].class \in Named => id \in absolute
        /\ header => driven # 0 /\ world[driven].class = "Player"
        /\ records' = [id \in Ghosts |->
             Ghosted(headed[id], id, id \in posed,
                     ReadPlace(places[id], id \in absolute, camera, reference))]
        /\ controlId' = IF \E id \in Ghosts : id = Controlled /\ world[id].class = "gone"
                        THEN 0 ELSE Controlled
        /\ world' = [id \in Ghosts |->
             IF world[id].class = "gone" THEN NoObject
             ELSE IF id \in posed THEN [world[id] EXCEPT !.sent = TRUE] ELSE world[id]]
        /\ newest' = [id \in Ghosts |->
             LastPose(id, places[id], id \in posed, id \in absolute \/ header, header)]
        /\ UNCHANGED <<driven, created, datablocks>>
  BY DEF PacketRead
<1>2. PICK absolute \in SUBSET {id \in posed : world[id].class \in Named},
           places \in [Ghosts -> Places], camera \in Places, header \in BOOLEAN :
        LET headed == Headed(IF header THEN At(camera) ELSE NoPlace)
            reference == Reference(headed)
        IN
        /\ driven # 0 => camera = places[driven]
        /\ \A id \in posed : id = driven /\ world[id].class \in Named => id \in absolute
        /\ header => driven # 0 /\ world[driven].class = "Player"
        /\ records' = [id \in Ghosts |->
             Ghosted(headed[id], id, id \in posed,
                     ReadPlace(places[id], id \in absolute, camera, reference))]
        /\ controlId' = IF \E id \in Ghosts : id = Controlled /\ world[id].class = "gone"
                        THEN 0 ELSE Controlled
        /\ world' = [id \in Ghosts |->
             IF world[id].class = "gone" THEN NoObject
             ELSE IF id \in posed THEN [world[id] EXCEPT !.sent = TRUE] ELSE world[id]]
        /\ newest' = [id \in Ghosts |->
             LastPose(id, places[id], id \in posed, id \in absolute \/ header, header)]
        /\ UNCHANGED <<driven, datablocks>>
  BY <1>1
<1> DEFINE above == IF header THEN At(camera) ELSE NoPlace
<1> DEFINE headed == Headed(above)
<1> DEFINE reference == Reference(headed)
<1> DEFINE place(id) == ReadPlace(places[id], id \in absolute, camera, reference)
<1> DEFINE sure(id) == id \in absolute \/ header
<1>3. /\ world \in [Ghosts -> WorldObjects] /\ records \in [Ghosts -> GhostRecords]
      /\ newest \in [Ghosts -> LastPoses] /\ datablocks \subseteq ShownClasses
      /\ driven \in Ghosts \union {0} /\ controlId \in Ghosts \union {0} /\ 0 \notin Ghosts
  BY PositionsAssumption DEF PositionsInv, PositionsTyped
<1>4. above \in [known : BOOLEAN, at : Int] /\ (header => above = At(camera) /\ above.known)
  BY PlacesIs DEF At, NoPlace
<1>5. /\ driven' = driven /\ datablocks' = datablocks
      /\ driven # 0 => camera = places[driven]
      /\ \A id \in posed : id = driven /\ world[id].class \in Named => id \in absolute
      /\ header => driven # 0 /\ world[driven].class = "Player"
      /\ \A id \in Ghosts : records'[id] = Ghosted(headed[id], id, id \in posed, place(id))
      /\ \A id \in Ghosts : world'[id] = IF world[id].class = "gone" THEN NoObject
             ELSE IF id \in posed THEN [world[id] EXCEPT !.sent = TRUE] ELSE world[id]
      /\ \A id \in Ghosts : newest'[id] = LastPose(id, places[id], id \in posed, sure(id), header)
      /\ DOMAIN records' = Ghosts /\ DOMAIN world' = Ghosts /\ DOMAIN newest' = Ghosts
  BY <1>2
<1> HIDE DEF above
<1>6. ASSUME NEW id \in Ghosts
      PROVE  /\ headed[id] \in GhostRecords
             /\ headed[id].class = records[id].class /\ headed[id].name = records[id].name
             /\ headed[id].data = records[id].data /\ headed[id].shape = records[id].shape
             /\ headed[id].scoped = (records[id].scoped \/ id = driven)
             /\ headed[id].position = IF id = driven /\ header THEN At(camera) ELSE records[id].position
  <2> DEFINE seen == [records[id] EXCEPT !.scoped = TRUE]
  <2>1. CASE id # driven
    <3>1. headed[id] = records[id]
      BY <1>3, <2>1 DEF Headed
    <3>2. records[id] \in GhostRecords /\ records[id].scoped \in BOOLEAN
      BY <1>3 DEF GhostRecords
    <3> HIDE DEF headed
    <3>3. QED
      BY <2>1, <3>1, <3>2
  <2>2. CASE id = driven
    <3>1. headed[id] = Placed(seen, above)
      BY <1>3, <2>2 DEF Headed
    <3>2. /\ seen \in GhostRecords /\ seen.scoped /\ seen.class = records[id].class
          /\ seen.name = records[id].name /\ seen.data = records[id].data
          /\ seen.shape = records[id].shape /\ seen.position = records[id].position
      BY <1>3, ScopedIs
    <3> HIDE DEF headed, seen
    <3>3. /\ Placed(seen, above) \in GhostRecords
          /\ Placed(seen, above).scoped = seen.scoped /\ Placed(seen, above).class = seen.class
          /\ Placed(seen, above).name = seen.name /\ Placed(seen, above).data = seen.data
          /\ Placed(seen, above).shape = seen.shape
          /\ Placed(seen, above).position = IF above.known THEN above ELSE seen.position
      BY <1>4, <3>2, PlacedIs
    <3>4. above.known <=> header
      BY <1>4 DEF above, NoPlace
    <3>5. QED
      BY <1>4, <2>2, <3>1, <3>2, <3>3, <3>4
  <2>3. QED
    BY <2>1, <2>2
<1>7. ASSUME NEW id \in Ghosts
      PROVE  /\ place(id) \in [known : BOOLEAN, at : Int]
             /\ sure(id) => place(id) = At(places[id]) /\ place(id).known
  <2>1. places[id] \in Places /\ camera \in Places /\ Places \subseteq Int
    BY PlacesIs
  <2>2. /\ reference \in [known : BOOLEAN, at : Int]
        /\ header => reference = At(camera)
    <3>1. Controlled \in Ghosts \union {0} /\ (header => Controlled = driven /\ driven # 0)
      BY <1>3, <1>5 DEF Controlled
    <3>2. \A i \in Ghosts : headed[i].position \in [known : BOOLEAN, at : Int]
      BY <1>6 DEF GhostRecords
    <3>3. NoPlace \in [known : BOOLEAN, at : Int]
      BY DEF NoPlace
    <3>4. reference = IF Controlled = 0 THEN NoPlace ELSE headed[Controlled].position
      BY DEF Reference
    <3> HIDE DEF headed, reference
    <3>5. reference \in [known : BOOLEAN, at : Int]
      BY <3>1, <3>2, <3>3, <3>4
    <3>6. header => reference = At(camera)
      BY <1>3, <1>6, <3>1, <3>4
    <3>7. QED
      BY <3>5, <3>6
  <2> HIDE DEF headed, reference
  <2>3. CASE id \in absolute
    BY <2>1, <2>3 DEF ReadPlace, At
  <2>4. CASE id \notin absolute /\ ~reference.known
    BY <2>1, <2>2, <2>4 DEF ReadPlace, At, NoPlace
  <2>5. CASE id \notin absolute /\ reference.known
    <3>1. place(id) = At((places[id] - camera + reference.at) % Room)
      BY <2>5 DEF ReadPlace
    <3>2. (places[id] - camera + reference.at) % Room \in Places
      BY <2>1, <2>2, PlacesIs
    <3>3. header => (places[id] - camera + reference.at) % Room = places[id]
      <4>1. header => reference.at = camera
        BY <2>2 DEF At
      <4>2. (places[id] - camera + camera) % Room = places[id]
        BY <2>1, PlacesIs
      <4>3. QED
        BY <4>1, <4>2
    <3>4. \A v \in Int : At(v) \in [known : BOOLEAN, at : Int] /\ At(v).known
      BY DEF At
    <3>5. sure(id) => header
      BY <2>5
    <3> HIDE DEF place, sure
    <3>6. QED
      BY <2>1, <3>1, <3>2, <3>3, <3>4, <3>5
  <2>6. QED
    BY <2>3, <2>4, <2>5
<1> HIDE DEF headed, reference, place, sure
<1>8. ASSUME NEW id \in Ghosts
      PROVE  /\ records'[id] \in GhostRecords /\ world'[id] \in WorldObjects
             /\ newest'[id] \in LastPoses
             /\ ShowsObject(world'[id], records'[id], newest'[id], datablocks)
  <2> DEFINE w == world[id]
  <2> DEFINE r == headed[id]
  <2> DEFINE l == newest[id]
  <2> DEFINE p == place(id)
  <2>1. /\ ShowsObject(w, records[id], l, datablocks)
        /\ w \in WorldObjects /\ r \in GhostRecords /\ l \in LastPoses
        /\ records[id] \in GhostRecords
        /\ places[id] \in Places /\ p \in [known : BOOLEAN, at : Int]
        /\ NoObject \in WorldObjects /\ NoPlace \in [known : BOOLEAN, at : Int]
    BY <1>3, <1>6, <1>7, PositionsAssumption DEF PositionsInv, NoObject, WorldObjects, NoPlace
  <2>2. id = driven => w.sent /\ w.class \in {"Player", "Camera"}
    BY <1>3 DEF PositionsInv
  <2>3. /\ r.class = records[id].class /\ r.name = records[id].name
        /\ r.data = records[id].data /\ r.shape = records[id].shape
        /\ r.scoped = (records[id].scoped \/ id = driven)
        /\ r.position = IF id = driven /\ header THEN At(camera) ELSE records[id].position
    BY <1>6
  <2>4. /\ records'[id] = Ghosted(r, id, id \in posed, p)
        /\ world'[id] = IF w.class = "gone" THEN NoObject
                        ELSE IF id \in posed THEN [w EXCEPT !.sent = TRUE] ELSE w
        /\ newest'[id] = LastPose(id, places[id], id \in posed, sure(id), header)
        /\ id \in posed => w.class \notin {"none", "gone"}
    BY <1>5
  <2>5. /\ id = driven => camera = places[id]
        /\ sure(id) => p = At(places[id]) /\ p.known
        /\ id = driven /\ id \in posed /\ w.class \in Named => sure(id)
        /\ sure(id) \in BOOLEAN
        /\ header /\ id \in posed => sure(id)
    BY <1>3, <1>5, <1>7 DEF sure
  <2> HIDE DEF w, r, l, p
  <2>6. CASE w.class = "gone"
    <3>1. records'[id] = [r EXCEPT !.scoped = FALSE] /\ world'[id] = NoObject /\ newest'[id] = l
          /\ id # driven
      BY <2>2, <2>4, <2>6 DEF Ghosted, LastPose, w, l
    <3>2. /\ records'[id] \in GhostRecords /\ ~records'[id].scoped
          /\ records'[id].data = records[id].data /\ records'[id].shape = records[id].shape
      BY <2>1, <2>3, <3>1 DEF GhostRecords
    <3>3. QED
      BY <2>1, <3>1, <3>2 DEF ShowsObject, NoObject, Named
  <2>7. CASE w.class # "gone" /\ id \notin posed
    <3>1. records'[id] = r /\ world'[id] = w
      BY <2>4, <2>7 DEF Ghosted, w
    <3>2. newest'[id] = IF id = driven /\ header
                      THEN [l EXCEPT !.place = places[id], !.sure = TRUE] ELSE l
      BY <2>4, <2>7 DEF LastPose, l
    <3>3. /\ newest'[id] \in LastPoses /\ newest'[id].name = l.name /\ newest'[id].objects = l.objects
          /\ newest'[id].sure = IF id = driven /\ header THEN TRUE ELSE l.sure
          /\ newest'[id].place = IF id = driven /\ header THEN places[id] ELSE l.place
      <4>1. CASE id = driven /\ header
        <5> DEFINE k == [l EXCEPT !.place = places[id], !.sure = TRUE]
        <5>1. newest'[id] = k
          BY <3>2, <4>1
        <5>2. /\ k \in LastPoses /\ k.name = l.name /\ k.objects = l.objects
              /\ k.place = places[id] /\ k.sure = TRUE
          BY <2>1, PlacedPose
        <5> HIDE DEF k
        <5>3. QED
          BY <4>1, <5>1, <5>2
      <4>2. CASE ~(id = driven /\ header)
        <5>1. newest'[id] = l
          BY <3>2, <4>2
        <5>2. QED
          BY <2>1, <4>2, <5>1
      <4>3. QED
        BY <4>1, <4>2
    <3>4. records'[id] \in GhostRecords
      BY <2>1, <3>1
    <3>5. r.scoped => w.sent
      BY <2>1, <2>2, <2>3 DEF ShowsObject
    <3>6. \/ newest'[id].sure => r.position = At(newest'[id].place)
          \/ r.position = records[id].position /\ newest'[id].place = l.place /\ newest'[id].sure = l.sure
      <4>1. CASE id = driven /\ header
        BY <2>3, <2>5, <3>3, <4>1
      <4>2. CASE ~(id = driven /\ header)
        BY <2>3, <3>3, <4>2
      <4>3. QED
        BY <4>1, <4>2
    <3>7. ShowsObject(w, r, newest'[id], datablocks)
      BY <2>1, <2>3, <3>3, <3>5, <3>6, ShowsStill
    <3>8. QED
      BY <2>1, <3>1, <3>3, <3>4, <3>7
  <2>8. CASE id \in posed
    <3> DEFINE base == IF w.sent THEN r ELSE Created(r, w)
    <3> DEFINE q == IF w.class \in Named THEN p ELSE NoPlace
    <3>1. w.class \notin {"none", "gone"} /\ w.class \in ShownClasses
      BY <2>1, <2>4, <2>8 DEF WorldObjects
    <3>2. records'[id] = Placed(base, q) /\ world'[id] = [w EXCEPT !.sent = TRUE]
      BY <2>4, <2>8, <3>1 DEF Ghosted, w
    <3>3. newest'[id] = [name |-> w.name, place |-> IF sure(id) THEN places[id] ELSE 0,
                       sure |-> sure(id),
                       objects |-> l.objects + IF ~w.sent /\ l.objects < 2 THEN 1 ELSE 0]
      BY <2>4, <2>8 DEF LastPose, w, l
    <3>4. q \in [known : BOOLEAN, at : Int]
      BY <2>1
    <3>5. base \in GhostRecords
      BY <1>3, <2>1, <3>1, CreatedIs
    <3>6. ~w.sent => /\ base.scoped /\ base.class = w.class /\ base.data = w.class
                     /\ base.name = (IF w.name = "none" THEN r.name ELSE w.name)
                     /\ base.shape = (IF w.class \in datablocks THEN w.class ELSE r.shape)
      BY <1>3, <2>1, <3>1, CreatedIs
    <3>7. w.sent => base = r
      OBVIOUS
    <3> HIDE DEF base, q
    <3>8. /\ Placed(base, q) \in GhostRecords /\ Placed(base, q).scoped = base.scoped
          /\ Placed(base, q).class = base.class /\ Placed(base, q).name = base.name
          /\ Placed(base, q).data = base.data /\ Placed(base, q).shape = base.shape
          /\ Placed(base, q).position = IF q.known THEN q ELSE base.position
      BY <3>4, <3>5, PlacedIs
    <3>9. /\ world'[id] \in WorldObjects /\ world'[id].sent /\ world'[id].class = w.class
          /\ world'[id].name = w.name
      BY <2>1, <3>2 DEF WorldObjects
    <3>10. /\ newest'[id] \in LastPoses /\ newest'[id].name = w.name /\ newest'[id].sure = sure(id)
           /\ sure(id) => newest'[id].place = places[id]
           /\ newest'[id].objects = l.objects + (IF ~w.sent /\ l.objects < 2 THEN 1 ELSE 0)
           /\ l.objects \in 0 .. 2
      BY <2>1, <2>5, <3>3, PositionsAssumption DEF LastPoses, WorldObjects, Places
    <3>11. w.class \in Named /\ sure(id) => Placed(base, q).position = At(places[id])
      BY <2>5, <3>8 DEF q
    <3>12. w.class \in Named => w.name \in Names /\ w.name # "none"
      BY <2>1, PositionsAssumption DEF ShowsObject
    <3>13. CASE w.sent
      BY <2>1, <2>2, <2>3, <2>5, <3>1, <3>2, <3>7, <3>8, <3>9, <3>10, <3>11, <3>12, <3>13 DEF ShowsObject
    <3>14. CASE ~w.sent
      BY <2>1, <2>2, <2>3, <2>5, <3>1, <3>2, <3>6, <3>8, <3>9, <3>10, <3>11, <3>12, <3>14 DEF ShowsObject
    <3>15. QED
      BY <3>13, <3>14
  <2>9. QED
    BY <2>6, <2>7, <2>8
<1>9. PositionsTyped'
  <2>1. controlId' \in Ghosts \union {0}
    BY <1>2, <1>3 DEF Controlled
  <2>2. /\ records' \in [Ghosts -> GhostRecords] /\ world' \in [Ghosts -> WorldObjects]
        /\ newest' \in [Ghosts -> LastPoses]
    BY <1>2, <1>8
  <2>3. QED
    BY <1>3, <1>5, <2>1, <2>2 DEF PositionsTyped
<1>10. driven' # 0 => world'[driven'].sent /\ world'[driven'].class \in {"Player", "Camera"}
  BY <1>3, <1>5 DEF PositionsInv, WorldObjects
<1>11. QED
  BY <1>5, <1>8, <1>9, <1>10 DEF PositionsInv

\* A player is shown where an object of its name was when its pose came, absolute or with
\* the place of the control object; and with the model of its datablock, whether that came
\* first or later (telemetry.py 262-371, ghosts.py 280-297).
THEOREM ShownHolds == PositionsSpec => []ShownAsItWas
<1>1. PositionsInv /\ [PositionsNext]_positionVars => PositionsInv'
  <2> SUFFICES ASSUME PositionsInv, [PositionsNext]_positionVars PROVE PositionsInv'
    OBVIOUS
  <2>1. CASE UNCHANGED positionVars
    BY <2>1 DEF positionVars, PositionsInv, PositionsTyped
  <2>2. QED
    BY <2>1, ServerPositions, DatablockPositions, PacketPositions DEF PositionsNext
<1>2. PositionsInv => ShownAsItWas
  BY DEF PositionsInv, ShowsObject, ShownAsItWas, PlacesTrue, ShapesTrue, Matches, Named
<1>3. QED
  BY InitPositions, <1>1, <1>2, PTL DEF PositionsSpec
=============================================================================
