--------------------------- MODULE ObjectPositions ---------------------------
(***************************************************************************)
(* Where list_objects() and get_players() show the objects: a pose is      *)
(* absolute or relative to the control object, whose place the client      *)
(* takes from its own record of it (telemetry.py, ghosts.py 241-297), and  *)
(* a record is joined to a player by name (playerlist.py 184-232).         *)
(*                                                                         *)
(* The server is external.  Whether a ghost is created, updated or removed *)
(* is GhostTable's matter: a packet is here one step, and a lost one is    *)
(* none; the objects may be anywhere when it is written.  Records outlive  *)
(* their objects and are used again for the next object with the id.       *)
(* Places are on a ring; a class has one datablock.                        *)
(***************************************************************************)
EXTENDS Integers, FiniteSets

CONSTANTS
  Ghosts,          \* ghost ids, natural numbers above 0
  Names,           \* names of players; an AIPlayer may have one of them
  Room,            \* the places: 0 .. Room - 1
  MaxObjects       \* bound: objects the server creates

ASSUME PositionsAssumption ==
  /\ Ghosts \subseteq Nat \ {0} /\ Room \in Nat \ {0} /\ MaxObjects \in Nat
  /\ "none" \notin Names

Places == 0 .. Room - 1

VARIABLES
  world,       \* server: the object of each ghost id, [class, name, sent]
  driven,      \* server: the control object, 0 if there is none
  created,     \* server: objects created so far
  records,     \* _objects
  controlId,   \* _control_ghost_id
  datablocks,  \* _datablocks: the classes whose datablock has been recorded
  newest       \* history: the pose that came last, [name, place, sure], and whether the
               \* record has had one object only

positionVars == <<world, driven, created, records, controlId, datablocks, newest>>

Named == {"Player", "AIPlayer"}
NoObject == [class |-> "none", name |-> "none", sent |-> FALSE]
NoPlace == [known |-> FALSE, at |-> 0]
At(place) == [known |-> TRUE, at |-> place]
EmptyRecord == [scoped |-> FALSE, class |-> "none", name |-> "none", data |-> "none",
                shape |-> "none", position |-> NoPlace]

PositionsInit ==
  /\ world = [id \in Ghosts |-> NoObject] /\ driven = 0 /\ created = 0
  /\ records = [id \in Ghosts |-> EmptyRecord] /\ controlId = 0 /\ datablocks = {}
  /\ newest = [id \in Ghosts |-> [name |-> "none", place |-> 0, sure |-> FALSE, objects |-> 0]]

-----------------------------------------------------------------------------
(* The server *)

Enters(id) ==
  /\ world[id].class = "none" /\ created < MaxObjects /\ created' = created + 1
  /\ \E o \in [class : Named, name : Names] \union [class : {"Camera"}, name : {"none"}] :
       world' = [world EXCEPT ![id] = [class |-> o.class, name |-> o.name, sent |-> FALSE]]
  /\ UNCHANGED <<driven, records, controlId, datablocks, newest>>

Leaves(id) ==
  /\ world[id].class \notin {"none", "gone"}
  /\ world' = [world EXCEPT ![id] = IF @.sent THEN [@ EXCEPT !.class = "gone"] ELSE NoObject]
  /\ driven' = IF driven = id THEN 0 ELSE driven
  /\ UNCHANGED <<created, records, controlId, datablocks, newest>>

\* Login, death, dropCameraAtPlayer, logout.
Drives(id) ==
  /\ id # 0 => world[id].class \in {"Player", "Camera"} /\ world[id].sent
  /\ id # driven /\ driven' = id
  /\ UNCHANGED <<world, created, records, controlId, datablocks, newest>>

-----------------------------------------------------------------------------
(* The client *)

\* record_datablock: back-fills the records that point at it.
Recorded(class) ==
  /\ datablocks' = datablocks \union {class}
  /\ records' = [id \in Ghosts |->
       IF records[id].data = class /\ records[id].shape = "none"
       THEN [records[id] EXCEPT !.shape = class] ELSE records[id]]

\* A SimDataBlockEvent.  (An empty one does nothing, one of a class that is not decoded
\* fails its packet.)
DatablockRead(class) ==
  Recorded(class) /\ UNCHANGED <<world, driven, created, controlId, newest>>

Placed(record, place) == IF place.known THEN [record EXCEPT !.position = place] ELSE record

Controlled == IF driven = 0 THEN controlId ELSE driven

\* The records after the header, update_from_sink(is_control).
Headed(place) ==
  IF driven = 0 THEN records
  ELSE [records EXCEPT ![driven] = Placed([@ EXCEPT !.scoped = TRUE], place)]

\* Mutant: the reference is taken before the header is read.
ReferenceOfLastPacket(headed) ==
  IF controlId = 0 THEN NoPlace ELSE records[controlId].position

\* set_compression_point: wherever the record has the control object.
Reference(headed) == IF Controlled = 0 THEN NoPlace ELSE headed[Controlled].position

\* readCompressedPoint: a relative pose is left out when there is no reference.  The
\* server's reference is its camera: where the control object is, if there is one.
ReadPlace(place, absolute, camera, reference) ==
  IF absolute THEN At(place)
  ELSE IF ~reference.known THEN NoPlace
  ELSE At((place - camera + reference.at) % Room)

\* update_from_sink of a ghost; only its creation has the name and the datablock.
Created(record, o) ==
  [record EXCEPT !.scoped = TRUE, !.class = o.class, !.data = o.class,
                 !.name = IF o.name = "none" THEN @ ELSE o.name,
                 !.shape = IF o.class \in datablocks THEN o.class ELSE @]

Ghosted(record, id, posed, place) ==
  CASE world[id].class = "gone" -> [record EXCEPT !.scoped = FALSE]
    [] world[id].class # "gone" /\ posed ->
         Placed(IF world[id].sent THEN record ELSE Created(record, world[id]),
                IF world[id].class \in Named THEN place ELSE NoPlace)
    [] OTHER -> record

LastPose(id, place, posed, sure, header) ==
  LET before == newest[id]
      new == ~world[id].sent
  IN IF posed
     THEN [name |-> world[id].name, place |-> IF sure THEN place ELSE 0, sure |-> sure,
           objects |-> before.objects + IF new /\ before.objects < 2 THEN 1 ELSE 0]
     ELSE IF id = driven /\ header
     THEN [before EXCEPT !.place = place, !.sure = TRUE]
     ELSE before

\* A packet: the header, removals, and the creations and poses that fit in.  (Objects that
\* are not in it are at 0.)  The header brings the place of a control object that is a
\* player and not mounted; that of a camera is read over.
PacketRead ==
  \E posed \in SUBSET {id \in Ghosts : world[id].class \notin {"none", "gone"}} :
  \E absolute \in SUBSET {id \in posed : world[id].class \in Named},
     places \in [Ghosts -> Places], camera \in Places, header \in BOOLEAN :
    LET headed == Headed(IF header THEN At(camera) ELSE NoPlace)
        reference == Reference(headed)
    IN
    /\ \A id \in Ghosts : id \in posed \union {driven} \/ places[id] = 0
    /\ driven # 0 => camera = places[driven]
    /\ \A id \in posed : id = driven /\ world[id].class \in Named => id \in absolute
    /\ header => driven # 0 /\ world[driven].class = "Player"
    /\ records' = [id \in Ghosts |->
         Ghosted(headed[id], id, id \in posed,
                 ReadPlace(places[id], id \in absolute, camera, reference))]
    /\ controlId' = IF \E id \in Ghosts : id = Controlled /\ world[id].class = "gone"
                       THEN 0 ELSE Controlled
    /\ world' = [id \in Ghosts |->
         IF world[id].class = "gone" THEN NoObject
         ELSE IF id \in posed THEN [world[id] EXCEPT !.sent = TRUE] ELSE world[id]]
    /\ newest' = [id \in Ghosts |->
         LastPose(id, places[id], id \in posed, id \in absolute \/ header, header)]
    /\ UNCHANGED <<driven, created, datablocks>>

PositionsNext ==
  \/ \E id \in Ghosts : Enters(id) \/ Leaves(id)
  \/ \E id \in Ghosts \union {0} : Drives(id)
  \/ DatablockRead("Player")
  \/ PacketRead

PositionsSpec == PositionsInit /\ [][PositionsNext]_positionVars

-----------------------------------------------------------------------------
\* match_player_objects: the records that may be shown as the object of a player.
Matches(name) ==
  {id \in Ghosts : LET r == records[id]
                   IN r.scoped /\ r.class = "Player" /\ r.name = name}

\* A player is shown where an object of that name was when its pose came, absolute or in
\* a packet that also brought the place of the control object.
PlacesTrue ==
  \A name \in Names : \A id \in Matches(name) :
    /\ newest[id].name = name
    /\ newest[id].sure => records[id].position = At(newest[id].place)

\* The first object of a record is shown with the model of its datablock as soon as that
\* is known, whichever comes first.
ShapesTrue ==
  \A id \in Ghosts :
    records[id].scoped /\ newest[id].objects = 1 =>
      records[id].shape = IF records[id].data \in datablocks THEN records[id].data ELSE "none"

\* A player is shown where an object of its name was when its pose came, absolute or with
\* the place of the control object (telemetry.py 290-371, ghosts.py 280-297); and with the
\* model of its datablock, whether that came first or later (telemetry.py 262-280).
ShownAsItWas == PlacesTrue /\ ShapesTrue
=============================================================================
