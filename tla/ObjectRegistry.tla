---------------------------- MODULE ObjectRegistry ----------------------------
(***************************************************************************)
(* telemetry.py: what list_objects() and get_players() show of the ghosts, *)
(* with tracking on.  It follows the ghost table from three places: the    *)
(* control header, which takes effect at once, the events of the burst,    *)
(* and the ghost section, whose effects wait for its commit.  Of a record  *)
(* the class is modelled, not its name, place or model file.               *)
(***************************************************************************)
EXTENDS GhostTable

VARIABLES
  objects,         \* _objects: [scoped, class, self (is_control_object)]
  controlGhost,    \* registry: _control_ghost_id, 0 if None
  headerGhost      \* phases: _control_ghost_id, 0 if None

registryVars == <<objects, controlGhost, headerGhost>>

NoRecord == [scoped |-> FALSE, class |-> NoClass, self |-> FALSE]

RegistryInit ==
  /\ Init
  /\ objects = [id \in Ids |-> NoRecord] /\ controlGhost = 0 /\ headerGhost = 0

-----------------------------------------------------------------------------
(* The registry's operations, on r = [objects, control]                    *)

\* update_from_sink: the record keeps its control flag, a new object or not.
Updated(info, class) == [info EXCEPT !.scoped = TRUE, !.class = class]

SetControl(r, id) ==
  [objects |-> [i \in Ids |->
                  [r.objects[i] EXCEPT !.self = IF i = id THEN r.objects[i] # NoRecord
                                                ELSE @ /\ i # r.control]],
   control |-> id]

\* Mutant: removals are not passed on.
RemovedForgotten(i) == {}

\* remove: the ids a packet takes out.
Removed(i) == {id \in Ids : cargo[i].ops[id] = "remove"}

\* What one packet does: the header, ...
AfterHeader(i, r) ==
  LET id == cargo[i].control
  IN IF id = 0 THEN r
     ELSE SetControl([r EXCEPT !.objects[id] = Updated(@, classes[id])], id)

\* ... then the events, each about an object of its own, up to a last one, ...
AfterObjects(i, r, last) ==
  [r EXCEPT !.objects = [id \in Ids |->
     IF id <= last /\ id \in cargo[i].scoped
     THEN Updated(r.objects[id], cargo[i].class[id]) ELSE r.objects[id]]]

\* ... then the section, when it is committed.  Of its updates, made in the order of
\* the ids, that of the bot's own object unmarks the one before it, unless that has
\* just been removed.
AfterSection(i, r) ==
  LET touched == {id \in Ids : cargo[i].ops[id] \in {"create", "update"}}
      named == headerGhost' \in touched
      old == IF r.control \in Removed(i) /\ r.control < headerGhost' THEN 0 ELSE r.control
  IN [objects |-> [id \in Ids |->
        [scoped |-> (r.objects[id].scoped \/ id \in touched) /\ id \notin Removed(i),
         class |-> IF id \notin touched THEN r.objects[id].class
                   ELSE Staged(i, Scoped(i, BurstSize + 1), id),
         self |-> \/ named /\ id = headerGhost'
                  \/ r.objects[id].self /\ ~(named /\ id = old)]],
      control |-> IF named THEN headerGhost'
                  ELSE IF r.control \in Removed(i) THEN 0 ELSE r.control]

UpToGhosts(i, last) ==
  AfterObjects(i, AfterHeader(i, [objects |-> objects, control |-> controlGhost]), last)

Becomes(r) == objects' = r.objects /\ controlGhost' = r.control

HeaderRead(i) ==
  headerGhost' = IF cargo[i].control = 0 THEN headerGhost ELSE cargo[i].control

-----------------------------------------------------------------------------
\* The control header fails, or it was read and the body fails at event e: the object
\* of e is scoped then, but has no record.
RegistryFailInEvents(i, e) ==
  /\ FailInEvents(i, e)
  /\ \/ /\ classes' = classes /\ consumed' = consumed /\ count' = count
        /\ HeaderRead(i) /\ UNCHANGED <<objects, controlGhost>>
     \/ HeaderRead(i) /\ Becomes(UpToGhosts(i, IF e = 0 THEN 0 ELSE e - 1))

RegistryFailInGhosts(i) ==
  FailInGhosts(i) /\ HeaderRead(i) /\ Becomes(UpToGhosts(i, BurstSize))

RegistryCommit(i) ==
  /\ Commit(i) /\ HeaderRead(i)
  /\ Becomes(AfterSection(i, UpToGhosts(i, BurstSize)))

RegistryNext ==
  \/ /\ UNCHANGED registryVars
     /\ (\E id \in Ids : Scope(id) \/ Unscope(id)) \/ ServerSends \/ ServerNotified \/ HearReady
  \/ \E i \in received + 1 .. sent :
       \/ \E e \in Events : RegistryFailInEvents(i, e)
       \/ RegistryFailInGhosts(i)
       \/ RegistryCommit(i)

RegistrySpec == RegistryInit /\ [][RegistryNext]_<<vars, registryVars>>

-----------------------------------------------------------------------------
\* list_objects
Listed == {id \in Ids : objects[id].scoped}

\* What is listed as scoped is a ghost that exists, shown as what it is, and every ghost
\* is listed, but for an object of the burst whose event did not decode
\* (telemetry.py 290-371 against phases.py 738-747): ids that are reused, packets that
\* fail half-way and removals that are re-sent included.  And the reference of compressed
\* points (phases.py 504-518) is never the record of an object that was removed.
ListedAreGhosts ==
  /\ \A id \in Ids :
       /\ id \in Listed => classes[id] # NoClass /\ objects[id].class = classes[id]
       /\ classes[id] # NoClass /\ ~(id <= BurstSize /\ consumed <= id) => id \in Listed
  /\ controlGhost # 0 => controlGhost \in Listed /\ objects[controlGhost].self

\* At most one listed object is shown as the bot's own (telemetry.py docstring of
\* is_control_object, playerlist.py 228): false, see the README.
OneSelf ==
  \A a, b \in Listed : objects[a].self /\ objects[b].self => a = b
=============================================================================
