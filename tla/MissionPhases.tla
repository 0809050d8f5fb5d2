---------------------------- MODULE MissionPhases ----------------------------
(***************************************************************************)
(* The mission load of phases.py (255-441): MissionStartPhase1 to 3, the   *)
(* data block and ghost-always handshakes, and MissionStart.  Events of    *)
(* either direction are executed once and in order (EventReceiver,         *)
(* CommandSender), so each direction is one queue here.  The server is     *)
(* modelled from the messages the client waits for and answers.            *)
(***************************************************************************)
EXTENDS Naturals, Sequences, FiniteSets

CONSTANTS
  BurstSize,   \* ghost-always objects the server streams in each cycle
  SendsDone,   \* the server ends a burst with a GhostAlwaysDone
  Missions     \* mission cycles the server starts

ASSUME MissionAssumption ==
  BurstSize \in Nat /\ SendsDone \in BOOLEAN /\ Missions \in Nat \ {0}

VARIABLES
  phases,      \* GameConnectionPhases
  mission,     \* the server's load of this client
  toServer,    \* events on their way to the server
  toClient     \* events on their way to the client

missionVars == <<phases, mission, toServer, toClient>>

Message(type, seq) == [type |-> type, seq |-> seq]

FreshPhases ==
  [state |-> "loading", phaseAcked |-> {}, eagerLoginDone |-> FALSE,
   ghostingActive |-> FALSE, ghostingSequence |-> 0,
   seenGhostAlwaysStarting |-> FALSE, ghostAlwaysCount |-> 0,
   readyForNormalSent |-> FALSE]

MissionInit ==
  /\ phases = FreshPhases
  /\ mission = [cycle |-> 1, stage |-> "phase1"]
  /\ toServer = <<>>
  /\ toClient = <<Message("MissionStartPhase1", 1)>>

-----------------------------------------------------------------------------
(* The client: one handler per event, with what it queues for the server.  *)

Got(type) == toClient # <<>> /\ Head(toClient).type = type

\* A ConnectionMessageEvent; its ghost count goes unused.
ConnectionMessage(type) == Got(type)

HeadSeq == Head(toClient).seq

Handled(sent) ==
  /\ toClient' = Tail(toClient)
  /\ toServer' = toServer \o sent

OnPhase1 ==
  /\ Got("MissionStartPhase1")
  /\ phases' = [phases EXCEPT !.state = "phase1_done"]
  /\ Handled(<<Message("Phase1Ack", HeadSeq)>>)

\* The acknowledgement of a phase, unless that phase was acknowledged before.
AckOnce(phase, type) ==
  IF phase \in phases.phaseAcked THEN <<>> ELSE <<Message(type, HeadSeq)>>

\* login: what the hook on_phase2_acked queues; it runs on the first Phase2 only.
OnPhase2(login) ==
  /\ Got("MissionStartPhase2")
  /\ phases' = [phases EXCEPT !.phaseAcked = @ \cup {2}, !.eagerLoginDone = TRUE]
  /\ Handled(AckOnce(2, "Phase2Ack")
             \o IF phases.eagerLoginDone THEN <<>> ELSE login)

OnPhase3 ==
  /\ Got("MissionStartPhase3")
  /\ phases' = [phases EXCEPT !.phaseAcked = @ \cup {3}]
  /\ Handled(AckOnce(3, "Phase3Ack"))

InGame == phases.state = "ingame_loggedout"

\* MissionStart and StartLogin both enter the game; login: the hook on_ingame.
OnEnterInGame(login) ==
  /\ Got("MissionStart") \/ Got("StartLogin")
  /\ phases' = [phases EXCEPT !.state = "ingame_loggedout"]
  /\ Handled(IF InGame THEN <<>> ELSE login)

OnDataBlocksDone ==
  /\ ConnectionMessage("DataBlocksDone")
  /\ Handled(<<Message("DownloadDone", HeadSeq)>>)
  /\ UNCHANGED phases

OnGhostAlwaysStarting ==
  /\ ConnectionMessage("GhostAlwaysStarting")
  /\ phases' = [phases EXCEPT !.ghostingActive = TRUE, !.ghostingSequence = HeadSeq,
                              !.seenGhostAlwaysStarting = TRUE]
  /\ Handled(<<>>)

\* Mutant: answers the stale GhostAlwaysDone that precedes the burst.
MayAnswerBurstEarly == ~phases.readyForNormalSent

\* Both ways to answer a burst: it ended, or it went silent.
MayAnswerBurst ==
  phases.ghostingActive /\ phases.seenGhostAlwaysStarting /\ ~phases.readyForNormalSent

Ready == <<Message("ReadyForNormalGhosts", phases.ghostingSequence)>>

OnGhostAlwaysDone ==
  /\ ConnectionMessage("GhostAlwaysDone")
  /\ phases' = [phases EXCEPT !.readyForNormalSent = @ \/ MayAnswerBurst]
  /\ Handled(IF MayAnswerBurst THEN Ready ELSE <<>>)

\* _on_ghost_scoped, which also notes the time.
OnGhostAlwaysObject ==
  /\ Got("GhostAlwaysObject")
  /\ phases' = IF phases.ghostingActive /\ ~phases.readyForNormalSent
               THEN [phases EXCEPT !.ghostAlwaysCount = @ + 1]
               ELSE phases
  /\ Handled(<<>>)

OnEndGhosting ==
  /\ ConnectionMessage("EndGhosting")
  /\ phases' = [phases EXCEPT !.ghostingActive = FALSE]
  /\ Handled(<<>>)

\* maybe_send_ready_for_normal_ghosts, called after every packet: this one comes 0.4 s
\* after the last object, whether or not the burst is complete.
IdleCheck ==
  /\ MayAnswerBurst /\ phases.ghostAlwaysCount > 0
  /\ phases' = [phases EXCEPT !.readyForNormalSent = TRUE]
  /\ toServer' = toServer \o Ready
  /\ UNCHANGED <<mission, toClient>>

-----------------------------------------------------------------------------
(* The server: what the next message of the load answers with.             *)

Burst ==
  <<Message("GhostAlwaysDone", 0), Message("GhostAlwaysStarting", mission.cycle)>>
  \o [i \in 1..BurstSize |-> Message("GhostAlwaysObject", mission.cycle)]
  \o IF SendsDone THEN <<Message("GhostAlwaysDone", mission.cycle)>> ELSE <<>>

Reply(stage) ==
  CASE stage = "phase1"   -> <<Message("DataBlocksDone", mission.cycle)>>
    [] stage = "download" -> <<Message("MissionStartPhase2", mission.cycle)>>
    [] stage = "phase2"   -> Burst
    [] stage = "ghosting" -> <<Message("MissionStartPhase3", mission.cycle)>>
    [] stage = "phase3"   -> <<Message("MissionStart", mission.cycle),
                               Message("StartLogin", mission.cycle)>>

Awaited == [phase1 |-> "Phase1Ack", download |-> "DownloadDone", phase2 |-> "Phase2Ack",
            ghosting |-> "ReadyForNormalGhosts", phase3 |-> "Phase3Ack"]

NextStage == [phase1 |-> "download", download |-> "phase2", phase2 |-> "ghosting",
              ghosting |-> "phase3", phase3 |-> "done"]

LoadMessages == {Awaited[s] : s \in DOMAIN Awaited}

\* The server takes a message of the load; one it does not wait for changes nothing.
\* held: replies it kept back until the load was complete.
ServerLoads(held) ==
  /\ toServer # <<>> /\ Head(toServer).type \in LoadMessages
  /\ toServer' = Tail(toServer)
  /\ IF /\ mission.stage # "done"
        /\ Head(toServer) = Message(Awaited[mission.stage], mission.cycle)
     THEN /\ mission' = [mission EXCEPT !.stage = NextStage[mission.stage]]
          /\ toClient' = toClient \o Reply(mission.stage)
                         \o (IF mission.stage = "phase3" THEN held ELSE <<>>)
     ELSE UNCHANGED <<mission, toClient>>
  /\ UNCHANGED phases

\* The server ends the mission and loads the next one.
NextMission ==
  /\ mission.stage = "done" /\ mission.cycle < Missions
  /\ mission' = [cycle |-> mission.cycle + 1, stage |-> "phase1"]
  /\ toClient' = toClient \o <<Message("EndGhosting", 0),
                               Message("MissionStartPhase1", mission.cycle + 1)>>
  /\ UNCHANGED <<phases, toServer>>

ClientLoads ==
  \/ OnPhase1 \/ OnPhase3 \/ OnDataBlocksDone \/ OnGhostAlwaysStarting
  \/ OnGhostAlwaysDone \/ OnGhostAlwaysObject \/ OnEndGhosting

=============================================================================
