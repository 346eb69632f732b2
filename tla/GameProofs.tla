----------------------------- MODULE GameProofs -----------------------------
(***************************************************************************)
(* What holds of every Game, for any finite set of players and any         *)
(* MinPlayers >= 2.  PcInv .. PresenceInv strengthen the safety            *)
(* properties of Game into an invariant that each step preserves.          *)
(***************************************************************************)
EXTENDS Game, FiniteSetTheorems, TLAPS

-----------------------------------------------------------------------------
(* Type correctness *)

\* The observer's steps respect the types.
LEMMA ObserverTypeOK ==
    ASSUME TypeOK, NEW p \in Player, ObserverStep(p)
    PROVE  TypeOK'
<1>8. CASE ExitReadsStarted(p)
  <2>1. ASSUME NEW S \in SUBSET Player, NEW c PROVE With(S, p, c) \in SUBSET Player
    BY DEF With
  <2>2. ASSUME NEW S \in SUBSET Player, NEW T \in SUBSET Player
        PROVE  [hist EXCEPT !.early = S, !.quiet = T] \in History
    BY DEF TypeOK, History
  <2>3. \/ hist' = hist
        \/ hist' = [hist EXCEPT !.early = With(@, p, Starting),
                                !.quiet = With(@, p, Briefed(p) \/ p = sPlayer)]
    BY <1>8, Zenon DEF ExitReadsStarted
  <2>4. /\ With(hist.early, p, Starting) \in SUBSET Player
        /\ With(hist.quiet, p, Briefed(p) \/ p = sPlayer) \in SUBSET Player
    BY <2>1 DEF TypeOK, History
  <2>5. hist' \in History
    BY <2>2, <2>3, <2>4 DEF TypeOK
  <2> QED
    BY <1>8, <2>5 DEF ExitReadsStarted, TypeOK, ObserverPc, Role, starterVars,
       finisherVars
<1> USE GameAssumption DEF TypeOK, Role, Message, History, ObserverPc, With,
        starterVars, finisherVars
<1>1. CASE ObserveMove(p)
    BY <1>1 DEF ObserveMove, ObserverAlone
<1>2. CASE Join(p)
    BY <1>2 DEF Join
<1>3. CASE ChaseLooks(p) \/ ChaseMisses(p)
    BY <1>3 DEF ChaseLooks, ChaseMisses, ObserverAlone
<1>4. CASE ChaseReaches(p)
    BY <1>4 DEF ChaseReaches, Delete
<1>5. CASE TellCaught(p)
  <2>1. told' \in [Player -> SUBSET Message]
    BY <1>5 DEF TellCaught, Tell
  <2> QED
    BY <1>5, <2>1 DEF TellCaught
<1>6. CASE TellReached(p)
    BY <1>6 DEF TellReached, Tell, Stop, Armed
<1>7. CASE ObserveExit(p)
    BY <1>7 DEF ObserveExit, Delete
<1>9. CASE ExitCounts(p)
  <2>1. CASE LeavesOneBehind(p)
    BY <1>9, <2>1 DEF ExitCounts, LeavesOneBehind, Stop, Armed
  <2>2. CASE TargetLeaves(p)
    BY <1>9, <2>2 DEF ExitCounts, TargetLeaves, Stop, Armed
  <2>3. CASE OtherLeaves(p)
    BY <1>9, <2>3 DEF ExitCounts, OtherLeaves
  <2> QED
    BY <1>9, <2>1, <2>2, <2>3 DEF ExitCounts
<1>10. CASE ExitCountsAgain(p)
  <2>1. CASE LastHunterLeaves(p)
    BY <1>10, <2>1 DEF ExitCountsAgain, LastHunterLeaves, Stop, Armed
  <2>2. CASE HunterLeaves(p)
    BY <1>10, <2>2 DEF ExitCountsAgain, HunterLeaves
  <2> QED
    BY <1>10, <2>1, <2>2 DEF ExitCountsAgain
<1> QED
    BY <1>1, <1>2, <1>3, <1>4, <1>5, <1>6, <1>7, <1>8, <1>9, <1>10
       DEF ObserverStep, ChaseStep, ExitStep

\* The steps of the starter and of the finisher respect the types.
LEMMA StarterTypeOK ==
    ASSUME TypeOK, StarterTurn
    PROVE  TypeOK'
<1> USE GameAssumption DEF TypeOK, Role, Message, StarterPc, FinisherPc, Crash,
        Members, finisherVars, observerVars
<1>1. CASE Ready
    BY <1>1 DEF Ready
<1>2. CASE Collect
    BY <1>2 DEF Collect
<1>3. ASSUME NEW p \in Player, Pick(p) PROVE TypeOK'
    BY <1>3 DEF Pick
<1>4. ASSUME NEW p \in Player, Brief(p) PROVE TypeOK'
  <2>1. role' \in [Player -> Role]
    BY <1>4 DEF Brief
  <2> QED
    BY <1>4, <2>1 DEF Brief
<1>5. CASE TellRole
  <2>1. told' \in [Player -> SUBSET Message]
    BY <1>5 DEF TellRole, Tell
  <2> QED
    BY <1>5, <2>1 DEF TellRole
<1>6. CASE Launch
    BY <1>6 DEF Launch
<1>7. CASE StarterStops
    BY <1>7 DEF StarterStops
<1> QED
    BY <1>1, <1>2, <1>3, <1>4, <1>5, <1>6, <1>7 DEF StarterTurn, StarterStep

LEMMA FinisherTypeOK ==
    ASSUME TypeOK, FinisherStep
    PROVE  TypeOK'
<1>7. CASE Flag
    BY <1>7 DEF Flag, TypeOK, FinisherPc, starterVars, observerVars
<1> USE GameAssumption DEF TypeOK, Role, Message, FinisherPc, Crash, Members,
        starterVars, observerVars
<1>1. CASE Arm
    BY <1>1 DEF Arm
<1>2. CASE TargetWins
    BY <1>2 DEF TargetWins, Tell
<1>3. CASE RankPlayers
    BY <1>3 DEF RankPlayers
<1>4. CASE FinishLooks
    BY <1>4 DEF FinishLooks
<1>8. CASE FinishCancels
    BY <1>8 DEF FinishCancels
<1>5. CASE Publish
    BY <1>5 DEF Publish
<1>6. CASE Reset
    BY <1>6 DEF Reset
<1> QED
    BY <1>1, <1>2, <1>3, <1>4, <1>5, <1>6, <1>7, <1>8 DEF FinisherStep

\* Every variable keeps its type, whatever the interleaving.
THEOREM TypeCorrect == Spec => []TypeOK
<1>1. ASSUME Init PROVE TypeOK
  <2>1. role \in [Player -> Role] /\ told \in [Player -> SUBSET Message]
    BY <1>1 DEF Init, Role
  <2>2. hist \in History
    BY <1>1 DEF Init, History
  <2> QED
    BY <1>1, <2>1, <2>2
       DEF Init, TypeOK, Role, StarterPc, FinisherPc, ObserverPc, Crash
<1>2. TypeOK /\ [Next]_vars => TypeOK'
  <2> SUFFICES ASSUME TypeOK, [Next]_vars PROVE TypeOK'
    OBVIOUS
  <2> USE DEF TypeOK, starterVars, finisherVars, observerVars
  <2>1. CASE UNCHANGED vars
    BY <2>1 DEF vars
  <2>2. ASSUME NEW p \in Player, ObserverStep(p) PROVE TypeOK'
    BY <2>2, ObserverTypeOK
  <2>3. CASE StarterTurn
    BY <2>3, StarterTypeOK
  <2>4. CASE FinisherStep
    BY <2>4, FinisherTypeOK
  <2>5. ASSUME NEW p \in Player, TellLoose(p) PROVE TypeOK'
    BY <2>5 DEF TellLoose, Tell, Message
  <2>6. CASE Dial \/ ObserverStops
    BY <2>6 DEF Dial, ObserverStops, ObserverAlone, ObserverPc
  <2>7. CASE WatcherStep
    BY <2>7 DEF WatcherStep, WatcherLooks, WatcherCancels, WatcherLooksAgain,
       ObserverPc, Crash
  <2>8. CASE Timeout \/ Cancel \/ MapFault
    BY <2>8 DEF Timeout, Cancel, MapFault, Crash
  <2> QED
    BY <2>1, <2>2, <2>3, <2>4, <2>5, <2>6, <2>7, <2>8
       DEF Next, Alive, Ended, Step, StarterTurn
<1> QED
    BY <1>1, <1>2, PTL DEF Spec

-----------------------------------------------------------------------------
(* The inductive invariant *)

\* Where the goroutines can be relative to each other.
PcInv ==
    /\ started <=> fPc \in {"spawned", "armed"}
    /\ fPc # "none" => sPc = "done"
    /\ sPc # "refused"
    /\ fPc # "none" \/ Briefing => target \in Player
    /\ fPc = "none" /\ ~Briefing => target = NoPlayer
    /\ IF sPc = "tell" THEN sPlayer \in Player ELSE sPlayer = NoPlayer
    /\ oPc \in {"join", "chase", "aim", "grab", "jeer", "left", "count", "count0"} =>
        oPlayer \in Player
    /\ oPc \in {"chase", "aim", "grab", "jeer", "count", "count0", "error"} =>
        fPc # "none"
    /\ oPc = "count0" => oPlayer # target
    /\ fPc \notin {"none", "spawned", "armed"} => GameDone

\* S is about to tell p the role r.
Telling(p, r) == sPc = "tell" /\ sPlayer = p /\ sRole = r

\* Who holds a role, in the map or in the entry RemovePlayer took out, is its
\* right holder and was told, or is still to be told by the loop of S.
RoleInv ==
    /\ \A p \in Player :
        /\ role[p] = "hunter" => "hunter" \in told[p] \/ Telling(p, "hunter")
        /\ role[p] = "target" =>
            /\ p = target
            /\ "target" \in told[p] \/ (Briefing /\ p \in todo) \/ Telling(p, "target")
        /\ "hunter" \in told[p] => target \in Player /\ p # target
    /\ Telling(sPlayer, "hunter") => sPlayer # target
    /\ \A p \in Player : Leaving(p) =>
        /\ oRole = "hunter" => "hunter" \in told[p] \/ Telling(p, "hunter")
        /\ oRole = "target" => p = target
    /\ oPc \in {"chase", "aim", "grab", "jeer"} => "hunter" \in told[oPlayer]

\* From the start of the loop of S to the end of the round, a player without a
\* role is one the loop has yet to visit, or came late.
BriefInv ==
    /\ IF Briefing THEN todo \cup extra \subseteq Members ELSE extra = {}
    /\ oPc = "join" => role[oPlayer] = "out"
    /\ Briefing => \A p \in Player :
        role[p] = "undefined" => p \in todo \cup hist.late
    /\ Briefing /\ target \in todo => role[target] = "target"
    /\ started => \A p \in Player : role[p] = "undefined" => p \in hist.late

\* After a capture nobody can begin another one.
CatchInv ==
    /\ oPc \in {"grab", "jeer"} => role[target] = "out"
    /\ \A p \in Player : "reached" \in told[p] =>
        /\ "hunter" \in told[p]
        /\ fPc # "none"
        /\ started => oPc # "join" /\ role[target] = "out"
        /\ oPc = "chase" => role[target] = "out"
        /\ oPc \notin {"aim", "grab", "jeer"}
        /\ \A q \in Player : "reached" \in told[q] => p = q

\* The players in the map and the one RemovePlayer is taking out of it.
Present == {p \in Player : role[p] # "out" \/ Leaving(p)}

\* A round that was not surprised has two players, one of them the target, or
\* is on its way to stop.
PresenceInv ==
    /\ Starting /\ hist.early = {} => Cardinality(Present) >= MinPlayers
    /\ Briefing /\ hist.early = {} => target \in Present
    /\ started /\ oPc \notin {"grab", "jeer"} =>
        \/ GameDone \/ Surprised
        \/ Cardinality(Present) >= 2 /\ target \in Present
    /\ started /\ oPc = "count0" => Cardinality(Members) # 1

\* No detection was handled, so S never starts.
Unvisited == Members = {} /\ fPc = "none" /\ sPc \in {"waiting", "done"}

\* O fails before it ever ran, or in a round told to stop, or surprised.
ErrorInv ==
    /\ oPc \in {"dialing", "refused"} => Unvisited
    /\ oPc \in {"error", "found", "reported"} => Unvisited \/ GameDone \/ Surprised

IInv == PcInv /\ RoleInv /\ BriefInv /\ CatchInv /\ PresenceInv /\ ErrorInv

-----------------------------------------------------------------------------
(* Each part of the invariant is preserved by every step *)

\* The program counters keep in step with each other.
LEMMA PcStep ==
    ASSUME TypeOK, PcInv, [Next]_vars
    PROVE  PcInv'
<1> USE GameAssumption DEF TypeOK, PcInv, Armed, GameDone, Briefing, starterVars,
       finisherVars, observerVars
<1>1. CASE UNCHANGED vars
    BY <1>1 DEF vars
<1>2. ASSUME NEW p \in Player, ObserveMove(p) \/ Join(p) \/ ChaseLooks(p)
                               \/ ChaseMisses(p)
      PROVE  PcInv'
    BY <1>2 DEF ObserveMove, Join, ChaseLooks, ChaseMisses, ObserverAlone
<1>3. ASSUME NEW p \in Player, ChaseReaches(p) \/ ObserveExit(p)
      PROVE  PcInv'
    BY <1>3 DEF ChaseReaches, ObserveExit, Delete
<1>4. ASSUME NEW p \in Player, TellCaught(p) \/ TellReached(p) \/ TellLoose(p)
      PROVE  PcInv'
    BY <1>4 DEF TellCaught, TellReached, TellLoose, Stop
<1>5. ASSUME NEW p \in Player, ExitReadsStarted(p)
      PROVE  PcInv'
    BY <1>5 DEF ExitReadsStarted
<1>6. ASSUME NEW p \in Player, ExitCounts(p)
      PROVE  PcInv'
    BY <1>6 DEF ExitCounts, LeavesOneBehind, TargetLeaves, OtherLeaves, Stop
<1>7. ASSUME NEW p \in Player, ExitCountsAgain(p)
      PROVE  PcInv'
    BY <1>7 DEF ExitCountsAgain, LastHunterLeaves, HunterLeaves, Stop
<1>8. ASSUME NEW p \in Player, Pick(p) \/ Brief(p)
      PROVE  PcInv'
    BY <1>8 DEF Pick, Brief
<1>9. CASE Ready \/ Collect \/ TellRole \/ Launch \/ StarterStops
    BY <1>9 DEF Ready, Collect, TellRole, Launch, StarterStops
<1>10. CASE Arm \/ Flag \/ TargetWins \/ RankPlayers
    BY <1>10 DEF Arm, Flag, TargetWins, RankPlayers
<1>11. CASE FinishLooks \/ FinishCancels \/ Publish \/ Reset
    BY <1>11 DEF FinishLooks, FinishCancels, Publish, Reset
<1>12. CASE Dial \/ ObserverStops \/ Timeout \/ Cancel \/ MapFault
    BY <1>12 DEF Dial, ObserverStops, ObserverAlone, Timeout, Cancel, MapFault
<1>13. CASE WatcherStep
    BY <1>13 DEF WatcherStep, WatcherLooks, WatcherCancels, WatcherLooksAgain
<1> QED
    BY <1>1, <1>2, <1>3, <1>4, <1>5, <1>6, <1>7, <1>8, <1>9, <1>10, <1>11,
       <1>12, <1>13
       DEF Next, Alive, Ended, Step, ObserverStep, ChaseStep, ExitStep,
           StarterStep, FinisherStep

\* Roles stay with the players they were given to.
LEMMA RoleStep ==
    ASSUME TypeOK, PcInv, RoleInv, [Next]_vars
    PROVE  RoleInv'
<1> USE GameAssumption DEF TypeOK, PcInv, RoleInv, Telling, Briefing, Leaving,
       Role, Message, starterVars, finisherVars, observerVars
<1>1. CASE UNCHANGED vars
    BY <1>1 DEF vars
<1>2. ASSUME NEW p \in Player, ObserveMove(p) \/ Join(p) \/ ChaseLooks(p)
                               \/ ChaseMisses(p)
      PROVE  RoleInv'
    BY <1>2 DEF ObserveMove, Join, ChaseLooks, ChaseMisses, ObserverAlone
<1>3. ASSUME NEW p \in Player, ChaseReaches(p) \/ ObserveExit(p)
      PROVE  RoleInv'
    BY <1>3 DEF ChaseReaches, ObserveExit, Delete
<1>4. ASSUME NEW p \in Player, TellCaught(p) \/ TellReached(p) \/ TellLoose(p)
      PROVE  RoleInv'
    BY <1>4 DEF TellCaught, TellReached, TellLoose, Tell
<1>5. ASSUME NEW p \in Player, ExitReadsStarted(p)
      PROVE  RoleInv'
    BY <1>5 DEF ExitReadsStarted
<1>6. ASSUME NEW p \in Player, ExitCounts(p)
      PROVE  RoleInv'
    BY <1>6 DEF ExitCounts, LeavesOneBehind, TargetLeaves, OtherLeaves
<1>7. ASSUME NEW p \in Player, ExitCountsAgain(p)
      PROVE  RoleInv'
    BY <1>7 DEF ExitCountsAgain, LastHunterLeaves, HunterLeaves
<1>8. ASSUME NEW p \in Player, Pick(p)
      PROVE  RoleInv'
  <2>1. /\ target = NoPlayer /\ UNCHANGED <<oPc, oPlayer, oRole, told>>
        /\ sPc = "pick" /\ sPc' \in {"pick", "brief"} /\ sPlayer' = NoPlayer
    BY <1>8 DEF Pick
  <2>2. \A q \in Player : "hunter" \notin told[q] /\ role[q] \notin {"hunter", "target"}
    BY <2>1
  <2>3. /\ oPc \notin {"chase", "aim", "grab", "jeer"}
        /\ \A q \in Player : Leaving(q) => oRole \notin {"hunter", "target"}
    BY <2>1, <2>2
  <2>4. \A q \in Player : role'[q] = "target" => q = target' /\ sPc' = "brief" /\ q \in todo'
    BY <2>2, <1>8 DEF Pick, Members
  <2>5. \A q \in Player : role'[q] # "hunter"
    BY <2>2, <1>8 DEF Pick
  <2> QED
    BY <2>1, <2>2, <2>3, <2>4, <2>5
<1>9. ASSUME NEW p \in Player, Brief(p)
      PROVE  RoleInv'
    BY <1>9 DEF Brief
<1>10. CASE TellRole
    BY <1>10 DEF TellRole, Tell
<1>11. CASE Ready \/ Collect \/ Launch \/ StarterStops
    BY <1>11 DEF Ready, Collect, Launch, StarterStops
<1>12. CASE Arm \/ Flag \/ TargetWins \/ RankPlayers
    BY <1>12 DEF Arm, Flag, TargetWins, RankPlayers, Tell
<1>13. CASE FinishLooks \/ FinishCancels \/ Publish \/ Reset
    BY <1>13 DEF FinishLooks, FinishCancels, Publish, Reset
<1>14. CASE Dial \/ ObserverStops \/ Timeout \/ Cancel \/ MapFault
    BY <1>14 DEF Dial, ObserverStops, ObserverAlone, Timeout, Cancel, MapFault
<1>15. CASE WatcherStep
    BY <1>15 DEF WatcherStep, WatcherLooks, WatcherCancels, WatcherLooksAgain
<1> QED
    BY <1>1, <1>2, <1>3, <1>4, <1>5, <1>6, <1>7, <1>8, <1>9, <1>10, <1>11,
       <1>12, <1>13, <1>14, <1>15
       DEF Next, Alive, Ended, Step, ObserverStep, ChaseStep, ExitStep,
           StarterStep, FinisherStep

\* The loop of S misses nobody but latecomers.
LEMMA BriefStep ==
    ASSUME TypeOK, PcInv, BriefInv, [Next]_vars
    PROVE  BriefInv'
<1> USE GameAssumption DEF TypeOK, PcInv, BriefInv, Briefing, Role, History, With,
       Members, starterVars, finisherVars, observerVars
<1>1. CASE UNCHANGED vars
    BY <1>1 DEF vars
<1>2. ASSUME NEW p \in Player, ObserveMove(p) \/ ChaseLooks(p) \/ ChaseMisses(p)
      PROVE  BriefInv'
    BY <1>2 DEF ObserveMove, ChaseLooks, ChaseMisses, ObserverAlone
<1>3. ASSUME NEW p \in Player, Join(p)
      PROVE  BriefInv'
  <2>1. /\ role' = [role EXCEPT ![p] = "undefined"]
        /\ hist.late \subseteq hist'.late
        /\ Briefing \/ started => p \in hist'.late
        /\ UNCHANGED <<sPc, started, target, todo>>
    BY <1>3 DEF Join
  <2>2. Briefing /\ target \in todo => role'[target] = "target"
    BY <2>1, <1>3 DEF Join
  <2>3. /\ IF Briefing THEN todo \cup extra' \subseteq Members' ELSE extra' = {}
        /\ oPc' = "idle"
    BY <2>1, <1>3 DEF Join
  <2>4. \A q \in Player : role'[q] = "undefined" => q = p
      \/ role[q] = "undefined"
    BY <2>1
  <2> QED
    BY <2>1, <2>2, <2>3, <2>4
<1>4. ASSUME NEW p \in Player, ChaseReaches(p) \/ ObserveExit(p)
      PROVE  BriefInv'
    BY <1>4 DEF ChaseReaches, ObserveExit, Delete
<1>5. ASSUME NEW p \in Player, TellCaught(p) \/ TellReached(p) \/ TellLoose(p)
      PROVE  BriefInv'
    BY <1>5 DEF TellCaught, TellReached, TellLoose
<1>6. ASSUME NEW p \in Player, ExitReadsStarted(p)
      PROVE  BriefInv'
    BY <1>6 DEF ExitReadsStarted
<1>7. ASSUME NEW p \in Player, ExitCounts(p)
      PROVE  BriefInv'
    BY <1>7 DEF ExitCounts, LeavesOneBehind, TargetLeaves, OtherLeaves
<1>8. ASSUME NEW p \in Player, ExitCountsAgain(p)
      PROVE  BriefInv'
  <2>1. sPc = "done" /\ UNCHANGED <<sPc, started, extra>> /\ oPc' = "idle"
    BY <1>8 DEF ExitCountsAgain
  <2>2. CASE LastHunterLeaves(p)
    <3>1. \A q \in Player :
              role'[q] = "undefined" => role[q] = "undefined" \/ q = p
      BY <2>2 DEF LastHunterLeaves
    <3>2. /\ hist.late \subseteq hist'.late
          /\ role'[p] = "undefined" => p \in hist'.late
      BY <2>2 DEF LastHunterLeaves
    <3> QED
      BY <2>1, <3>1, <3>2
  <2>3. CASE HunterLeaves(p)
    BY <2>1, <2>3 DEF HunterLeaves
  <2> QED
    BY <1>8, <2>2, <2>3 DEF ExitCountsAgain
<1>9. ASSUME NEW p \in Player, Pick(p)
      PROVE  BriefInv'
    BY <1>9 DEF Pick
<1>10. ASSUME NEW p \in Player, Brief(p)
      PROVE  BriefInv'
    BY <1>10 DEF Brief
<1>11. CASE Ready \/ Collect \/ TellRole \/ Launch \/ StarterStops
    BY <1>11 DEF Ready, Collect, TellRole, Launch, StarterStops
<1>12. CASE Arm \/ Flag \/ TargetWins \/ RankPlayers
    BY <1>12 DEF Arm, Flag, TargetWins, RankPlayers
<1>13. CASE FinishLooks \/ FinishCancels \/ Publish \/ Reset
    BY <1>13 DEF FinishLooks, FinishCancels, Publish, Reset
<1>14. CASE Dial \/ ObserverStops \/ Timeout \/ Cancel \/ MapFault
    BY <1>14 DEF Dial, ObserverStops, ObserverAlone, Timeout, Cancel, MapFault
<1>15. CASE WatcherStep
    BY <1>15 DEF WatcherStep, WatcherLooks, WatcherCancels, WatcherLooksAgain
<1> QED
    BY <1>1, <1>2, <1>3, <1>4, <1>5, <1>6, <1>7, <1>8, <1>9, <1>10, <1>11,
       <1>12, <1>13, <1>14, <1>15
       DEF Next, Alive, Ended, Step, ObserverStep, ChaseStep, ExitStep,
           StarterStep, FinisherStep

\* A capture stays the only one.
LEMMA CatchStep ==
    ASSUME TypeOK, PcInv, RoleInv, CatchInv, [Next]_vars
    PROVE  CatchInv'
<1> USE GameAssumption DEF TypeOK, PcInv, RoleInv, CatchInv, Briefing, Telling,
       Role, Message, starterVars, finisherVars, observerVars
<1>1. CASE UNCHANGED vars
    BY <1>1 DEF vars
<1>2. ASSUME NEW p \in Player, ObserveMove(p) \/ Join(p) \/ ChaseLooks(p)
                               \/ ChaseMisses(p)
      PROVE  CatchInv'
    BY <1>2 DEF ObserveMove, Join, ChaseLooks, ChaseMisses, ObserverAlone
<1>3. ASSUME NEW p \in Player, ChaseReaches(p) \/ ObserveExit(p)
      PROVE  CatchInv'
    BY <1>3 DEF ChaseReaches, ObserveExit, Delete
<1>4. ASSUME NEW p \in Player, TellCaught(p) \/ TellReached(p) \/ TellLoose(p)
      PROVE  CatchInv'
    BY <1>4 DEF TellCaught, TellReached, TellLoose, Tell
<1>5. ASSUME NEW p \in Player, ExitReadsStarted(p)
      PROVE  CatchInv'
    BY <1>5 DEF ExitReadsStarted
<1>6. ASSUME NEW p \in Player, ExitCounts(p)
      PROVE  CatchInv'
    BY <1>6 DEF ExitCounts, LeavesOneBehind, TargetLeaves, OtherLeaves
<1>7. ASSUME NEW p \in Player, ExitCountsAgain(p)
      PROVE  CatchInv'
    BY <1>7 DEF ExitCountsAgain, LastHunterLeaves, HunterLeaves
<1>8. ASSUME NEW p \in Player, Pick(p) \/ Brief(p)
      PROVE  CatchInv'
    BY <1>8 DEF Pick, Brief
<1>9. CASE TellRole
    BY <1>9 DEF TellRole, Tell
<1>10. CASE Ready \/ Collect \/ Launch \/ StarterStops
    BY <1>10 DEF Ready, Collect, Launch, StarterStops
<1>11. CASE Arm \/ Flag \/ TargetWins \/ RankPlayers
    BY <1>11 DEF Arm, Flag, TargetWins, RankPlayers, Tell
<1>12. CASE FinishLooks \/ FinishCancels \/ Publish \/ Reset
    BY <1>12 DEF FinishLooks, FinishCancels, Publish, Reset
<1>13. CASE Dial \/ ObserverStops \/ Timeout \/ Cancel \/ MapFault
    BY <1>13 DEF Dial, ObserverStops, ObserverAlone, Timeout, Cancel, MapFault
<1>14. CASE WatcherStep
    BY <1>14 DEF WatcherStep, WatcherLooks, WatcherCancels, WatcherLooksAgain
<1> QED
    BY <1>1, <1>2, <1>3, <1>4, <1>5, <1>6, <1>7, <1>8, <1>9, <1>10, <1>11,
       <1>12, <1>13, <1>14
       DEF Next, Alive, Ended, Step, ObserverStep, ChaseStep, ExitStep,
           StarterStep, FinisherStep

\* A round that no exit surprised keeps two players and its target.  Most steps
\* take no player away, undo no stop and begin nothing (Same); the others are the
\* start of a round, a capture and its stop, and the exits.
LEMMA PresenceStep ==
    ASSUME TypeOK, PcInv, PcInv', PresenceInv, [Next]_vars
    PROVE  PresenceInv'
<1> USE DEF starterVars, finisherVars, observerVars
<1>1. /\ IsFiniteSet(Members) /\ IsFiniteSet(Present) /\ IsFiniteSet(Present')
      /\ Cardinality(Present) \in Nat /\ Cardinality(Present') \in Nat
      /\ Cardinality(Members) \in Nat
  <2>1. Members \subseteq Player /\ Present \subseteq Player /\ Present' \subseteq Player
    BY DEF Members, Present
  <2> QED
    BY <2>1, GameAssumption, FS_Subset, FS_CardinalityType
<1>2. Present \subseteq Present' => Cardinality(Present') >= Cardinality(Present)
    BY <1>1, FS_Subset
<1>3. /\ Members \subseteq Present
      /\ oPc \notin {"left", "count", "count0"} => Present = Members
      /\ Cardinality(Present) >= Cardinality(Members)
  <2>1. Members \subseteq Present
    BY DEF Members, Present
  <2>2. oPc \notin {"left", "count", "count0"} => Present = Members
    BY DEF Members, Present, Leaving
  <2> QED
    BY <2>1, <2>2, <1>1, FS_Subset
<1> DEFINE Same == /\ Present \subseteq Present'
                   /\ GameDone => GameDone'
                   /\ Surprised => Surprised'
                   /\ hist'.early = {} => hist.early = {}
                   /\ Starting' => Starting
                   /\ Briefing' => Briefing
                   /\ started' => started
                   /\ oPc' \notin {"grab", "jeer"} => oPc \notin {"grab", "jeer"}
                   /\ target' = target
                   /\ oPc' = "count0" => oPc = "count0" /\ Members' = Members
<1>4. ASSUME Same PROVE PresenceInv'
    BY <1>1, <1>2, <1>4, GameAssumption DEF PresenceInv
<1>5. CASE UNCHANGED vars
  <2>1. Same
    BY <1>5 DEF vars, Present, Leaving, Members, GameDone, Armed, Surprised,
       Starting, Briefing
  <2> QED
    BY <1>4, <2>1
<1>6. ASSUME NEW p \in Player,
             \/ ObserveMove(p) \/ ChaseLooks(p) \/ ChaseMisses(p) \/ Join(p)
             \/ ObserveExit(p) \/ TellCaught(p) \/ TellLoose(p)
      PROVE  PresenceInv'
  <2>1. Same
    BY <1>6 DEF TypeOK, Present, Leaving, Members, GameDone, Armed, Surprised,
       Starting, Briefing, PcInv, ObserveMove, ChaseLooks, ChaseMisses,
       ObserverAlone, Join, ObserveExit, TellCaught, TellLoose, Delete, History
  <2> QED
    BY <1>4, <2>1
<1>7. CASE Dial \/ ObserverStops \/ StarterStops \/ TellRole \/ Collect
           \/ Timeout \/ Cancel \/ MapFault \/ WatcherStep
  <2>1. Same
    BY <1>7 DEF Present, Leaving, Members, GameDone, Armed, Surprised, Starting,
       Briefing, Dial, ObserverStops, ObserverAlone, StarterStops, TellRole,
       Collect, Timeout, Cancel, MapFault, WatcherStep, WatcherLooks,
       WatcherCancels, WatcherLooksAgain
  <2> QED
    BY <1>4, <2>1
<1>8. CASE Arm \/ Flag \/ TargetWins \/ RankPlayers \/ FinishLooks
           \/ FinishCancels \/ Publish
  <2>1. Same
    BY <1>8 DEF Present, Leaving, Members, GameDone, Armed, Surprised, Starting,
       Briefing, Arm, Flag, TargetWins, RankPlayers, FinishLooks, FinishCancels,
       Publish
  <2> QED
    BY <1>4, <2>1
<1>9. CASE Ready
  <2>1. /\ Present' = Present /\ UNCHANGED <<started, oPc, target, hist, GameDone>>
        /\ ~Briefing' /\ Members' = Members
    BY <1>9 DEF Ready, Present, Leaving, Members, GameDone, Armed, Briefing
  <2>2. Cardinality(Present) >= MinPlayers
    BY <1>1, <1>3, <1>9, GameAssumption DEF Ready
  <2> QED
    BY <2>1, <2>2 DEF PresenceInv, Surprised
<1>10. ASSUME NEW p \in Player, Pick(p) PROVE PresenceInv'
  <2>1. /\ Present' = Present
        /\ UNCHANGED <<started, oPc, hist, GameDone>> /\ ~started
        /\ fPc = "none"
    BY <1>10 DEF Pick, Present, Leaving, Members, GameDone, Armed, PcInv, TypeOK
  <2>2. Briefing' => target' \in Present'
    BY <1>10 DEF Pick, Briefing, Present, Members, TypeOK
  <2>3. Starting
    BY <1>10 DEF Pick, Starting
  <2> QED
    BY <2>1, <2>2, <2>3 DEF PresenceInv, Surprised, PcInv
<1>11. ASSUME NEW p \in Player, Brief(p) PROVE PresenceInv'
  <2>1. Same
    BY <1>11 DEF Brief, Present, Leaving, Members, GameDone, Armed, Surprised,
       Starting, Briefing, TypeOK, PcInv
  <2> QED
    BY <1>4, <2>1
<1>12. CASE Launch
  <2>1. /\ Present' = Present /\ UNCHANGED <<oPc, target, hist>>
        /\ ~Starting' /\ ~Briefing' /\ Briefing /\ fPc = "none"
    BY <1>12 DEF Launch, Present, Leaving, Members, Starting, Briefing, PcInv
  <2>2. hist.early = {} => Cardinality(Present) >= 2 /\ target \in Present
    BY <1>1, <2>1, GameAssumption DEF PresenceInv, Starting
  <2> QED
    BY <2>1, <2>2 DEF PresenceInv, Surprised, PcInv
<1>13. CASE Reset
  <2>1. ~started' /\ sPc' = "done"
    BY <1>13 DEF Reset, PcInv
  <2> QED
    BY <2>1 DEF PresenceInv, Starting, Briefing
<1>14. ASSUME NEW p \in Player, ChaseReaches(p) PROVE PresenceInv'
  <2>1. sPc' = "done" /\ oPc' = "grab"
    BY <1>14 DEF ChaseReaches, PcInv
  <2> QED
    BY <2>1 DEF PresenceInv, Starting, Briefing
<1>15. ASSUME NEW p \in Player,
              \/ TellReached(p)
              \/ ExitCounts(p) /\ (LeavesOneBehind(p) \/ TargetLeaves(p))
              \/ ExitCountsAgain(p) /\ LastHunterLeaves(p)
       PROVE  PresenceInv'
  <2>1. /\ oPc' = "idle" /\ sPc' = "done"
        /\ Stop /\ UNCHANGED <<fPc, ctxDone>>
        /\ hist'.lost = (hist.lost \/ ~Armed)
    BY <1>15 DEF TellReached, ExitCounts, LeavesOneBehind, TargetLeaves,
       ExitCountsAgain, LastHunterLeaves, PcInv, TypeOK, History
  <2>2. GameDone' \/ Surprised'
    BY <2>1 DEF Stop, GameDone, Armed, Surprised
  <2> QED
    BY <2>1, <2>2 DEF PresenceInv, Starting, Briefing
<1>16. ASSUME NEW p \in Player, ExitReadsStarted(p) PROVE PresenceInv'
  <2>1. CASE started
    <3>1. Same
      BY <1>16, <2>1 DEF ExitReadsStarted, Present, Leaving, Members, GameDone,
         Armed, Surprised, Starting, Briefing
    <3> QED
      BY <1>4, <3>1
  <2>2. CASE ~started
    <3>1. ~started' /\ oPc' = "idle" /\ UNCHANGED sPc
      BY <1>16, <2>2 DEF ExitReadsStarted
    <3>2. Starting' => hist'.early # {}
      BY <1>16, <2>2, <3>1
         DEF ExitReadsStarted, Starting, Briefing, With, TypeOK, History
    <3> QED
      BY <3>1, <3>2 DEF PresenceInv, Starting
  <2> QED
    BY <2>1, <2>2
<1>17. ASSUME NEW p \in Player, ExitCounts(p), OtherLeaves(p) PROVE PresenceInv'
  <2>1. /\ Present' = Present /\ Members' = Members /\ Cardinality(Members) # 1
        /\ UNCHANGED <<started, target, sPc, hist, GameDone>>
        /\ oPc = "count"
    BY <1>17 DEF ExitCounts, OtherLeaves, Present, Leaving, Members, GameDone, Armed
  <2> QED
    BY <2>1 DEF PresenceInv, Starting, Briefing, Surprised
<1>18. ASSUME NEW p \in Player, ExitCountsAgain(p), HunterLeaves(p)
       PROVE PresenceInv'
  <2>1. /\ oPc = "count0" /\ oPlayer = p /\ oPc' = "idle" /\ sPc' = "done"
        /\ UNCHANGED <<started, target, GameDone, Surprised>>
        /\ Members' = Members /\ Members # {} /\ p # target
    BY <1>18 DEF ExitCountsAgain, HunterLeaves, Members, GameDone, Armed,
       Surprised, PcInv
  <2>2. Present' = Members' /\ (target \in Present => target' \in Present')
    BY <2>1 DEF Present, Leaving, Members
  <2>3. Cardinality(Members) # 0
    BY <2>1, <1>1, FS_EmptySet
  <2>4. started => Cardinality(Members) >= 2
    BY <1>1, <2>1, <2>3 DEF PresenceInv
  <2> QED
    BY <2>1, <2>2, <2>4 DEF PresenceInv, Starting, Briefing
<1> QED
    BY <1>5, <1>6, <1>7, <1>8, <1>9, <1>10, <1>11, <1>12, <1>13, <1>14,
       <1>15, <1>16, <1>17, <1>18
     DEF Next, Alive, Ended, Step, ObserverStep, ChaseStep, ExitStep,
         ExitCounts, ExitCountsAgain, StarterStep, FinisherStep

\* O meets no error in a round that neither stops nor was surprised.
LEMMA ErrorStep ==
    ASSUME TypeOK, PcInv, PcInv', PresenceInv, ErrorInv, [Next]_vars
    PROVE  ErrorInv'
<1> USE DEF starterVars, finisherVars, observerVars
<1> DEFINE Failing == oPc \in {"dialing", "refused", "error", "found", "reported"}
           Same == /\ Unvisited /\ Failing => Unvisited'
                   /\ GameDone => GameDone'
                   /\ Surprised => Surprised'
                   /\ oPc' \in {"dialing", "refused"} => oPc \in {"dialing", "refused"}
                   /\ oPc' \in {"error", "found", "reported"} =>
                          oPc \in {"refused", "error", "found", "reported"}
<1>1. ASSUME Same PROVE ErrorInv'
    BY <1>1 DEF ErrorInv
<1>2. CASE UNCHANGED vars
  <2>1. Same
    BY <1>2 DEF vars, Unvisited, Members, GameDone, Armed, Surprised
  <2> QED
    BY <1>1, <2>1
<1>3. ASSUME NEW p \in Player, ChaseLooks(p) PROVE ErrorInv'
  <2>1. CASE role[target] = "out"
    <3>1. /\ oPc = "chase" /\ oPc' = "error" /\ fPc # "none" /\ target \notin Present
          /\ UNCHANGED <<GameDone, Surprised>>
      BY <1>3, <2>1 DEF ChaseLooks, ObserverAlone, Present, Leaving, GameDone,
         Armed, Surprised, PcInv
    <3>2. GameDone \/ Surprised
      BY <3>1 DEF PresenceInv, PcInv, TypeOK, FinisherPc
    <3> QED
      BY <3>1, <3>2 DEF ErrorInv
  <2>2. CASE role[target] # "out"
    BY <1>3, <2>2 DEF ChaseLooks, ErrorInv
  <2> QED
    BY <2>1, <2>2
<1>4. ASSUME NEW p \in Player, ObserveMove(p) \/ Join(p) \/ ChaseMisses(p)
                               \/ ChaseReaches(p) \/ TellCaught(p)
                               \/ TellReached(p) \/ ObserveExit(p)
                               \/ ExitReadsStarted(p) \/ ExitCounts(p)
                               \/ ExitCountsAgain(p)
      PROVE  ErrorInv'
    BY <1>4 DEF ObserveMove, Join, ChaseMisses, ObserverAlone, ChaseReaches,
       TellCaught, TellReached, ObserveExit, ExitReadsStarted, ExitCounts,
       LeavesOneBehind, TargetLeaves, OtherLeaves, ExitCountsAgain, ErrorInv
<1>5. ASSUME NEW p \in Player, TellLoose(p) \/ Pick(p) \/ Brief(p)
      PROVE  ErrorInv'
  <2>1. Same
    BY <1>5 DEF TellLoose, Pick, Brief, Unvisited, Members, GameDone, Armed,
       Surprised
  <2> QED
    BY <1>1, <2>1
<1>6. CASE Ready
  <2>1. Members # {}
    BY <1>6, FS_EmptySet, GameAssumption DEF Ready
  <2>2. Same
    BY <1>6, <2>1 DEF Ready, Unvisited, GameDone, Armed, Surprised
  <2> QED
    BY <1>1, <2>2
<1>7. CASE Collect \/ TellRole \/ Launch
  <2>1. sPc \notin {"waiting", "done"} /\ fPc = "none"
        /\ UNCHANGED <<hist, observerVars>>
    BY <1>7 DEF Collect, TellRole, Launch, PcInv
  <2>2. Same
    BY <2>1 DEF Unvisited, GameDone, Armed, Surprised
  <2> QED
    BY <1>1, <2>2
<1>11. CASE StarterStops
  <2>1. Same
    BY <1>11 DEF StarterStops, Unvisited, Members, GameDone, Armed, Surprised
  <2> QED
    BY <1>1, <2>1
<1>8. CASE FinisherStep
  <2>1. Same
    BY <1>8 DEF FinisherStep, Arm, Flag, TargetWins, RankPlayers, FinishLooks,
       FinishCancels, Publish, Reset, Unvisited, GameDone, Armed, Surprised
  <2> QED
    BY <1>1, <2>1
<1>9. CASE Dial \/ ObserverStops \/ Timeout \/ Cancel \/ MapFault
  <2>1. Same
    BY <1>9 DEF Dial, ObserverStops, ObserverAlone, Timeout, Cancel, MapFault,
       Unvisited, Members, GameDone, Armed, Surprised
  <2> QED
    BY <1>1, <2>1
<1>10. CASE WatcherStep
  <2>1. Same
    BY <1>10 DEF WatcherStep, WatcherLooks, WatcherCancels, WatcherLooksAgain,
       Unvisited, Members, GameDone, Armed, Surprised
  <2> QED
    BY <1>1, <2>1
<1> QED
    BY <1>2, <1>3, <1>4, <1>5, <1>6, <1>7, <1>8, <1>9, <1>10, <1>11
       DEF Next, Alive, Ended, Step, ObserverStep, ChaseStep, ExitStep, StarterStep

-----------------------------------------------------------------------------
(* The theorems *)

\* The invariant holds in every reachable state.
THEOREM Inductive == Spec => []IInv
<1>1. ASSUME Init PROVE IInv
  <2>1. PcInv /\ RoleInv /\ BriefInv
    BY <1>1 DEF Init, PcInv, RoleInv, BriefInv, Briefing, Leaving, Telling
  <2>2. CatchInv /\ PresenceInv /\ ErrorInv
    BY <1>1 DEF Init, CatchInv, PresenceInv, ErrorInv, Unvisited, Members, Starting,
       Briefing
  <2> QED
    BY <2>1, <2>2 DEF IInv
<1>2. TypeOK /\ TypeOK' /\ IInv /\ [Next]_vars => IInv'
    BY PcStep, RoleStep, BriefStep, CatchStep, PresenceStep, ErrorStep DEF IInv
<1> QED
    BY <1>1, <1>2, TypeCorrect, PTL DEF Spec

\* In a running round only latecomers are without a role.
THEOREM RolesAreGiven == Spec => []RolesGiven
<1>1. IInv => RolesGiven
    BY DEF IInv, BriefInv, RolesGiven
<1> QED
    BY <1>1, Inductive, PTL

\* Roles are known to their holders, and the target is g.target.
THEOREM HoldersKnow == Spec => []HoldersKnowTheirRole
<1>1. TypeOK /\ IInv => HoldersKnowTheirRole
    BY DEF IInv, RoleInv, PcInv, Telling, Briefing, HoldersKnowTheirRole, TypeOK
<1> QED
    BY <1>1, Inductive, TypeCorrect, PTL

\* At most one hunter catches the target.
THEOREM AtMostOneCatch == Spec => []OneCatcher
<1>1. IInv => OneCatcher
    BY DEF IInv, RoleInv, CatchInv, OneCatcher
<1> QED
    BY <1>1, Inductive, PTL

\* A round that its players abandon is stopped, unless an exit surprised it.
THEOREM AbandonedRoundsStop == Spec => []StopsUnlessSurprised
<1>1. ASSUME TypeOK, IInv, Abandoned PROVE GameDone \/ Surprised
  <2>1. oPc = "idle" /\ started /\ Present = Members
    BY <1>1 DEF Abandoned, Present, Leaving, Members
  <2>2. Cardinality(Members) \in Nat
    <3>1. Members \subseteq Player
      BY DEF Members
    <3> QED
      BY <3>1, GameAssumption, FS_Subset, FS_CardinalityType
  <2> QED
    BY <1>1, <2>1, <2>2 DEF IInv, PresenceInv, Abandoned, Members
<1>2. TypeOK /\ IInv => StopsUnlessSurprised
    BY <1>1 DEF StopsUnlessSurprised
<1> QED
    BY <1>2, Inductive, TypeCorrect, PTL

\* SetPlayer fails only in a round told to stop, or surprised.
THEOREM ErrorsMeanStopping == Spec => []ErrorOnlyWhenStopping
<1>1. IInv => ErrorOnlyWhenStopping
    BY DEF IInv, PcInv, ErrorInv, Unvisited, ErrorOnlyWhenStopping
<1> QED
    BY <1>1, Inductive, PTL

-----------------------------------------------------------------------------
(* How a Game ends: who hears of it, when a goroutine may die, and that     *)
(* the rank of a round has somebody in it.  EdgeInv, KeepInv and HearInv    *)
(* extend the invariant above.                                              *)

\* The players whose exit was, or may still be, taken for one from the lobby.
Gone == hist.early \cup {p \in Player : Leaving(p)}

\* While S starts, the players it counted are in the map or gone.
EdgeInv ==
    /\ crash # "none" /\ started => crash = "noEntry" /\ (GameDone \/ Surprised)
    /\ sPc = "collect" => Cardinality(Members \cup Gone) >= MinPlayers
    /\ sPc = "pick" => \A t \in todo : role[t] = "out" => t \in Gone
    /\ crash = "noTarget" => Gone # {}
    /\ crash = "noPlayers" => Cardinality(Gone) >= MinPlayers

\* When the map is empty and no entry is about to be put back, the target has
\* lost or somebody left during the start.
KeepInv ==
    /\ oPc \in {"left", "count", "count0"} => oRole # "out"
    /\ oPc \notin {"left", "count", "count0"} /\ Members = {} =>
        /\ sPc = "pick" \/ Briefing => hist.early # {}
        /\ started => \/ "loose" \in told[target] \/ target \in loosing
                      \/ oPc = "grab" \/ hist.early # {}

\* Who was given a role, or is being told one, is in the map until the rank is
\* made, then in the rank, then told of the finish -- or has heard that it lost.
Accounted(p) == (Briefed(p) \/ p = sPlayer) /\ ~Heard(p) =>
    /\ fPc \in {"none", "spawned", "armed", "flagged", "ranking"} =>
           role[p] # "out"
    /\ fPc \in {"ranked", "found", "cancelled"} => p \in ranked
    /\ fPc \in {"published", "done"} => "finish" \in told[p]

\* The target was told that it won, unless it has heard that it lost.
Judged(p) ==
    (fPc = "ranking" \/ RankMade) /\ p = target /\ "target" \in told[p] =>
        "win" \in told[p] \/ Heard(p)

HearInv == \A p \in Player : Accounted(p) /\ Judged(p)

-----------------------------------------------------------------------------
(* Each is preserved by every step *)

\* The players S counted stay in sight.  Most steps take nobody out of sight,
\* enter no phase of the start and kill no goroutine of the start (Same).
LEMMA EdgeStep ==
    ASSUME TypeOK, TypeOK', PcInv, PcInv', ErrorInv, EdgeInv, [Next]_vars
    PROVE  EdgeInv'
<1> USE DEF starterVars, finisherVars, observerVars
<1>1. /\ Gone \subseteq Player /\ Gone' \subseteq Player
      /\ Members \subseteq Player /\ Members' \subseteq Player
    BY DEF Gone, Members, TypeOK, History
<1>2. ASSUME NEW S \in SUBSET Player, NEW T \in SUBSET Player, S \subseteq T,
             Cardinality(S) >= MinPlayers
      PROVE  Cardinality(T) >= MinPlayers
  <2>1. IsFiniteSet(S) /\ IsFiniteSet(T) /\ Cardinality(S) <= Cardinality(T)
    BY <1>2, GameAssumption, FS_Subset
  <2>2. Cardinality(S) \in Nat /\ Cardinality(T) \in Nat
    BY <2>1, FS_CardinalityType
  <2> QED
    BY <1>2, <2>1, <2>2, GameAssumption
<1> DEFINE Same == /\ \/ crash' = crash
                      \/ ~started' /\ crash' \in {"none", "mapFault", "emptyRank", "noEntry"}
                      \/ crash' = "noEntry" /\ (GameDone' \/ Surprised')
                   /\ crash # "none" => /\ started' => started
                                        /\ GameDone => GameDone'
                                        /\ Surprised => Surprised'
                   /\ sPc' = "collect" => sPc = "collect"
                   /\ Members \cup Gone \subseteq Members' \cup Gone'
                   /\ sPc' = "pick" => sPc = "pick" /\ todo' = todo
                   /\ Gone \subseteq Gone'
                   /\ \A t \in Player : role'[t] = "out" =>
                          role[t] = "out" \/ t \in Gone' \/ sPc' # "pick"
<1>3. ASSUME Same PROVE EdgeInv'
  <2>1. crash' # "none" /\ started' => crash' = "noEntry" /\ (GameDone' \/ Surprised')
    BY <1>3 DEF EdgeInv
  <2>2. sPc' = "collect" => Cardinality(Members' \cup Gone') >= MinPlayers
    BY <1>1, <1>2, <1>3 DEF EdgeInv
  <2>3. sPc' = "pick" => \A t \in todo' : role'[t] = "out" => t \in Gone'
    BY <1>3 DEF EdgeInv, TypeOK
  <2>4. /\ crash' = "noTarget" => Gone' # {}
        /\ crash' = "noPlayers" => Cardinality(Gone') >= MinPlayers
    BY <1>1, <1>2, <1>3 DEF EdgeInv
  <2> QED
    BY <2>1, <2>2, <2>3, <2>4 DEF EdgeInv
<1>4. CASE UNCHANGED vars
  <2>1. Same
    BY <1>4 DEF vars, Gone, Leaving, Members, EdgeInv, GameDone, Armed, Surprised
  <2> QED
    BY <1>3, <2>1
<1> USE DEF TypeOK, PcInv, Gone, Leaving, Members
<1>5. ASSUME NEW p \in Player, crash = "none",
             \/ ObserveMove(p) \/ Join(p) \/ ChaseLooks(p) \/ ChaseMisses(p)
             \/ TellCaught(p) \/ TellReached(p) \/ TellLoose(p)
      PROVE  EdgeInv'
  <2>1. Same
    BY <1>5 DEF ObserveMove, Join, ChaseLooks, ChaseMisses, ObserverAlone,
       TellCaught, TellReached, TellLoose, History
  <2> QED
    BY <1>3, <2>1
<1>6. ASSUME NEW p \in Player, crash = "none",
             ChaseReaches(p) \/ ExitCounts(p) \/ ExitCountsAgain(p)
      PROVE  EdgeInv'
  <2>1. sPc' = "done" /\ crash' = "none"
    BY <1>6 DEF ChaseReaches, ExitCounts, ExitCountsAgain
  <2> QED
    BY <2>1 DEF EdgeInv
<1>7. ASSUME NEW p \in Player, crash = "none", ObserveExit(p) PROVE EdgeInv'
  <2>1. /\ crash' = "none" /\ UNCHANGED sPc /\ (~Briefing => UNCHANGED todo)
        /\ UNCHANGED hist.early
    BY <1>7 DEF ObserveExit, Delete, History
  <2>2. /\ Gone' = Gone \cup {p} /\ Members' = Members \ {p}
        /\ \A t \in Player : role'[t] = "out" => role[t] = "out" \/ t = p
    BY <1>7, <2>1 DEF ObserveExit, Delete
  <2>3. Same
    BY <1>7, <2>1, <2>2 DEF Briefing
  <2> QED
    BY <1>3, <2>3
<1>8. ASSUME NEW p \in Player, crash = "none", ExitReadsStarted(p) PROVE EdgeInv'
  <2>1. crash' = "none" /\ UNCHANGED <<role, sPc, todo>>
    BY <1>8 DEF ExitReadsStarted
  <2>2. CASE ~Starting
    BY <2>1, <2>2 DEF Starting, EdgeInv
  <2>3. CASE Starting
    <3>1. ~started
      BY <2>3 DEF Starting, Briefing
    <3>2. Gone \subseteq Gone'
      BY <1>8, <2>3, <3>1 DEF ExitReadsStarted, With, History
    <3>3. Same
      BY <1>8, <2>1, <3>2
    <3> QED
      BY <1>3, <3>3
  <2> QED
    BY <2>2, <2>3
<1>9. CASE crash = "none" /\ Ready
  <2>1. /\ crash' = "none" /\ sPc' # "pick"
        /\ Cardinality(Members') >= MinPlayers
    BY <1>9 DEF Ready
  <2> QED
    BY <1>1, <1>2, <2>1 DEF EdgeInv
<1>10. CASE crash = "none" /\ Collect
  <2>1. sPc = "collect" /\ ~started' /\ Gone' = Gone
    BY <1>10 DEF Collect
  <2>2. CASE Members = {}
    BY <1>10, <2>1, <2>2 DEF Collect, EdgeInv
  <2>3. CASE Members # {}
    BY <1>10, <2>1, <2>3 DEF Collect, EdgeInv
  <2> QED
    BY <2>2, <2>3
<1>11. ASSUME NEW p \in Player, crash = "none", Pick(p) PROVE EdgeInv'
  <2>1. ~started' /\ Gone' = Gone
    BY <1>11 DEF Pick
  <2>2. CASE role[p] = "out"
    BY <1>11, <2>1, <2>2 DEF Pick, EdgeInv
  <2>3. CASE role[p] # "out"
    BY <1>11, <2>1, <2>3 DEF Pick, EdgeInv
  <2> QED
    BY <2>2, <2>3
<1>12. ASSUME NEW p \in Player, crash = "none", Brief(p) PROVE EdgeInv'
    BY <1>12 DEF Brief, EdgeInv
<1>13. CASE crash = "none" /\ (TellRole \/ Launch \/ StarterStops)
    BY <1>13 DEF TellRole, Launch, StarterStops, EdgeInv
<1>14. CASE crash = "none" /\ FinisherStep
  <2>1. sPc' = "done"
    BY <1>14 DEF FinisherStep, Arm, Flag, TargetWins, RankPlayers, FinishLooks,
       FinishCancels, Publish, Reset
  <2>2. crash' = "none" \/ (crash' \in {"emptyRank", "noEntry"} /\ ~started')
    BY <1>14 DEF FinisherStep, Arm, Flag, TargetWins, RankPlayers, FinishLooks,
       FinishCancels, Publish, Reset
  <2> QED
    BY <2>1, <2>2 DEF EdgeInv
<1>15. CASE /\ crash = "none"
            /\ Dial \/ ObserverStops \/ Timeout \/ Cancel \/ MapFault
  <2>1. Same
    BY <1>15 DEF Dial, ObserverStops, ObserverAlone, Timeout, Cancel, MapFault
  <2> QED
    BY <1>3, <2>1
<1>16. CASE crash = "none" /\ WatcherStep
  <2>1. oPc \in {"refused", "error", "found", "reported"}
    BY <1>16 DEF WatcherStep, WatcherLooks, WatcherCancels, WatcherLooksAgain
  <2>2. started => GameDone \/ Surprised
    BY <2>1 DEF ErrorInv, Unvisited
  <2>3. /\ UNCHANGED <<role, started, sPc, todo, hist, fPc, expired>>
        /\ GameDone => GameDone'
        /\ oPc' \notin {"left", "count", "count0"}
        /\ crash' \in {"none", "noEntry"}
    BY <1>16 DEF WatcherStep, WatcherLooks, WatcherCancels, WatcherLooksAgain,
       GameDone, Armed
  <2>4. Same
    BY <1>16, <2>1, <2>2, <2>3 DEF Surprised
  <2> QED
    BY <1>3, <2>4
<1> QED
    BY <1>4, <1>5, <1>6, <1>7, <1>8, <1>9, <1>10, <1>11, <1>12, <1>13, <1>14,
       <1>15, <1>16
       DEF Next, Alive, Ended, Step, ObserverStep, ChaseStep, ExitStep, StarterStep

\* A round keeps somebody in its map, unless its target lost or the start was
\* surprised.
LEMMA KeepStep ==
    ASSUME TypeOK, PcInv, PcInv', KeepInv, [Next]_vars
    PROVE  KeepInv'
<1> USE GameAssumption DEF TypeOK, PcInv, KeepInv, Members, Briefing, starterVars,
       finisherVars, observerVars
<1>1. CASE UNCHANGED vars
    BY <1>1 DEF vars
<1>2. ASSUME NEW p \in Player, ObserveMove(p) \/ Join(p) \/ ChaseLooks(p)
                               \/ ChaseMisses(p)
      PROVE  KeepInv'
    BY <1>2 DEF ObserveMove, Join, ChaseLooks, ChaseMisses, ObserverAlone, History
<1>3. ASSUME NEW p \in Player, ChaseReaches(p) \/ ObserveExit(p)
      PROVE  KeepInv'
    BY <1>3 DEF ChaseReaches, ObserveExit
<1>4. ASSUME NEW p \in Player, TellCaught(p) \/ TellReached(p) \/ TellLoose(p)
      PROVE  KeepInv'
    BY <1>4 DEF TellCaught, TellReached, TellLoose, Tell, History
<1>5. ASSUME NEW p \in Player, ExitReadsStarted(p)
      PROVE  KeepInv'
  <2>1. CASE started
    BY <1>5, <2>1 DEF ExitReadsStarted
  <2>2. CASE ~started
    <3>1. Starting => hist'.early # {}
      BY <1>5, <2>2 DEF ExitReadsStarted, With, History
    <3> QED
      BY <1>5, <2>2, <3>1 DEF ExitReadsStarted, Starting
  <2> QED
    BY <2>1, <2>2
<1>6. ASSUME NEW p \in Player, ExitCounts(p)
      PROVE  KeepInv'
  <2>1. CASE LeavesOneBehind(p)
    <3>1. Members # {}
      <4>1. Cardinality(Members) = 1
        BY <2>1 DEF LeavesOneBehind
      <4>2. Members = {} => Cardinality(Members) = 0
        <5> HIDE DEF Members
        <5> QED
          BY FS_EmptySet
      <4> QED
        BY <4>1, <4>2
    <3> QED
      BY <1>6, <2>1, <3>1 DEF ExitCounts, LeavesOneBehind
  <2>2. CASE TargetLeaves(p)
    BY <1>6, <2>2 DEF ExitCounts, TargetLeaves
  <2>3. CASE OtherLeaves(p)
    BY <1>6, <2>3 DEF ExitCounts, OtherLeaves
  <2> QED
    BY <1>6, <2>1, <2>2, <2>3 DEF ExitCounts
<1>7. ASSUME NEW p \in Player, ExitCountsAgain(p)
      PROVE  KeepInv'
  <2>1. p \in Members' \/ (Members # {} /\ Members' = Members)
    BY <1>7 DEF ExitCountsAgain, LastHunterLeaves, HunterLeaves
  <2> QED
    BY <1>7, <2>1 DEF ExitCountsAgain
<1>8. ASSUME NEW p \in Player, Pick(p) \/ Brief(p)
      PROVE  KeepInv'
    BY <1>8 DEF Pick, Brief
<1>9. CASE Ready \/ Collect \/ TellRole \/ Launch \/ StarterStops
    BY <1>9 DEF Ready, Collect, TellRole, Launch, StarterStops, Tell
<1>10. CASE Arm \/ Flag \/ TargetWins \/ RankPlayers
    BY <1>10 DEF Arm, Flag, TargetWins, RankPlayers
<1>11. CASE FinishLooks \/ FinishCancels \/ Publish \/ Reset
    BY <1>11 DEF FinishLooks, FinishCancels, Publish, Reset
<1>12. CASE Dial \/ ObserverStops \/ Timeout \/ Cancel \/ MapFault
    BY <1>12 DEF Dial, ObserverStops, ObserverAlone, Timeout, Cancel, MapFault
<1>13. CASE WatcherStep
    BY <1>13 DEF WatcherStep, WatcherLooks, WatcherCancels, WatcherLooksAgain
<1> QED
    BY <1>1, <1>2, <1>3, <1>4, <1>5, <1>6, <1>7, <1>8, <1>9, <1>10, <1>11,
       <1>12, <1>13
       DEF Next, Alive, Ended, Step, ObserverStep, ChaseStep, ExitStep,
           StarterStep, FinisherStep

\* What an exit leaves behind: its player stays as it was, or has heard, or was
\* never given a role.
LEMMA ExitIsHeard ==
    ASSUME TypeOK, PcInv, KeepInv, NEW p \in Player, NEW q \in Player,
           ExitReadsStarted(p) \/ ExitCounts(p) \/ ExitCountsAgain(p),
           Heard(q), Briefed(q) \/ q = sPlayer
    PROVE  Heard(q)' \/ (~RankMade /\ role'[q] # "out" /\ q # target)
<1> USE GameAssumption DEF Heard, Leaving, starterVars, finisherVars
<1>1. CASE ExitReadsStarted(p)
  <2>1. oPc = "left" /\ oPlayer = p /\ UNCHANGED <<told, loosing, target>>
    BY <1>1 DEF ExitReadsStarted
  <2>2. CASE oPc' = "count" /\ UNCHANGED <<oPlayer, hist>>
    BY <2>1, <2>2
  <2>3. CASE hist' = [hist EXCEPT !.early = With(@, p, Starting),
                                  !.quiet = With(@, p, Briefed(p) \/ p = sPlayer)]
    <3>1. hist'.quiet = With(hist.quiet, p, Briefed(p) \/ p = sPlayer)
      BY <2>3 DEF TypeOK, History
    <3>2. /\ hist.quiet \subseteq hist'.quiet
          /\ Briefed(p) \/ p = sPlayer => p \in hist'.quiet
      BY <3>1 DEF With
    <3> QED
      BY <2>1, <3>2
  <2> QED
    BY <1>1, <2>2, <2>3, Zenon DEF ExitReadsStarted
<1>2. CASE ExitCounts(p)
  <2>1. Briefed(q)
    BY <1>2 DEF ExitCounts, PcInv
  <2>2. CASE LeavesOneBehind(p)
    BY <1>2, <2>1, <2>2 DEF ExitCounts, LeavesOneBehind, With, TypeOK, History
  <2>3. CASE TargetLeaves(p)
    BY <1>2, <2>3 DEF ExitCounts, TargetLeaves, TypeOK, History
  <2>4. CASE OtherLeaves(p)
    BY <1>2, <2>4 DEF ExitCounts, OtherLeaves
  <2> QED
    BY <1>2, <2>2, <2>3, <2>4 DEF ExitCounts
<1>3. CASE ExitCountsAgain(p)
  <2>1. /\ Briefed(q) /\ oRole # "out" /\ p # target /\ oPc = "count0"
        /\ oPlayer = p /\ UNCHANGED <<told, target>>
    BY <1>3 DEF ExitCountsAgain, PcInv, KeepInv, TypeOK
  <2>2. CASE LastHunterLeaves(p)
    BY <2>1, <2>2 DEF LastHunterLeaves, With, TypeOK, History
  <2>3. CASE HunterLeaves(p)
    BY <2>1, <2>3 DEF HunterLeaves
  <2> QED
    BY <1>3, <2>2, <2>3 DEF ExitCountsAgain
<1> QED
    BY <1>1, <1>2, <1>3

\* Nobody who was given a role is lost sight of before it hears of the end.
\* Most steps forget no word, brief nobody and take nobody out (Same).
LEMMA HearStep ==
    ASSUME TypeOK, PcInv, PcInv', BriefInv, KeepInv, HearInv, [Next]_vars
    PROVE  HearInv'
<1> USE DEF starterVars, finisherVars, observerVars
<1> DEFINE Counts(q) == Briefed(q) \/ q = sPlayer
           Stays(q) == /\ Heard(q) => Heard(q)'
                       /\ role[q] # "out" => role'[q] # "out" \/ Heard(q)'
           Same == /\ \A q \in Player : Stays(q) /\ (Counts(q)' => Counts(q))
                   /\ \A q \in Player : told[q] \subseteq told'[q]
                   /\ \A q \in Player :
                          "target" \in told'[q] => "target" \in told[q]
                   /\ target' = target \/ fPc' = "none"
                   /\ ranked' = ranked
                   /\ \/ fPc' = fPc
                      \/ {fPc, fPc'} \subseteq
                             {"none", "spawned", "armed", "flagged"}
                      \/ {fPc, fPc'} \subseteq {"ranked", "found", "cancelled"}
                      \/ fPc = "published" /\ fPc' = "done"
<1>1. ASSUME Same PROVE HearInv'
  <2>1. ASSUME NEW q \in Player PROVE Accounted(q)'
    BY <1>1 DEF HearInv, Accounted
  <2>2. ASSUME NEW q \in Player PROVE Judged(q)'
    BY <1>1 DEF HearInv, Judged, RankMade
  <2> QED
    BY <2>1, <2>2 DEF HearInv
<1>2. CASE UNCHANGED vars
  <2>1. Same
    BY <1>2 DEF vars, Heard, Leaving, Briefed
  <2> QED
    BY <1>1, <2>1
<1>3. ASSUME NEW p \in Player, ObserveMove(p) \/ Join(p) \/ ChaseLooks(p)
                               \/ ChaseMisses(p)
      PROVE  HearInv'
  <2>1. Same
    BY <1>3 DEF ObserveMove, Join, ChaseLooks, ChaseMisses, ObserverAlone,
       Heard, Leaving, Briefed, TypeOK, History
  <2> QED
    BY <1>1, <2>1
<1>4. ASSUME NEW p \in Player, ChaseReaches(p) \/ ObserveExit(p)
      PROVE  HearInv'
  <2>1. Same
    BY <1>4 DEF ChaseReaches, ObserveExit, Delete, Heard, Leaving, Briefed,
       TypeOK, History, PcInv
  <2> QED
    BY <1>1, <2>1
<1>5. ASSUME NEW p \in Player, TellCaught(p) \/ TellReached(p) \/ TellLoose(p)
      PROVE  HearInv'
  <2>1. Same
    BY <1>5 DEF TellCaught, TellReached, TellLoose, Tell, Heard, Leaving,
       Briefed, TypeOK, PcInv, History
  <2> QED
    BY <1>1, <2>1
<1>6. ASSUME NEW p \in Player,
             ExitReadsStarted(p) \/ ExitCounts(p) \/ ExitCountsAgain(p)
      PROVE  HearInv'
  <2>1. /\ UNCHANGED <<fPc, target, told, ranked, sPlayer>>
        /\ \A q \in Player : role[q] # "out" => role'[q] # "out"
    BY <1>6 DEF ExitReadsStarted, ExitCounts, ExitCountsAgain, LastHunterLeaves,
       HunterLeaves, KeepInv, TypeOK
  <2>2. \A q \in Player : Counts(q) /\ Heard(q) =>
            Heard(q)' \/ (~RankMade /\ role'[q] # "out" /\ q # target)
    BY <1>6, ExitIsHeard
  <2>3. ASSUME NEW q \in Player PROVE Accounted(q)' /\ Judged(q)'
    <3>1. Counts(q)' <=> Counts(q)
      BY <2>1 DEF Briefed
    <3>2. Accounted(q)'
      BY <2>1, <2>2, <3>1 DEF HearInv, Accounted, RankMade
    <3>3. "target" \in told[q] => Counts(q)
      BY DEF Briefed
    <3>4. Judged(q)'
      BY <2>1, <2>2, <3>3 DEF HearInv, Judged, RankMade
    <3> QED
      BY <3>2, <3>4
  <2> QED
    BY <2>3 DEF HearInv
<1>7. ASSUME NEW p \in Player, Pick(p)
      PROVE  HearInv'
  <2>1. Same
    BY <1>7 DEF Pick, Heard, Leaving, Briefed, TypeOK, PcInv
  <2> QED
    BY <1>1, <2>1
<1>8. ASSUME NEW p \in Player, Brief(p)
      PROVE  HearInv'
  <2>1. /\ fPc = "none" /\ fPc' = "none" /\ role[p] # "out" /\ sPlayer' = p
        /\ \A q \in Player : role[q] # "out" => role'[q] # "out"
        /\ UNCHANGED <<told, loosing, hist, observerVars, target>>
    BY <1>8 DEF Brief, BriefInv, PcInv, TypeOK, Members, Briefing
  <2>2. \A q \in Player : q # p => (Counts(q)' => Counts(q))
    BY <2>1 DEF Briefed
  <2>3. \A q \in Player : Heard(q)' <=> Heard(q)
    BY <2>1 DEF Heard, Leaving
  <2>4. ASSUME NEW q \in Player PROVE Accounted(q)' /\ Judged(q)'
    BY <2>1, <2>2, <2>3 DEF HearInv, Accounted, Judged, RankMade
  <2> QED
    BY <2>4 DEF HearInv
<1>9. CASE TellRole
  <2>1. /\ fPc = "none" /\ fPc' = "none" /\ sPlayer \in Player /\ sPlayer' = NoPlayer
        /\ UNCHANGED <<role, loosing, hist, observerVars, target>>
        /\ \A q \in Player : q # sPlayer => told'[q] = told[q]
        /\ \A q \in Player : told[q] \subseteq told'[q]
    BY <1>9 DEF TellRole, Tell, PcInv, TypeOK
  <2>2. \A q \in Player : (Briefed(q) \/ q = sPlayer)' => Counts(q)
    BY <2>1, GameAssumption DEF Briefed
  <2>3. \A q \in Player : Heard(q) => Heard(q)'
    BY <2>1 DEF Heard, Leaving
  <2>4. ASSUME NEW q \in Player PROVE Accounted(q)' /\ Judged(q)'
    BY <2>1, <2>2, <2>3 DEF HearInv, Accounted, Judged, RankMade
  <2> QED
    BY <2>4 DEF HearInv
<1>10. CASE Ready \/ Collect \/ Launch \/ StarterStops
  <2>1. Same
    BY <1>10 DEF Ready, Collect, Launch, StarterStops, Heard, Leaving, Briefed,
       PcInv
  <2> QED
    BY <1>1, <2>1
<1>11. CASE Arm \/ Flag \/ FinishLooks \/ FinishCancels
  <2>1. Same
    BY <1>11 DEF Arm, Flag, FinishLooks, FinishCancels, Heard, Leaving, Briefed
  <2> QED
    BY <1>1, <2>1
<1>12. CASE TargetWins
  <2>1. /\ fPc = "flagged" /\ fPc' = "ranking" /\ UNCHANGED <<role, target>>
        /\ target \in Player
    BY <1>12 DEF TargetWins, PcInv
  <2>2. \A q \in Player : (Heard(q)' <=> Heard(q)) /\ (Counts(q)' <=> Counts(q))
    BY <1>12 DEF TargetWins, Tell, Heard, Leaving, Briefed, TypeOK
  <2>3. ASSUME NEW q \in Player PROVE Accounted(q)'
    BY <2>1, <2>2 DEF HearInv, Accounted
  <2>4. ASSUME NEW q \in Player PROVE Judged(q)'
    <3> SUFFICES ASSUME q = target, "target" \in told'[q], ~Heard(q)'
                 PROVE  "win" \in told'[q]
      BY <2>1 DEF Judged
    <3>1. "target" \in told[q]
      BY <1>12 DEF TargetWins, Tell, TypeOK
    <3>2. Briefed(q) /\ ~Heard(q)
      BY <2>2, <3>1 DEF Briefed
    <3>3. role[target] # "out"
      BY <2>1, <3>2 DEF HearInv, Accounted
    <3> QED
      BY <1>12, <3>3 DEF TargetWins, Tell, TypeOK
  <2> QED
    BY <2>3, <2>4 DEF HearInv
<1>13. CASE RankPlayers
  <2>1. /\ fPc = "ranking"
        /\ UNCHANGED <<role, target, told, loosing, hist, oPc, oPlayer, sPlayer>>
        /\ fPc' \in {"ranking", "ranked"}
        /\ fPc' = "ranked" => ranked' = Members
    BY <1>13 DEF RankPlayers
  <2> QED
    BY <2>1 DEF HearInv, Accounted, Judged, RankMade, Heard, Leaving, Briefed,
       Members
<1>14. CASE Publish
  <2>1. /\ fPc = "cancelled" /\ fPc' = "published"
        /\ UNCHANGED <<target, loosing, hist, oPc, oPlayer, sPlayer>>
        /\ \A q \in Player :
               told'[q] = IF q \in ranked THEN told[q] \cup {"finish"} ELSE told[q]
    BY <1>14 DEF Publish
  <2>2. ASSUME NEW q \in Player PROVE Accounted(q)' /\ Judged(q)'
    <3>1. \/ told'[q] = told[q]
          \/ q \in ranked /\ told'[q] = told[q] \cup {"finish"}
      BY <2>1
    <3>2. q \in ranked => "finish" \in told'[q]
      BY <2>1
    <3>3. "loose" \in told'[q] <=> "loose" \in told[q]
      BY <3>1
    <3>4. Heard(q)' <=> Heard(q)
      BY <2>1, <3>3 DEF Heard, Leaving
    <3>5. Counts(q)' <=> Counts(q)
      BY <2>1, <3>1 DEF Briefed
    <3>6. Accounted(q)'
      BY <2>1, <3>2, <3>4, <3>5 DEF HearInv, Accounted
    <3>7. Judged(q)'
      BY <2>1, <3>1, <3>4 DEF HearInv, Judged, RankMade
    <3> QED
      BY <3>6, <3>7
  <2> QED
    BY <2>2 DEF HearInv
<1>15. CASE Reset
  <2>1. /\ fPc = "published" /\ fPc' = "done"
        /\ UNCHANGED <<target, told, loosing, hist, oPc, oPlayer, sPlayer>>
    BY <1>15 DEF Reset
  <2> QED
    BY <2>1 DEF HearInv, Accounted, Judged, RankMade, Heard, Leaving, Briefed
<1>16. CASE Dial \/ ObserverStops \/ Timeout \/ Cancel \/ MapFault
  <2>1. Same
    BY <1>16 DEF Dial, ObserverStops, ObserverAlone, Timeout, Cancel, MapFault,
       Heard, Leaving, Briefed
  <2> QED
    BY <1>1, <2>1
<1>17. CASE WatcherStep
  <2>1. Same
    BY <1>17 DEF WatcherStep, WatcherLooks, WatcherCancels, WatcherLooksAgain,
       Heard, Leaving, Briefed
  <2> QED
    BY <1>1, <2>1
<1> QED
    BY <1>2, <1>3, <1>4, <1>5, <1>6, <1>7, <1>8, <1>9, <1>10, <1>11, <1>12,
       <1>13, <1>14, <1>15, <1>16, <1>17
       DEF Next, Alive, Ended, Step, ObserverStep, ChaseStep, ExitStep,
           StarterStep, FinisherStep

-----------------------------------------------------------------------------
(* The theorems *)

\* The three invariants hold in every reachable state.
THEOREM EndInductive == Spec => [](EdgeInv /\ KeepInv /\ HearInv)
<1>1. ASSUME Init PROVE EdgeInv /\ KeepInv /\ HearInv
    BY <1>1, GameAssumption DEF Init, EdgeInv, KeepInv, HearInv, Accounted, Judged,
       Briefed, Briefing, RankMade
<1>2. /\ TypeOK /\ TypeOK' /\ IInv /\ IInv' /\ EdgeInv /\ KeepInv /\ HearInv
      /\ [Next]_vars
      => EdgeInv' /\ KeepInv' /\ HearInv'
    BY EdgeStep, KeepStep, HearStep DEF IInv
<1> QED
    BY <1>1, <1>2, TypeCorrect, Inductive, PTL DEF Spec

\* While a round is running no goroutine dies but by an error of O, in a round
\* told to stop or surprised; the start dies only of exits that RemovePlayer took
\* for exits from a lobby.
THEOREM CrashesAreAtEdges == Spec => []CrashOnlyAtEdges
<1>1. EdgeInv => CrashOnlyAtEdges
    BY DEF EdgeInv, Gone, CrashOnlyAtEdges
<1> QED
    BY <1>1, EndInductive, PTL

\* RemovePlayer leaves somebody for the rank, unless the target was caught or
\* left last, or somebody left during the start.
THEOREM SomebodyIsKept == Spec => []RoundKeepsAPlayer
<1>1. KeepInv => RoundKeepsAPlayer
    BY DEF KeepInv, RoundKeepsAPlayer
<1> QED
    BY <1>1, EndInductive, PTL

\* Whoever was given a role hears how the round ended, but for the exits that
\* RemovePlayer answers with nothing.
THEOREM TheBriefedHear == Spec => []BriefedHear
<1>1. HearInv => BriefedHear
    BY DEF HearInv, Accounted, BriefedHear
<1> QED
    BY <1>1, EndInductive, PTL

\* The target hears whether it won or lost, with the same exception.
THEOREM TheTargetHears == Spec => []TargetHearsVerdict
<1>1. PcInv /\ HearInv => TargetHearsVerdict
    BY DEF PcInv, HearInv, Judged, RankMade, TargetHearsVerdict
<1>2. IInv => PcInv
    BY DEF IInv
<1> QED
    BY <1>1, <1>2, Inductive, EndInductive, PTL

=============================================================================
