-------------------------- MODULE GameRoundProofs --------------------------
(***************************************************************************)
(* Game implements Round (safety part), for any finite set of players and  *)
(* any MinPlayers >= 2.                                                    *)
(***************************************************************************)
EXTENDS GameRound, GameProofs

Catchers == {p \in Player : "reached" \in told[p]}
Audience == {p \in Player : "finish" \in told[p]}

\* The rank is never made of an empty map: such a map kills the process.
RankedInv == fPc \in {"ranked", "found", "cancelled"} => ranked # {}

LEMMA RankedSomebody == Spec => []RankedInv
<1>1. Init => RankedInv
    BY DEF Init, RankedInv
<1>2. RankedInv /\ [Next]_vars => RankedInv'
  <2> SUFFICES ASSUME RankedInv, [Next]_vars PROVE RankedInv'
    OBVIOUS
  <2> USE DEF RankedInv, starterVars, finisherVars, observerVars
  <2>1. CASE UNCHANGED vars
    BY <2>1 DEF vars
  <2>2. ASSUME NEW p \in Player, ObserverStep(p) \/ TellLoose(p) \/ Pick(p) \/ Brief(p)
        PROVE  UNCHANGED <<fPc, ranked>>
    BY <2>2 DEF ObserverStep, ObserveMove, Join, ChaseStep, ChaseLooks, ChaseMisses,
       ChaseReaches, TellCaught, TellReached, ObserveExit, ExitStep,
       ExitReadsStarted, ExitCounts, ExitCountsAgain, ObserverAlone, TellLoose,
       Pick, Brief
  <2>3. CASE StarterStep
    BY <2>3 DEF StarterStep, Ready, Collect, TellRole, Launch, StarterStops
  <2>4. CASE FinisherStep
    BY <2>4 DEF FinisherStep, Arm, Flag, TargetWins, RankPlayers, FinishLooks,
       FinishCancels, Publish, Reset
  <2>5. CASE Dial \/ ObserverStops \/ WatcherStep \/ Timeout \/ Cancel \/ MapFault
    BY <2>5 DEF Dial, ObserverStops, ObserverAlone, WatcherStep, WatcherLooks,
       WatcherCancels, WatcherLooksAgain, Timeout, Cancel, MapFault
  <2> QED
    BY <2>1, <2>2, <2>3, <2>4, <2>5 DEF Next, Alive, Ended, Step
<1> QED
    BY <1>1, <1>2, PTL DEF Spec

\* A step that leaves the two verdicts alone, and the finisher's place but for the
\* assignment of g.stop, stops the round, surprises it, or leaves it alone.
LEMMA RoundMoves ==
    ASSUME TypeOK, PcInv, crash = "none", crash' = "none",
           fPc' = fPc \/ (fPc = "spawned" /\ fPc' = "armed"),
           sPc' = "done" <=> sPc = "done",
           Catchers' = Catchers, Audience' = Audience,
           GameDone => GameDone', Surprised => Surprised',
           \/ Surprised' = Surprised
           \/ (GameDone' <=> GameDone) /\ Phase \in {"lobby", "playing"} /\ Surprised'
    PROVE  [R!Next]_R!roundVars
<1>1. CASE Phase' = Phase /\ Surprised' = Surprised
    BY <1>1 DEF R!roundVars, Catchers, Audience
<1>2. CASE Phase' = Phase /\ Surprised' # Surprised
  <2>1. Surprised' = TRUE /\ Phase \in {"lobby", "playing"}
    BY <1>2 DEF Surprised
  <2> QED
    BY <1>2, <2>1 DEF R!Next, R!Surprise, Catchers, Audience
<1>3. CASE Phase' # Phase
  <2>1. Phase = "playing" /\ Phase' = "closing" /\ ~GameDone /\ GameDone'
    BY <1>3 DEF Phase, TypeOK, FinisherPc
  <2>2. Surprised' = Surprised
    BY <2>1
  <2> QED
    BY <2>1, <2>2 DEF R!Next, R!Close, Catchers, Audience
<1> QED
    BY <1>1, <1>2, <1>3

\* A step that kills the process and changes nothing else the round knows of.
LEMMA RoundDies ==
    ASSUME TypeOK, PcInv, EdgeInv', crash = "none", crash' # "none",
           UNCHANGED <<started, fPc, expired, ctxDone, told, hist>>
    PROVE  [R!Next]_R!roundVars
<1>1. Phase # "dead" /\ Phase' = "dead"
    BY DEF Phase, TypeOK, FinisherPc
<1>2. /\ Surprised' = Surprised /\ GameDone' = GameDone
      /\ Catchers' = Catchers /\ Audience' = Audience
    BY DEF Surprised, GameDone, Armed, Catchers, Audience
<1>3. Phase = "playing" => started /\ ~GameDone
    BY DEF Phase, PcInv
<1>4. Phase = "playing" => Surprised
    BY <1>2, <1>3 DEF EdgeInv
<1> QED
    BY <1>1, <1>2, <1>4 DEF R!Next, R!Die, Catchers, Audience

\* A capture stops the round, or loses its stop and surprises it.
LEMMA CaptureImplements ==
    ASSUME TypeOK, IInv, crash = "none", NEW p \in Player, TellReached(p)
    PROVE  [R!Next]_R!roundVars
<1> USE DEF starterVars, finisherVars, observerVars
<1>1. /\ Catchers = {} /\ fPc # "none" /\ oPlayer = p
    BY DEF TellReached, IInv, PcInv, CatchInv, Catchers
<1>2. Catchers' = {p} /\ Audience' = Audience
    BY <1>1 DEF TellReached, Tell, Catchers, Audience, TypeOK
<1>3. /\ UNCHANGED <<fPc, sPc, crash, ctxDone>> /\ hist'.early = hist.early
      /\ hist'.lost = (hist.lost \/ ~Armed) /\ expired' = (expired \/ Armed)
    BY DEF TellReached, Stop, TypeOK, History
<1>4. Phase \in {"playing", "closing", "over"}
    BY <1>1 DEF Phase, TypeOK, FinisherPc
<1>5. CASE Armed
  <2>1. Surprised' = Surprised
    BY <1>3, <1>5 DEF Surprised, TypeOK, History
  <2>2. GameDone'
    BY <1>3, <1>5 DEF GameDone, Armed
  <2>3. \/ Phase = "playing" /\ Phase' = "closing"
        \/ Phase # "playing" /\ Phase' = Phase
    BY <1>1, <1>3, <2>2 DEF Phase, TypeOK, FinisherPc
  <2> QED
    BY <1>1, <1>2, <1>4, <2>1, <2>3 DEF R!Next, R!Catch, Catchers, Audience
<1>6. CASE ~Armed
  <2>1. Surprised' = TRUE
    BY <1>3, <1>6 DEF Surprised
  <2>2. Phase = "playing" /\ Phase' = "playing"
    BY <1>1, <1>3, <1>6 DEF Phase, GameDone, Armed
  <2> QED
    BY <1>1, <1>2, <2>1, <2>2 DEF R!Next, R!Catch, Catchers, Audience
<1> QED
    BY <1>5, <1>6

\* Any other step of the observer stops the round, surprises it, or leaves it alone.
LEMMA ObserverImplements ==
    ASSUME TypeOK, IInv, crash = "none", NEW p \in Player, ObserverStep(p)
    PROVE  [R!Next]_R!roundVars
<1> USE DEF starterVars, finisherVars, observerVars
<1>1. CASE TellReached(p)
    BY <1>1, CaptureImplements
<1>2. CASE \/ ObserveMove(p) \/ Join(p) \/ ChaseLooks(p) \/ ChaseMisses(p)
           \/ ChaseReaches(p) \/ TellCaught(p) \/ ObserveExit(p)
  <2>1. /\ UNCHANGED <<fPc, sPc, crash, expired, ctxDone>>
        /\ UNCHANGED <<hist.early, hist.lost>>
    BY <1>2 DEF ObserveMove, Join, ChaseLooks, ChaseMisses, ObserverAlone,
       ChaseReaches, TellCaught, ObserveExit, Delete, TypeOK, History
  <2>2. Catchers' = Catchers /\ Audience' = Audience
    BY <1>2 DEF ObserveMove, Join, ChaseLooks, ChaseMisses, ObserverAlone,
       ChaseReaches, TellCaught, Tell, ObserveExit, Catchers, Audience, TypeOK
  <2>3. Surprised' = Surprised /\ (GameDone => GameDone')
    BY <2>1 DEF Surprised, GameDone, Armed
  <2> QED
    BY <2>1, <2>2, <2>3, RoundMoves DEF IInv
<1>3. CASE ExitReadsStarted(p)
  <2>1. /\ UNCHANGED <<fPc, sPc, crash, expired, ctxDone, told, hist.lost>>
        /\ hist'.early = hist.early \/ (Starting /\ hist'.early = hist.early \cup {p})
    BY <1>3 DEF ExitReadsStarted, With, TypeOK, History
  <2>2. Catchers' = Catchers /\ Audience' = Audience /\ (GameDone' <=> GameDone)
    BY <2>1 DEF Catchers, Audience, GameDone, Armed
  <2>3. CASE hist'.early = hist.early
    <3>1. Surprised' = Surprised
      BY <2>1, <2>3 DEF Surprised
    <3> QED
      BY <2>1, <2>2, <3>1, RoundMoves DEF IInv
  <2>4. CASE Starting /\ hist'.early = hist.early \cup {p}
    <3>1. Surprised'
      BY <2>4 DEF Surprised
    <3>2. Phase = "lobby"
      BY <2>4 DEF Phase, Starting, Briefing, IInv, PcInv
    <3> QED
      BY <2>1, <2>2, <3>1, <3>2, RoundMoves DEF IInv
  <2> QED
    BY <2>1, <2>3, <2>4
<1>4. CASE ExitCounts(p) \/ ExitCountsAgain(p)
  <2>1. /\ UNCHANGED <<fPc, sPc, crash, ctxDone, told, hist.early>> /\ fPc # "none"
        /\ \/ UNCHANGED <<expired, hist.lost>>
           \/ Stop /\ hist'.lost = (hist.lost \/ ~Armed)
    BY <1>4 DEF ExitCounts, ExitCountsAgain, LeavesOneBehind, TargetLeaves,
       OtherLeaves, LastHunterLeaves, HunterLeaves, IInv, PcInv, TypeOK, History
  <2>2. Catchers' = Catchers /\ Audience' = Audience
    BY <2>1 DEF Catchers, Audience
  <2>3. CASE UNCHANGED <<expired, hist.lost>>
    <3>1. Surprised' = Surprised /\ (GameDone' <=> GameDone)
      BY <2>1, <2>3 DEF Surprised, GameDone, Armed
    <3> QED
      BY <2>1, <2>2, <3>1, RoundMoves DEF IInv
  <2>4. CASE Armed /\ Stop /\ hist'.lost = (hist.lost \/ ~Armed)
    <3>1. Surprised' = Surprised /\ GameDone'
      BY <2>1, <2>4 DEF Surprised, Stop, GameDone, Armed, TypeOK, History
    <3> QED
      BY <2>1, <2>2, <3>1, RoundMoves DEF IInv
  <2>5. CASE ~Armed /\ Stop /\ hist'.lost = (hist.lost \/ ~Armed)
    <3>1. Surprised' /\ (GameDone' <=> GameDone) /\ Phase = "playing"
      BY <2>1, <2>5 DEF Surprised, Stop, GameDone, Armed, Phase, TypeOK
    <3> QED
      BY <2>1, <2>2, <3>1, RoundMoves DEF IInv
  <2> QED
    BY <2>1, <2>3, <2>4, <2>5
<1> QED
    BY <1>1, <1>2, <1>3, <1>4 DEF ObserverStep, ChaseStep, ExitStep

\* The starter begins the round, gives it up, dies, or leaves it alone.
LEMMA StarterImplements ==
    ASSUME TypeOK, TypeOK', IInv, EdgeInv', crash = "none", StarterTurn
    PROVE  [R!Next]_R!roundVars
<1> USE DEF starterVars, finisherVars, observerVars
<1>1. ASSUME UNCHANGED <<fPc, hist, told, expired, ctxDone, started>>,
             sPc' = "done" <=> sPc = "done"
      PROVE  [R!Next]_R!roundVars
  <2>1. /\ Catchers' = Catchers /\ Audience' = Audience
        /\ Surprised' = Surprised /\ (GameDone => GameDone')
    BY <1>1 DEF Catchers, Audience, Surprised, GameDone, Armed
  <2> QED
    BY <1>1, <2>1, RoundMoves, RoundDies DEF IInv
<1>2. CASE Ready \/ Collect
    BY <1>1, <1>2 DEF Ready, Collect
<1>3. ASSUME NEW p \in Player, Pick(p) \/ Brief(p) PROVE [R!Next]_R!roundVars
    BY <1>1, <1>3 DEF Pick, Brief
<1>4. CASE TellRole
  <2>1. /\ UNCHANGED <<fPc, hist, expired, ctxDone, crash>>
        /\ sPc' # "done" /\ sPc # "done"
        /\ \A q \in Player : told'[q] \ {"hunter", "target"} = told[q] \ {"hunter", "target"}
    <3>1. sRole \in Message => sRole \in {"hunter", "target"}
      BY DEF TypeOK, Role, Message
    <3> QED
      BY <1>4, <3>1 DEF TellRole, Tell, TypeOK
  <2>2. /\ Catchers' = Catchers /\ Audience' = Audience
        /\ Surprised' = Surprised /\ (GameDone => GameDone')
    BY <2>1 DEF Catchers, Audience, Surprised, GameDone, Armed
  <2> QED
    BY <2>1, <2>2, RoundMoves DEF IInv
<1>5. CASE Launch
  <2>1. /\ Phase = "lobby" /\ Phase' = "playing" /\ UNCHANGED told
        /\ Surprised' = Surprised
    BY <1>5 DEF Launch, Phase, IInv, PcInv, GameDone, Armed, Surprised
  <2> QED
    BY <2>1 DEF R!Next, R!Begin, Catchers, Audience
<1>6. CASE StarterStops
  <2>1. /\ Phase = "lobby" /\ Phase' = "cancelled" /\ UNCHANGED told
        /\ Surprised' = Surprised
    BY <1>6 DEF StarterStops, Phase, IInv, PcInv, Surprised
  <2> QED
    BY <2>1 DEF R!Next, R!GiveUp, Catchers, Audience
<1> QED
    BY <1>2, <1>3, <1>4, <1>5, <1>6 DEF StarterTurn, StarterStep

\* The finisher goes through the end of the round and announces it, or dies.
LEMMA FinisherImplements ==
    ASSUME TypeOK, IInv, EdgeInv', RankedInv, crash = "none", FinisherStep
    PROVE  [R!Next]_R!roundVars
<1> USE DEF starterVars, finisherVars, observerVars
<1>1. Surprised' = Surprised /\ sPc' = sPc
    BY DEF FinisherStep, Arm, Flag, TargetWins, RankPlayers, FinishLooks,
       FinishCancels, Publish, Reset, Surprised
<1>2. Catchers' = Catchers
    BY DEF FinisherStep, Arm, Flag, TargetWins, RankPlayers, FinishLooks,
       FinishCancels, Publish, Reset, Catchers, Tell, TypeOK
<1>3. CASE Publish
  <2>1. Phase = "closing" /\ Phase' = "over"
    BY <1>3 DEF Publish, Phase
  <2>2. Audience' \in (SUBSET Player) \ {{}}
    BY <1>3 DEF Publish, Audience, TypeOK, RankedInv
  <2> QED
    BY <1>1, <1>2, <2>1, <2>2 DEF R!Next, R!Announce, Catchers, Audience
<1>4. CASE Arm
  <2>1. Audience' = Audience /\ (GameDone => GameDone') /\ UNCHANGED crash
    BY <1>4 DEF Arm, Audience, GameDone, Armed
  <2> QED
    BY <1>1, <1>2, <1>4, <2>1, RoundMoves DEF Arm, IInv
<1>5. CASE Flag \/ TargetWins \/ FinishCancels \/ Reset
  <2>1. Audience' = Audience
    BY <1>5 DEF Flag, TargetWins, FinishCancels, Reset, Audience, Tell, TypeOK
  <2>2. Phase' = Phase
    BY <1>5 DEF Flag, TargetWins, FinishCancels, Reset, Phase
  <2> QED
    BY <1>1, <1>2, <2>1, <2>2 DEF R!roundVars, Catchers, Audience
<1>6. CASE RankPlayers \/ FinishLooks
  <2>1. /\ UNCHANGED <<started, expired, ctxDone, told, hist>>
        /\ crash' # "none" => UNCHANGED fPc
        /\ {fPc, fPc'} \subseteq {"ranking", "ranked", "found", "cancelled"}
    BY <1>6 DEF RankPlayers, FinishLooks
  <2>2. CASE crash' # "none"
    BY <2>1, <2>2, RoundDies DEF IInv
  <2>3. CASE crash' = "none"
    <3>1. Phase' = Phase /\ Audience' = Audience
      BY <2>1, <2>3 DEF Phase, Audience
    <3> QED
      BY <1>1, <1>2, <3>1 DEF R!roundVars, Catchers, Audience
  <2> QED
    BY <2>2, <2>3
<1> QED
    BY <1>3, <1>4, <1>5, <1>6 DEF FinisherStep

\* Every behaviour of the goroutines is a behaviour of a round.
THEOREM GameImplementsRound == Spec => ImplementsRound
<1>1. Init => R!Init
    BY DEF Init, R!Init, Phase, Surprised
<1>2. TypeOK /\ TypeOK' /\ IInv /\ EdgeInv' /\ RankedInv /\ [Next]_vars
      => [R!Next]_R!roundVars
  <2> SUFFICES ASSUME TypeOK, TypeOK', IInv, EdgeInv', RankedInv, [Next]_vars
               PROVE  [R!Next]_R!roundVars
    OBVIOUS
  <2> USE DEF starterVars, finisherVars, observerVars
  <2>1. CASE UNCHANGED vars
    BY <2>1 DEF vars, R!roundVars, Phase, GameDone, Armed, Surprised
  <2>2. ASSUME NEW p \in Player, crash = "none", ObserverStep(p)
        PROVE  [R!Next]_R!roundVars
    BY <2>2, ObserverImplements
  <2>3. CASE crash = "none" /\ StarterTurn
    BY <2>3, StarterImplements
  <2>4. CASE crash = "none" /\ FinisherStep
    BY <2>4, FinisherImplements
  <2>5. ASSUME NEW p \in Player, crash = "none", TellLoose(p)
        PROVE  [R!Next]_R!roundVars
    <3>1. Catchers' = Catchers /\ Audience' = Audience
      BY <2>5 DEF TellLoose, Tell, Catchers, Audience, TypeOK
    <3>2. Surprised' = Surprised /\ (GameDone => GameDone')
      BY <2>5 DEF TellLoose, Surprised, GameDone, Armed
    <3> QED
      BY <2>5, <3>1, <3>2, RoundMoves DEF TellLoose, IInv
  <2>6. CASE /\ crash = "none"
             /\ Dial \/ ObserverStops \/ Timeout \/ Cancel \/ WatcherStep \/ MapFault
    <3>1. /\ UNCHANGED <<started, fPc, sPc, told, hist>>
          /\ GameDone => GameDone'
          /\ crash' # "none" => UNCHANGED <<expired, ctxDone>>
      BY <2>6 DEF Dial, ObserverStops, ObserverAlone, Timeout, Cancel, WatcherStep,
         WatcherLooks, WatcherCancels, WatcherLooksAgain, MapFault, GameDone, Armed
    <3>2. Catchers' = Catchers /\ Audience' = Audience /\ Surprised' = Surprised
      BY <3>1 DEF Catchers, Audience, Surprised
    <3> QED
      BY <2>6, <3>1, <3>2, RoundMoves, RoundDies DEF IInv
  <2> QED
    BY <2>1, <2>2, <2>3, <2>4, <2>5, <2>6
       DEF Next, Alive, Ended, Step, StarterTurn
<1> QED
    BY <1>1, <1>2, TypeCorrect, Inductive, EndInductive, RankedSomebody, PTL
       DEF Spec, ImplementsRound, R!Spec

=============================================================================
