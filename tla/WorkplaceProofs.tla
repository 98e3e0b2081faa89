-------------------------- MODULE WorkplaceProofs --------------------------
(***************************************************************************)
(* Theorems about the workplace as a whole (MCWorkplace): whichever of the *)
(* components moves, each of them does what its own specification says,    *)
(* so what is proved of a component alone holds of the workplace.          *)
(***************************************************************************)
EXTENDS MCWorkplace, AccessProofs, RecognitionProofs, OfficeProofs, TLAPS

-----------------------------------------------------------------------------
(* One step of the workplace is a step or a stutter of every component *)

\* The components share no variable: who does not move stands still.
LEMMA OneMoves ==
    ASSUME [WorkplaceNext]_<<turn, workplaceVars>>
    PROVE  /\ turn' = turn
           /\ [TreeNext]_treeVars /\ [HubNext]_hubVars /\ [VisitNext]_visitVars
           /\ [CardNext]_cardVars /\ [FaceNext]_faceVars /\ [ChatNext]_chatVars
           /\ [AccountNext]_accountVars /\ [TrackNext]_trackVars
           /\ [SightingNext]_sightingVars /\ [FirstRunNext]_firstVars
           /\ [CameraNext]_camVars /\ [AnomalyNext]_anomalyVars
           /\ [DutyNext]_dutyVars /\ [RoleNext]_roleVars
<1>1. CASE UNCHANGED <<turn, workplaceVars>>
  BY <1>1 DEF workplaceVars
<1>2. CASE WorkplaceNext
  BY <1>2 DEF WorkplaceNext, Still
<1> QED BY <1>1, <1>2

\* Every component begins as it does alone.
LEMMA OneBegins ==
    ASSUME WorkplaceInit
    PROVE  /\ turn \in Turns
           /\ TreeInit /\ HubInit /\ VisitInit /\ CardInit /\ FaceInit /\ ChatInit
           /\ AccountInit /\ TrackInit /\ SightingInit /\ FirstRunInit
           /\ CameraInit /\ AnomalyInit /\ DutyInit /\ RoleInit
BY DEF WorkplaceInit

-----------------------------------------------------------------------------
(* The workplace implements its components *)

\* The handlers of every component that promises nothing for the future run in the
\* workplace as they run alone: the workplace implements their specifications.
THEOREM WorkplaceIsItsParts ==
    WorkplaceSpec => /\ TreeSpec /\ CardSpec /\ FaceSpec /\ ChatSpec /\ AccountSpec
                     /\ TrackSpec /\ SightingSpec /\ CameraSpec /\ AnomalySpec
                     /\ DutySpec /\ RoleSpec
<1>1. WorkplaceInit => /\ TreeInit /\ CardInit /\ FaceInit /\ ChatInit /\ AccountInit
                       /\ TrackInit /\ SightingInit /\ CameraInit /\ AnomalyInit
                       /\ DutyInit /\ RoleInit
  BY OneBegins
<1>2. [WorkplaceNext]_<<turn, workplaceVars>> =>
         /\ [TreeNext]_treeVars /\ [CardNext]_cardVars /\ [FaceNext]_faceVars
         /\ [ChatNext]_chatVars /\ [AccountNext]_accountVars /\ [TrackNext]_trackVars
         /\ [SightingNext]_sightingVars /\ [CameraNext]_camVars /\ [AnomalyNext]_anomalyVars
         /\ [DutyNext]_dutyVars /\ [RoleNext]_roleVars
  BY OneMoves
<1> QED BY <1>1, <1>2, PTL
        DEF WorkplaceSpec, TreeSpec, CardSpec, FaceSpec, ChatSpec, AccountSpec, TrackSpec,
            SightingSpec, CameraSpec, AnomalySpec, DutySpec, RoleSpec

\* The hub, the visitors and the setup have loops that the workplace owes a turn only
\* while they are the ones that move; what their steps keep, it keeps as well.
LEMMA LoopsKeep == WorkplaceSpec => [](HubIInv /\ VisitIInv /\ FirstIInv /\ turn \in Turns)
<1> DEFINE LoopsHold == HubIInv /\ VisitIInv /\ FirstIInv /\ turn \in Turns
<1>1. WorkplaceInit => LoopsHold
  BY OneBegins, HubInvInit, VisitInitKeeps, FirstInitIInv
<1>2. LoopsHold /\ [WorkplaceNext]_<<turn, workplaceVars>> => LoopsHold'
  BY OneMoves, HubInvNext, VisitNextKeeps, FirstStepIInv
<1> HIDE DEF LoopsHold
<1>3. WorkplaceSpec => []LoopsHold
  BY <1>1, <1>2, PTL DEF WorkplaceSpec
<1> QED BY <1>3 DEF LoopsHold

-----------------------------------------------------------------------------
(* What follows *)

\* Whatever component moves, every table, cache and request of all of them is what its
\* module says it is, for any of their constants (the state of the handlers and loops
\* of the backend around the ledger).
THEOREM WorkplaceTyped == WorkplaceSpec => []WorkplaceTypeOK
<1>1. /\ TreeIInv /\ CardIInv /\ FaceIInv /\ ChatIInv /\ AccountIInv /\ TrackIInv
      /\ SightingIInv /\ CamIInv /\ AnomalyIInv /\ DutyIInv /\ RoleIInv
      /\ HubIInv /\ VisitIInv /\ FirstIInv /\ turn \in Turns
      => WorkplaceTypeOK
  BY FirstIInvTyped
     DEF WorkplaceTypeOK, TreeIInv, CardIInv, FaceIInv, ChatIInv, AccountIInv, TrackIInv,
         SightingIInv, CamIInv, AnomalyIInv, DutyIInv, RoleIInv, HubIInv, VisitIInv
<1> QED BY <1>1, LoopsKeep, WorkplaceIsItsParts, TreeInductive, CardsInductive,
           FacesInductive, ChatInductive, AccountInductive, TracksInductive,
           SightingsInductive, CamerasInductive, AnomaliesInductive, DutyInductive,
           RolesInductive, PTL

\* What is proved of each component alone holds of the workplace, with all of them in one
\* state and each property with the exceptions it names: the trees, cards, faces, chats, accounts, tracks, alerts, cameras, anomalies,
\* duty rules, roles, visitors, the presence and the setup.  (That the places of employees
\* fit their companies rests on the grants and is stated in OfficeProofs, PlacesFit.)
THEOREM WorkplaceIsSafe ==
    WorkplaceSpec =>
        /\ [](/\ NoCycle /\ NoGhosts /\ VisitorRowAgrees /\ RevokedCardsAreDead
              /\ EventsExplainTheDay /\ FlagTellsIndex /\ ForgottenStayForgotten
              /\ SentByMembers /\ RacersInsertOnce /\ TokensEndWithPassword
              /\ SuperAdminRemains /\ NamesStayOnTheirTrack /\ TailgatersWereTwo
              /\ StreamsFollowRows /\ ListsFollowRows /\ TriageIsSigned
              /\ RulesAreUnambiguous /\ RolesAreMeant /\ OneOrganization)
        /\ OnlyNewcomersAreLost
<1>1. HubIInv /\ VisitIInv /\ FirstIInv => NoGhosts /\ VisitorRowAgrees /\ OneOrganization
  BY CountsHaveSockets, RowOfOrderly, RolesMeanOne
<1>2. WorkplaceSpec => [](NoGhosts /\ VisitorRowAgrees /\ OneOrganization)
  BY <1>1, LoopsKeep, PTL
<1> QED BY <1>2, WorkplaceIsItsParts, MovesMakeNoCycle, CountBoundsLoss, RevokedAreDead,
           DayExplained, FlagTells, ForgottenStay, MembersSend, OneRowPerRace, TokensEnd,
           SuperAdminStays, NamesStay, TailgatersTwo, StreamsHaveRowUrls, ListsAreFresh,
           TriageSigned, RulesUnambiguous, RolesMeant, PTL
=============================================================================
