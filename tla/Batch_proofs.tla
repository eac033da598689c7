--------------------------- MODULE Batch_proofs ---------------------------
(***************************************************************************)
(* Proofs about one batch, for every set of first campaigns, every length  *)
(* of the campaigns and every number of failures.                          *)
(*                                                                         *)
(* That the ledger never holds an hour twice is not inductive: it depends  *)
(* on what an interrupted hour left of clock, record and ledger.  The      *)
(* invariant relates the running hour to the copies step() took of it:     *)
(* at most one transition ahead of them, and settled when they were taken. *)
(*                                                                         *)
(* That routing asks each question once and never comes back is not either:*)
(* it depends on how far the batch has come.  The second part ranks the    *)
(* campaigns, C2A anew once C4 has run, and ties the notes of the record   *)
(* and the campaigns started to the rank reached, in the running batch and *)
(* in the copies a refused hour restores.  The last part is about a run of *)
(* the executor over the batch.                                            *)
(***************************************************************************)
EXTENDS BatchRunner, SequenceTheorems, TLAPS

Choices == UNION Range(Options)
Melts == [campaign : Phases, campaignHour : Nat, hour : Nat]
Records == [track : Tracks, path : Paths, branch : Branches,
            decisions : Seq(DecisionTypes \X Choices)]
Decisions == DecisionTypes \cup {"none"}
Nexts == Phases \cup {"stay", "stop", "decide"}

Saves == [melt : Melts, record : Records, snapshots : Seq(Nat), ledger : Seq(Nat),
          pending : Decisions, paused : BOOLEAN, refusedC4 : BOOLEAN,
          refusedC6 : BOOLEAN, entered : Seq(Campaigns)]

HourPhases == {"physics", "endpoint", "boundary", "advanced", "starting", "booked"}

Types ==
    /\ plan \in Plans
    /\ melt \in Melts
    /\ record \in Records
    /\ snapshots \in Seq(Nat)
    /\ ledger \in Seq(Nat)
    /\ pending \in Decisions
    /\ paused \in BOOLEAN
    /\ refusedC4 \in BOOLEAN
    /\ refusedC6 \in BOOLEAN
    /\ entered \in Seq(Campaigns)
    /\ saved \in Saves
    /\ poisoned \in BOOLEAN
    /\ projection \in BOOLEAN
    /\ phase \in HourPhases \cup {"idle"}
    /\ next \in Nexts
    /\ aborts \in 0 .. MaxAborts

---------------------------------------------------------------------------
Increasing(hours) == \A i \in 1 .. Len(hours) - 1 : hours[i] < hours[i + 1]

\* The hours of a ledger are past, in order, and each has its snapshot.
Settled(hours, shots, now) ==
    /\ Increasing(hours)
    /\ \A i \in 1 .. Len(hours) : hours[i] < now
    /\ \A i \in 1 .. Len(hours) : \E j \in 1 .. Len(shots) : hours[i] = shots[j]

\* Clock, snapshots and ledger of a running hour against its saved copies.
HourAhead ==
    phase # "idle" =>
        /\ ~poisoned
        /\ Settled(saved.ledger, saved.snapshots, saved.melt.hour)
        /\ ledger \in {saved.ledger, Append(saved.ledger, saved.melt.hour)}
        /\ snapshots = IF phase \in {"starting", "booked"}
                       THEN Append(saved.snapshots, saved.melt.hour)
                       ELSE saved.snapshots
        /\ melt.hour = IF phase \in {"physics", "endpoint", "boundary"}
                       THEN saved.melt.hour ELSE saved.melt.hour + 1

HourSettled ==
    phase = "idle" =>
        /\ ~poisoned => Settled(ledger, snapshots, melt.hour)
        /\ Increasing(ledger)

\* A pause has its decision, and only the end of an hour makes one.
Pausing ==
    /\ paused <=> pending # "none"
    /\ poisoned => pending = "none"
    /\ phase # "idle" =>
          /\ saved.pending = "none" /\ ~saved.paused
          /\ pending # "none" => phase = "booked" /\ next = "decide"

\* A C4 is refused once its endpoint was asked, and then nothing is routed.
Refusing ==
    /\ C4RefusalFinal
    /\ phase # "idle" => ~saved.refusedC4
    /\ phase # "idle" /\ refusedC4 => phase \notin {"physics", "endpoint"} /\ next = "stop"

\* A batch is complete only at the end of an hour that routed there.
Completing ==
    /\ phase = "starting" => next \in Campaigns
    /\ phase # "idle" => saved.melt.campaign # "COMPLETE"
    /\ phase # "idle" /\ melt.campaign = "COMPLETE" => phase = "booked" /\ next = "COMPLETE"

IndInv == Types /\ HourAhead /\ HourSettled /\ Pausing /\ Refusing /\ Completing

---------------------------------------------------------------------------
\* The options of a decision are among the choices.
LEMMA OptionIsChoice ==
    ASSUME NEW type \in DecisionTypes
    PROVE  Options[type] \subseteq Choices
  <1>1. type \in DOMAIN Options
    BY DEF Options, DecisionTypes
  <1> QED
    BY <1>1 DEF Choices, Range

\* Routing names a campaign, the end, or a decision.
LEMMA NextCampaignNames ==
    ASSUME NEW p, NEW c, NEW r
    PROVE  NextCampaign(p, c, r) \in Phases \cup {"decide"}
  BY DEF NextCampaign, AfterC5, C7Enabled, Phases, Campaigns

\* The question of a decision is one of the five.
LEMMA DecisionForNames ==
    ASSUME NEW p, NEW c, NEW r
    PROVE  DecisionFor(p, c, r) \in DecisionTypes
  BY DEF DecisionFor, DecisionTypes

\* A choice leads to a campaign or to the end.
LEMMA ChosenNames ==
    ASSUME NEW p, NEW type \in DecisionTypes, NEW choice \in Options[type]
    PROVE  Chosen(p, type, choice) \in Phases
  <1>1. type = "PATH_AB" => choice \in {"A", "A_staged", "B"}
    BY DEF Options
  <1> QED
    BY <1>1 DEF Chosen, DecisionTypes, Phases, Campaigns

\* Noting a decision keeps the record a record.
LEMMA NotedRecord ==
    ASSUME NEW r \in Records, NEW type \in DecisionTypes, NEW choice \in Choices
    PROVE  [r EXCEPT !.decisions = Append(@, <<type, choice>>)] \in Records
  <1>1. Append(r.decisions, <<type, choice>>) \in Seq(DecisionTypes \X Choices)
    BY DEF Records
  <1> QED
    BY <1>1 DEF Records

LEMMA RoutedIsRecord ==
    ASSUME NEW p \in Plans, NEW c, NEW r \in Records
    PROVE  RoutedRecord(p, c, r) \in Records
  <1>a. \A q \in Records, type \in DecisionTypes, choice \in Choices :
           NoteAuto(q, <<type, choice>>) \in Records
    BY NotedRecord DEF NoteAuto
  <1>b. /\ "A_staged" \in Options["PATH_AB"] /\ "two" \in Options["BRANCH_ONE_TWO"]
        /\ "yes" \in Options["C6_PROCEED"] /\ "yes" \in Options["C7_PROCEED"]
        /\ {"PATH_AB", "BRANCH_ONE_TWO", "C6_PROCEED", "C7_PROCEED"}
             \subseteq DecisionTypes
    BY DEF Options, DecisionTypes
  <1>c. {"A_staged", "two", "yes"} \subseteq Choices
    BY <1>b, OptionIsChoice
  <1>d. /\ [r EXCEPT !.path = "A_staged"] \in Records
        /\ [r EXCEPT !.path = "A_post_mg_boiloff"] \in Records
        /\ [r EXCEPT !.branch = "two"] \in Records
    BY DEF Records, Paths, Branches
  <1>1. /\ NoteAuto([r EXCEPT !.path = "A_staged"], <<"PATH_AB", "A_staged">>) \in Records
        /\ NoteAuto([r EXCEPT !.branch = "two"], <<"BRANCH_ONE_TWO", "two">>) \in Records
        /\ NoteAuto(r, <<"C6_PROCEED", "yes">>) \in Records
        /\ NoteAuto(r, <<"C7_PROCEED", "yes">>) \in Records
    BY <1>a, <1>b, <1>c, <1>d
  <1>2. MarkFinalPass(r) \in Records
    BY <1>d DEF MarkFinalPass
  <1> QED
    BY <1>1, <1>2, <1>d DEF RoutedRecord

LEMMA ChosenIsRecord ==
    ASSUME NEW r \in Records, NEW type \in DecisionTypes, NEW choice \in Options[type]
    PROVE  ChosenRecord(r, type, choice) \in Records
  <1>1. choice \in Choices
    BY OptionIsChoice
  <1> DEFINE noted == [r EXCEPT !.decisions = Append(@, <<type, choice>>)]
  <1>2. noted \in Records
    BY <1>1, NotedRecord
  <1>3. /\ type = "ROOT_BRANCH" => choice \in Tracks
        /\ type = "PATH_AB" => choice \in Paths
        /\ type = "BRANCH_ONE_TWO" => choice \in Branches
    <2>1. /\ Options["ROOT_BRANCH"] \subseteq Tracks
          /\ Options["PATH_AB"] \subseteq Paths
          /\ Options["BRANCH_ONE_TWO"] \subseteq Branches
      BY DEF Options, Tracks, Paths, Branches
    <2> QED
      BY <2>1
  <1> HIDE DEF noted
  <1>4. /\ type = "ROOT_BRANCH" => [noted EXCEPT !.track = choice] \in Records
        /\ type = "PATH_AB" => [noted EXCEPT !.path = choice] \in Records
        /\ type = "BRANCH_ONE_TWO" => [noted EXCEPT !.branch = choice] \in Records
    BY <1>2, <1>3 DEF Records
  <1>5. ChosenRecord(r, type, choice) =
          CASE type = "ROOT_BRANCH"    -> [noted EXCEPT !.track = choice]
            [] type = "PATH_AB"        -> [noted EXCEPT !.path = choice]
            [] type = "BRANCH_ONE_TWO" -> [noted EXCEPT !.branch = choice]
            [] OTHER                   -> noted
    BY Zenon DEF ChosenRecord, noted
  <1> QED
    BY <1>2, <1>4, <1>5

---------------------------------------------------------------------------
\* An hour that books its snapshot keeps the ledger settled, whether or not
\* it committed; so does one that is given up before it committed.
LEMMA SettledGrows ==
    ASSUME NEW hours \in Seq(Nat), NEW shots \in Seq(Nat), NEW now \in Nat,
           Settled(hours, shots, now)
    PROVE  /\ Settled(hours, shots, now + 1)
           /\ Settled(hours, Append(shots, now), now + 1)
           /\ Settled(Append(hours, now), Append(shots, now), now + 1)
           /\ Increasing(Append(hours, now))
  <1>1. /\ Append(hours, now) \in Seq(Nat) /\ Len(Append(hours, now)) = Len(hours) + 1
        /\ \A i \in 1 .. Len(hours) : Append(hours, now)[i] = hours[i]
        /\ Append(hours, now)[Len(hours) + 1] = now
    BY AppendProperties
  <1>2. /\ Append(shots, now) \in Seq(Nat) /\ Len(Append(shots, now)) = Len(shots) + 1
        /\ \A i \in 1 .. Len(shots) : Append(shots, now)[i] = shots[i]
        /\ Append(shots, now)[Len(shots) + 1] = now
    BY AppendProperties
  <1>3. /\ Len(hours) \in Nat /\ Len(shots) \in Nat
        /\ \A i \in 1 .. Len(hours) : hours[i] \in Nat
    OBVIOUS
  <1>4. Increasing(hours) /\ \A i \in 1 .. Len(hours) : hours[i] < now
    BY DEF Settled
  <1>5. \A i \in 1 .. Len(hours) : \E j \in 1 .. Len(shots) : hours[i] = shots[j]
    BY DEF Settled
  <1>6. Increasing(Append(hours, now))
    BY <1>1, <1>3, <1>4 DEF Increasing
  <1>7. \A i \in 1 .. Len(hours) : hours[i] < now + 1
    BY <1>3, <1>4
  <1>8. \A i \in 1 .. Len(hours) :
           \E j \in 1 .. Len(Append(shots, now)) : hours[i] = Append(shots, now)[j]
    <2> TAKE i \in 1 .. Len(hours)
    <2>1. PICK j \in 1 .. Len(shots) : hours[i] = shots[j]
      BY <1>5
    <2>2. j \in 1 .. Len(Append(shots, now))
      BY <1>2, <1>3
    <2> WITNESS j \in 1 .. Len(Append(shots, now))
    <2> QED
      BY <2>1, <1>2
  <1>9. Len(shots) + 1 \in 1 .. Len(Append(shots, now))
    BY <1>2, <1>3
  <1>10. \A i \in 1 .. Len(Append(hours, now)) : Append(hours, now)[i] < now + 1
    BY <1>1, <1>3, <1>7
  <1>11. \A i \in 1 .. Len(Append(hours, now)) :
            \E j \in 1 .. Len(Append(shots, now)) :
               Append(hours, now)[i] = Append(shots, now)[j]
    BY <1>1, <1>2, <1>3, <1>8, <1>9
  <1> QED
    BY <1>4, <1>5, <1>6, <1>7, <1>8, <1>10, <1>11 DEF Settled

---------------------------------------------------------------------------
LEMMA InitIndInv == Init => IndInv
  <1> SUFFICES ASSUME Init
               PROVE  IndInv
    OBVIOUS
  <1>0. PICK start \in Starts, track \in Tracks :
           /\ melt = [campaign |-> start, campaignHour |-> 0, hour |-> 0]
           /\ record = EmptyRecord(track)
           /\ entered = <<start>>
    BY DEF Init
  <1>1. start \in Campaigns /\ start # "COMPLETE"
    BY BatchAssumption DEF Campaigns
  <1>2. melt \in Melts /\ record \in Records /\ entered \in Seq(Campaigns)
    <2>1. melt \in Melts
      BY <1>0, <1>1 DEF Melts, Phases
    <2>2. << >> \in Seq(DecisionTypes \X Choices)
      OBVIOUS
    <2>3. record \in Records
      BY <1>0, <2>2 DEF Records, EmptyRecord, Paths, Branches
    <2> QED
      BY <1>0, <1>1, <2>1, <2>3
  <1>i. /\ snapshots \in Seq(Nat) /\ ledger \in Seq(Nat)
        /\ pending \in Decisions /\ paused \in BOOLEAN
        /\ refusedC4 \in BOOLEAN /\ refusedC6 \in BOOLEAN
    <2>1. << >> \in Seq(Nat)
      OBVIOUS
    <2>2. /\ snapshots = << >> /\ ledger = << >> /\ pending = "none"
          /\ paused = FALSE /\ refusedC4 = FALSE /\ refusedC6 = FALSE
      BY DEF Init
    <2> QED
      BY <2>1, <2>2 DEF Decisions
  <1>s. Saving \in Saves
    BY <1>2, <1>i DEF Saving, Saves
  <1>3. Types
    <2>1. /\ plan \in Plans /\ poisoned \in BOOLEAN /\ projection \in BOOLEAN
          /\ phase \in HourPhases \cup {"idle"} /\ next \in Nexts
      BY DEF Init, Nexts
    <2>2. saved \in Saves /\ aborts \in 0 .. MaxAborts
      BY <1>s, BatchAssumption DEF Init
    <2> QED
      BY <1>2, <1>i, <2>1, <2>2 DEF Types
  <1>4. HourAhead /\ Refusing /\ Completing
    BY DEF Init, HourAhead, Refusing, C4RefusalFinal, Completing
  <1>5. Pausing
    BY DEF Init, Pausing
  <1>6. HourSettled
    BY DEF Init, HourSettled, Settled, Increasing
  <1> QED
    BY <1>3, <1>4, <1>5, <1>6 DEF IndInv

---------------------------------------------------------------------------
\* Calls that find the session idle and leave the ledger alone.

LEMMA BeginHourIndInv == IndInv /\ BeginHour => IndInv'
  <1> SUFFICES ASSUME IndInv, BeginHour
               PROVE  IndInv'
    OBVIOUS
  <1>0. /\ phase = "idle" /\ ~poisoned /\ ~paused /\ ~refusedC4
        /\ melt.campaign # "COMPLETE"
        /\ phase' = "physics" /\ next' = "stay" /\ saved' = Saving
        /\ UNCHANGED <<plan, state, poisoned, projection, aborts>>
    BY DEF BeginHour, MayAdvance, IsComplete
  <1>1. /\ saved'.melt = melt /\ saved'.snapshots = snapshots
        /\ saved'.ledger = ledger /\ saved'.pending = pending
        /\ saved'.paused = paused /\ saved'.refusedC4 = refusedC4
    BY <1>0 DEF Saving
  <1>2. Types'
    BY <1>0 DEF IndInv, Types, Saving, Saves, state, HourPhases, Nexts
  <1>3. HourAhead'
    BY <1>0, <1>1 DEF IndInv, HourAhead, HourSettled, state
  <1>4. HourSettled'
    BY <1>0 DEF HourSettled
  <1>5. Pausing'
    BY <1>0, <1>1 DEF IndInv, Types, Pausing, state
  <1>6. Refusing' /\ Completing'
    BY <1>0, <1>1
    DEF IndInv, Refusing, C4RefusalFinal, Completing, state, Campaigns
  <1> QED
    BY <1>2, <1>3, <1>4, <1>5, <1>6 DEF IndInv

LEMMA PollHourIndInv == IndInv /\ PollHour => IndInv'
  BY BatchAssumption
  DEF IndInv, PollHour, MayAdvance, Types, HourAhead, HourSettled, Pausing,
      Refusing, C4RefusalFinal, Completing, state

---------------------------------------------------------------------------
\* The stretches of an hour.

LEMMA CommitAhead ==
    ASSUME Types, HourAhead, phase # "idle", Commit
    PROVE  /\ ledger' \in Seq(Nat)
           /\ ledger' \in {saved.ledger, Append(saved.ledger, saved.melt.hour)}
  <1>1. /\ saved.ledger \in Seq(Nat) /\ saved.melt.hour \in Nat
        /\ Append(saved.ledger, saved.melt.hour) \in Seq(Nat)
        /\ Len(Append(saved.ledger, saved.melt.hour)) = Len(saved.ledger) + 1
    BY AppendProperties DEF Types, Saves, Melts
  <1>2. ledger = saved.ledger \/ Len(ledger) > Len(saved.ledger)
    BY <1>1 DEF HourAhead
  <1> QED
    BY <1>1, <1>2 DEF Types, HourAhead, Commit, Committed

LEMMA PhysicsIndInv == IndInv /\ Physics => IndInv'
  <1> SUFFICES ASSUME IndInv, Physics
               PROVE  IndInv'
    OBVIOUS
  <1>1. /\ ledger' \in Seq(Nat)
        /\ ledger' \in {saved.ledger, Append(saved.ledger, saved.melt.hour)}
    BY CommitAhead DEF IndInv, Physics
  <1>2. Types'
    BY <1>1 DEF IndInv, Physics, Types, HourPhases
  <1>3. HourAhead' /\ HourSettled'
    BY <1>1 DEF IndInv, Physics, HourAhead, HourSettled
  <1>4. Pausing' /\ Refusing' /\ Completing'
    BY DEF IndInv, Physics, Pausing, Refusing, C4RefusalFinal, Completing
  <1> QED
    BY <1>2, <1>3, <1>4 DEF IndInv

LEMMA EndpointNotMetIndInv == IndInv /\ EndpointNotMet => IndInv'
  BY DEF IndInv, EndpointNotMet, Types, HourPhases, HourAhead, HourSettled,
         Pausing, Refusing, C4RefusalFinal, Completing, state

LEMMA EndpointRefusesC4IndInv == IndInv /\ EndpointRefusesC4 => IndInv'
  <1> SUFFICES ASSUME IndInv, EndpointRefusesC4
               PROVE  IndInv'
    OBVIOUS
  <1>1. Types'
    BY DEF IndInv, EndpointRefusesC4, AfterRefusedC4, Resume, Types, HourPhases,
           Decisions, Nexts
  <1>2. HourAhead' /\ HourSettled'
    BY DEF IndInv, EndpointRefusesC4, HourAhead, HourSettled
  <1>3. Pausing'
    BY DEF IndInv, EndpointRefusesC4, Resume, Pausing
  <1>4. Refusing'
    BY DEF IndInv, EndpointRefusesC4, AfterRefusedC4, Resume, Refusing,
           C4RefusalFinal
  <1>5. Completing'
    BY DEF IndInv, EndpointRefusesC4, Completing
  <1> QED
    BY <1>1, <1>2, <1>3, <1>4, <1>5 DEF IndInv

LEMMA EndpointMetIndInv == IndInv /\ EndpointMet => IndInv'
  <1> SUFFICES ASSUME IndInv, EndpointMet
               PROVE  IndInv'
    OBVIOUS
  <1>0. next' \in Nexts /\ record' \in Records
    BY NextCampaignNames, RoutedIsRecord DEF IndInv, Types, EndpointMet, Nexts
  <1>1. Types'
    BY <1>0 DEF IndInv, EndpointMet, Types, HourPhases
  <1>2. HourAhead' /\ HourSettled'
    BY DEF IndInv, EndpointMet, HourAhead, HourSettled
  <1>3. Pausing'
    BY DEF IndInv, EndpointMet, Pausing
  <1>4. Refusing'
    BY DEF IndInv, EndpointMet, Refusing, C4RefusalFinal
  <1>5. Completing'
    BY DEF IndInv, EndpointMet, Completing
  <1> QED
    BY <1>1, <1>2, <1>3, <1>4, <1>5 DEF IndInv

LEMMA AdvanceClockIndInv == IndInv /\ AdvanceClock => IndInv'
  <1> SUFFICES ASSUME IndInv, AdvanceClock
               PROVE  IndInv'
    OBVIOUS
  <1>1. /\ ledger' \in Seq(Nat)
        /\ ledger' \in {saved.ledger, Append(saved.ledger, saved.melt.hour)}
    BY CommitAhead DEF IndInv, AdvanceClock
  <1>2. melt' \in Melts /\ melt'.hour = melt.hour + 1 /\ melt'.campaign = melt.campaign
    <2>1. /\ melt \in [campaign : Phases, campaignHour : Nat, hour : Nat]
          /\ melt' = [melt EXCEPT !.hour = melt.hour + 1,
                                  !.campaignHour = melt.campaignHour + 1]
      BY DEF IndInv, AdvanceClock, Types, Melts
    <2>2. melt.hour + 1 \in Nat /\ melt.campaignHour + 1 \in Nat
      BY <2>1
    <2> QED
      BY <2>1, <2>2 DEF Melts
  <1>3. Types'
    BY <1>1, <1>2 DEF IndInv, AdvanceClock, Types, HourPhases
  <1>4. HourAhead' /\ HourSettled'
    BY <1>1, <1>2 DEF IndInv, AdvanceClock, HourAhead, HourSettled
  <1>5. Pausing' /\ Refusing' /\ Completing'
    BY <1>2
    DEF IndInv, AdvanceClock, Pausing, Refusing, C4RefusalFinal, Completing
  <1> QED
    BY <1>3, <1>4, <1>5 DEF IndInv

LEMMA BookIndInv == IndInv /\ Book => IndInv'
  <1> SUFFICES ASSUME IndInv, Book
               PROVE  IndInv'
    OBVIOUS
  <1>0. /\ phase = "advanced" /\ pending = "none" /\ ~paused /\ ~poisoned
        /\ phase' \in {"starting", "booked"}
        /\ phase' = "starting" <=> next \in Campaigns
        /\ UNCHANGED <<plan, record, ledger, refusedC4, refusedC6, entered,
                       poisoned, projection, next, saved, aborts>>
    BY DEF IndInv, Pausing, HourAhead, Book
  <1>1. saved.snapshots \in Seq(Nat) /\ saved.melt.hour \in Nat
    BY DEF IndInv, Types, Saves, Melts
  <1>2. snapshots' = Append(saved.snapshots, saved.melt.hour) /\ snapshots' \in Seq(Nat)
    BY <1>0, <1>1 DEF IndInv, HourAhead, Book
  <1>3. /\ melt' \in Melts /\ melt'.hour = melt.hour
        /\ next = "COMPLETE" => melt'.campaign = "COMPLETE"
        /\ next # "COMPLETE" => melt' = melt
    BY DEF IndInv, Book, Types, Melts, Phases
  <1>4. /\ pending' \in Decisions /\ paused' \in BOOLEAN
        /\ paused' <=> pending' # "none"
        /\ pending' # "none" <=> next = "decide"
    <2>1. CASE next = "decide"
      <3>1. paused' = TRUE /\ pending' \in DecisionTypes
        BY <2>1, DecisionForNames DEF Book
      <3>2. "none" \notin DecisionTypes
        BY DEF DecisionTypes
      <3> QED
        BY <2>1, <3>1, <3>2 DEF Decisions
    <2>2. CASE next # "decide"
      <3>1. pending' = "none" /\ paused' = FALSE
        BY <1>0, <2>2 DEF IndInv, Types, Book
      <3> QED
        BY <2>2, <3>1 DEF Decisions
    <2> QED
      BY <2>1, <2>2
  <1>5. Types'
    BY <1>0, <1>2, <1>3, <1>4 DEF IndInv, Types, HourPhases
  <1>6. HourAhead' /\ HourSettled'
    BY <1>0, <1>2, <1>3 DEF IndInv, HourAhead, HourSettled
  <1>7. Pausing'
    BY <1>0, <1>4 DEF IndInv, Pausing, Campaigns
  <1>8. Refusing'
    BY <1>0, <1>3, <1>4 DEF IndInv, Refusing, C4RefusalFinal
  <1>9. Completing'
    BY <1>0, <1>3 DEF IndInv, Completing, Campaigns
  <1> QED
    BY <1>5, <1>6, <1>7, <1>8, <1>9 DEF IndInv

LEMMA ClearMelt ==
    ASSUME melt \in Melts, NEW campaign \in Campaigns
    PROVE  /\ Clear(campaign) \in Melts /\ Clear(campaign).hour = melt.hour
           /\ Clear(campaign).campaign = campaign /\ campaign # "COMPLETE"
  BY DEF Clear, Melts, Phases, Campaigns

LEMMA StartNextIndInv == IndInv /\ StartNext => IndInv'
  <1> SUFFICES ASSUME IndInv, StartNext
               PROVE  IndInv'
    OBVIOUS
  <1>0. phase = "starting" /\ next \in Campaigns /\ next # "stop" /\ ~refusedC4
    BY DEF IndInv, StartNext, Completing, Refusing, Campaigns
  <1>1. /\ melt' \in Melts /\ melt'.hour = melt.hour
        /\ melt'.campaign = next /\ next # "COMPLETE"
    BY <1>0, ClearMelt DEF IndInv, Types, StartNext
  <1>2. entered' \in Seq(Campaigns)
    BY <1>0 DEF IndInv, Types, StartNext
  <1>3. Types'
    BY <1>0, <1>1, <1>2
    DEF IndInv, StartNext, Resume, Types, HourPhases, Decisions
  <1>4. HourAhead' /\ HourSettled'
    BY <1>0, <1>1 DEF IndInv, StartNext, HourAhead, HourSettled
  <1>5. Pausing'
    BY DEF IndInv, StartNext, Resume, Pausing
  <1>6. Refusing'
    BY <1>0 DEF IndInv, StartNext, Refusing, C4RefusalFinal
  <1>7. Completing'
    BY <1>0, <1>1 DEF IndInv, StartNext, Completing
  <1> QED
    BY <1>3, <1>4, <1>5, <1>6, <1>7 DEF IndInv

\* What an interrupted or finished hour may leave: the ledger is in order, and
\* settled unless the hour committed without being booked.
LEMMA HourLeaves ==
    ASSUME Types, HourAhead, phase # "idle"
    PROVE  /\ Increasing(ledger)
           /\ phase = "booked" \/ ~Committed => Settled(ledger, snapshots, melt.hour)
  <1>1. /\ saved.ledger \in Seq(Nat) /\ saved.snapshots \in Seq(Nat)
        /\ saved.melt.hour \in Nat
    BY DEF Types, Saves, Melts
  <1>2. Settled(saved.ledger, saved.snapshots, saved.melt.hour)
    BY DEF HourAhead
  <1>3. /\ Settled(saved.ledger, saved.snapshots, saved.melt.hour + 1)
        /\ Settled(saved.ledger, Append(saved.snapshots, saved.melt.hour),
                   saved.melt.hour + 1)
        /\ Settled(Append(saved.ledger, saved.melt.hour),
                   Append(saved.snapshots, saved.melt.hour), saved.melt.hour + 1)
        /\ Increasing(Append(saved.ledger, saved.melt.hour))
    BY <1>1, <1>2, SettledGrows
  <1>4. Increasing(ledger)
    BY <1>2, <1>3 DEF HourAhead, Settled
  <1>5. ~Committed => ledger = saved.ledger
    <2>1. Len(Append(saved.ledger, saved.melt.hour)) = Len(saved.ledger) + 1
      BY <1>1, AppendProperties
    <2> QED
      BY <1>1, <2>1 DEF HourAhead, Committed
  <1>6. CASE phase \in {"physics", "endpoint", "boundary"}
    BY <1>2, <1>4, <1>5, <1>6 DEF HourAhead
  <1>7. CASE phase = "advanced"
    BY <1>3, <1>4, <1>5, <1>7 DEF HourAhead
  <1>8. CASE phase \in {"starting", "booked"}
    BY <1>3, <1>4, <1>8 DEF HourAhead
  <1> QED
    BY <1>6, <1>7, <1>8 DEF Types, HourPhases

LEMMA EndHourIndInv == IndInv /\ EndHour => IndInv'
  <1> SUFFICES ASSUME IndInv, EndHour
               PROVE  IndInv'
    OBVIOUS
  <1>0. /\ phase = "booked" /\ phase' = "idle" /\ projection' \in BOOLEAN
        /\ UNCHANGED <<plan, state, poisoned, next, saved, aborts>>
    BY DEF EndHour
  <1>1. Increasing(ledger) /\ Settled(ledger, snapshots, melt.hour)
    BY <1>0, HourLeaves DEF IndInv
  <1>2. Types'
    BY <1>0 DEF IndInv, Types, state
  <1>3. HourAhead' /\ HourSettled'
    BY <1>0, <1>1 DEF HourAhead, HourSettled, state
  <1>4. Pausing' /\ Refusing' /\ Completing'
    BY <1>0 DEF IndInv, Pausing, Refusing, C4RefusalFinal, Completing, state
  <1> QED
    BY <1>2, <1>3, <1>4 DEF IndInv

---------------------------------------------------------------------------
\* The exceptions.

LEMMA RefuseHourIndInv == IndInv /\ RefuseHour => IndInv'
  <1> SUFFICES ASSUME IndInv, RefuseHour
               PROVE  IndInv'
    OBVIOUS
  <1>0. /\ phase # "idle" /\ phase' = "idle" /\ aborts < MaxAborts
        /\ aborts' = aborts + 1
        /\ melt' = saved.melt /\ record' = saved.record
        /\ snapshots' = saved.snapshots /\ ledger' = saved.ledger
        /\ pending' = saved.pending /\ paused' = saved.paused
        /\ refusedC4' = saved.refusedC4 /\ refusedC6' = saved.refusedC6
        /\ entered' = saved.entered
        /\ UNCHANGED <<plan, poisoned, projection, next, saved>>
    BY DEF RefuseHour, CanRaise, Restore, RestoreButLedger
  <1>1. Types'
    BY <1>0, BatchAssumption DEF IndInv, Types, Saves
  <1>2. HourAhead' /\ HourSettled'
    BY <1>0 DEF IndInv, HourAhead, HourSettled, Settled
  <1>3. Pausing'
    <2>1. paused' = FALSE /\ pending' = "none"
      BY <1>0 DEF IndInv, Types, Saves, Pausing
    <2> QED
      BY <1>0, <2>1 DEF Pausing
  <1>4. Refusing' /\ Completing'
    BY <1>0 DEF IndInv, Types, Saves, Refusing, C4RefusalFinal, Completing
  <1> QED
    BY <1>1, <1>2, <1>3, <1>4 DEF IndInv

LEMMA AbortHourIndInv == IndInv /\ AbortHour => IndInv'
  <1> SUFFICES ASSUME IndInv, AbortHour
               PROVE  IndInv'
    OBVIOUS
  <1>0. /\ phase # "idle" /\ phase' = "idle" /\ aborts < MaxAborts
        /\ phase = "booked" => next \in Campaigns \/ IsComplete
        /\ aborts' = aborts + 1
        /\ UNCHANGED <<plan, state, projection, next, saved>>
    BY DEF AbortHour, CanRaise
  <1>1. poisoned' = (poisoned \/ Committed) /\ ~poisoned
    BY <1>0 DEF IndInv, AbortHour, Poison, HourAhead
  <1>2. /\ Increasing(ledger)
        /\ ~Committed => Settled(ledger, snapshots, melt.hour)
    BY <1>0, HourLeaves DEF IndInv
  <1>3. Types'
    <2>1. poisoned' \in BOOLEAN
      BY <1>1
    <2> QED
      BY <1>0, <2>1, BatchAssumption DEF IndInv, Types, state
  <1>4. HourAhead' /\ HourSettled'
    BY <1>0, <1>1, <1>2 DEF HourAhead, HourSettled, state
  <1>5. Pausing'
    <2>1. pending = "none"
      BY <1>0
      DEF IndInv, Pausing, Refusing, Completing, IsComplete, Campaigns
    <2> QED
      BY <1>0, <2>1 DEF IndInv, Pausing, state
  <1>6. Refusing' /\ Completing'
    BY <1>0 DEF IndInv, Refusing, C4RefusalFinal, Completing, state
  <1> QED
    BY <1>3, <1>4, <1>5, <1>6 DEF IndInv

---------------------------------------------------------------------------
\* The operator's decision.

LEMMA EnterTypes ==
    ASSUME Types, NEW campaign \in Phases, Enter(campaign)
    PROVE  /\ melt' \in Melts /\ melt'.hour = melt.hour
           /\ entered' \in Seq(Campaigns) /\ refusedC6' \in BOOLEAN
  <1>1. CASE campaign = "COMPLETE"
    <2>1. /\ melt' = [melt EXCEPT !.campaign = "COMPLETE"]
          /\ entered' = entered /\ refusedC6' = refusedC6
      BY <1>1 DEF Enter
    <2>2. melt' \in Melts /\ melt'.hour = melt.hour
      BY <2>1 DEF Types, Melts, Phases
    <2> QED
      BY <2>1, <2>2 DEF Types
  <1>2. CASE campaign \in Campaigns /\ campaign # "COMPLETE"
    <2>1. /\ melt' = Clear(campaign) /\ entered' = Append(entered, campaign)
          /\ refusedC6' \in {FALSE, refusedC6}
      BY <1>2 DEF Enter
    <2>2. melt' \in Melts /\ melt'.hour = melt.hour
      BY <1>2, <2>1, ClearMelt DEF Types
    <2>3. entered' \in Seq(Campaigns)
      BY <1>2, <2>1 DEF Types
    <2>4. refusedC6' \in BOOLEAN
      BY <2>1 DEF Types
    <2> QED
      BY <2>2, <2>3, <2>4
  <1> QED
    BY <1>1, <1>2 DEF Phases

LEMMA DecideIndInv ==
    ASSUME NEW choice, IndInv, Decide(choice)
    PROVE  IndInv'
  <1>0. /\ phase = "idle" /\ ~refusedC4 /\ pending # "none" /\ ~poisoned
        /\ pending \in DecisionTypes /\ choice \in Options[pending]
    BY DEF IndInv, Types, Pausing, Decisions, Decide, CanDecide
  <1>1. Chosen(plan, pending, choice) \in Phases
    BY <1>0, ChosenNames
  <1>2. /\ melt' \in Melts /\ melt'.hour = melt.hour
        /\ entered' \in Seq(Campaigns) /\ refusedC6' \in BOOLEAN
    BY <1>1, EnterTypes DEF IndInv, Decide
  <1>3. record' \in Records
    BY <1>0, ChosenIsRecord DEF IndInv, Types, Decide
  <1>4. /\ pending' = "none" /\ paused' = FALSE
        /\ UNCHANGED <<plan, snapshots, ledger, refusedC4, poisoned, projection,
                       phase, next, saved, aborts>>
    BY DEF Decide, Resume
  <1>5. Types'
    BY <1>2, <1>3, <1>4 DEF IndInv, Types, Decisions
  <1>6. HourAhead' /\ HourSettled'
    BY <1>0, <1>2, <1>4 DEF IndInv, HourAhead, HourSettled
  <1>7. Pausing' /\ Refusing' /\ Completing'
    BY <1>0, <1>4 DEF Pausing, Refusing, C4RefusalFinal, Completing
  <1> QED
    BY <1>5, <1>6, <1>7 DEF IndInv

LEMMA DecideAbortsIndInv ==
    ASSUME NEW choice, IndInv, DecideAborts(choice)
    PROVE  IndInv'
  <1>0. /\ phase = "idle" /\ ~refusedC4 /\ pending # "none" /\ ~poisoned
        /\ pending \in DecisionTypes /\ choice \in Options[pending]
    BY DEF IndInv, Types, Pausing, Decisions, DecideAborts, CanDecide
  <1>1. Chosen(plan, pending, choice) \in Phases
    BY <1>0, ChosenNames
  <1>2. /\ UNCHANGED <<plan, snapshots, ledger, refusedC4, poisoned, projection,
                       phase, next, saved>>
        /\ aborts < MaxAborts /\ aborts' = aborts + 1
    BY DEF DecideAborts
  <1>6. record' \in Records
    <2>1. record \in Records /\ ChosenRecord(record, pending, choice) \in Records
      BY <1>0, ChosenIsRecord DEF IndInv, Types
    <2> QED
      BY <2>1 DEF DecideAborts
  <1>3. aborts' \in 0 .. MaxAborts
    BY <1>2, BatchAssumption DEF IndInv, Types
  <1>4. CASE Enter(Chosen(plan, pending, choice)) /\ Resume
    <2>1. /\ melt' \in Melts /\ melt'.hour = melt.hour
          /\ entered' \in Seq(Campaigns) /\ refusedC6' \in BOOLEAN
      BY <1>1, <1>4, EnterTypes DEF IndInv
    <2>2. pending' = "none" /\ paused' = FALSE
      BY <1>4 DEF Resume
    <2>3. Types'
      BY <1>2, <1>3, <1>6, <2>1, <2>2 DEF IndInv, Types, Decisions
    <2>4. HourAhead' /\ HourSettled'
      BY <1>0, <1>2, <2>1 DEF IndInv, HourAhead, HourSettled
    <2>5. Pausing' /\ Refusing' /\ Completing'
      BY <1>0, <1>2, <2>2 DEF Pausing, Refusing, C4RefusalFinal, Completing
    <2> QED
      BY <2>3, <2>4, <2>5 DEF IndInv
  <1>5. CASE UNCHANGED <<melt, entered, refusedC6, pending, paused>>
    BY <1>0, <1>2, <1>3, <1>5, <1>6
    DEF IndInv, Types, HourAhead, HourSettled, Pausing, Refusing,
        C4RefusalFinal, Completing
  <1> QED
    BY <1>4, <1>5 DEF DecideAborts

---------------------------------------------------------------------------
LEMMA NextIndInv == IndInv /\ [Next]_vars => IndInv'
  <1> SUFFICES ASSUME IndInv, [Next]_vars
               PROVE  IndInv'
    OBVIOUS
  <1>1. CASE Hour
    BY <1>1, BeginHourIndInv, PhysicsIndInv, EndpointNotMetIndInv,
       EndpointRefusesC4IndInv, EndpointMetIndInv, AdvanceClockIndInv,
       BookIndInv, StartNextIndInv, EndHourIndInv
    DEF Hour
  <1>2. CASE PollHour
    BY <1>2, PollHourIndInv
  <1>3. CASE RefuseHour
    BY <1>3, RefuseHourIndInv
  <1>4. CASE AbortHour
    BY <1>4, AbortHourIndInv
  <1>5. CASE \E choice \in Choices : Decide(choice) \/ DecideAborts(choice)
    BY <1>5, DecideIndInv, DecideAbortsIndInv
  <1>6. CASE UNCHANGED vars
    BY <1>6
    DEF vars, state, IndInv, Types, HourAhead, HourSettled, Pausing, Refusing,
        C4RefusalFinal, Completing
  <1> QED
    BY <1>1, <1>2, <1>3, <1>4, <1>5, <1>6 DEF Next, Choices

\* The inductive invariant holds of every behaviour.
THEOREM IndInvHolds == Spec => []IndInv
  <1> QED
    BY InitIndInv, NextIndInv, PTL DEF Spec

---------------------------------------------------------------------------
\* Every variable of a batch keeps to its type, whatever is routed, chosen,
\* refused or restored.
THEOREM TypesCorrect == Spec => []TypeOK
  <1>1. IndInv => TypeOK
    <2> SUFFICES ASSUME Types
                 PROVE  TypeOK
      BY DEF IndInv
    <2>1. record.track \in Tracks /\ record.path \in Paths /\ record.branch \in Branches
      BY DEF Types, Records
    <2>2. record.decisions \in Seq(DecisionTypes \X UNION Range(Options))
      BY DEF Types, Records, Choices
    <2>3. {paused, refusedC4, refusedC6, poisoned, projection} \subseteq BOOLEAN
      BY DEF Types
    <2> QED
      BY <2>1, <2>2, <2>3
      DEF Types, TypeOK, Melts, Decisions, HourPhases, Nexts
  <1> QED
    BY <1>1, IndInvHolds, PTL

\* For any number of failures, no hour is in the ledger twice: a retried
\* attempt never adds its transitions to those of one that failed.
THEOREM NoHourTwiceHolds == Spec => []NoHourTwice
  <1>1. IndInv => NoHourTwice
    <2> SUFFICES ASSUME IndInv
                 PROVE  Increasing(ledger)
      BY DEF NoHourTwice, Increasing
    <2> QED
      BY HourLeaves DEF IndInv, HourSettled
  <1> QED
    BY <1>1, IndInvHolds, PTL

\* For any number of failures, the ledger of a batch that is not poisoned has
\* no transition of an hour the record does not have.
THEOREM LedgerAccountedHolds == Spec => []LedgerAccounted
  <1>1. IndInv => LedgerAccounted
    <2> SUFFICES ASSUME IndInv, phase = "idle", ~poisoned
                 PROVE  Range(ledger) \subseteq Range(snapshots)
      BY DEF LedgerAccounted
    <2>1. \A i \in 1 .. Len(ledger) : \E j \in 1 .. Len(snapshots) :
             ledger[i] = snapshots[j]
      BY DEF IndInv, HourSettled, Settled
    <2>2. DOMAIN ledger = 1 .. Len(ledger) /\ DOMAIN snapshots = 1 .. Len(snapshots)
      BY DEF IndInv, Types
    <2> QED
      BY <2>1, <2>2 DEF Range
  <1> QED
    BY <1>1, IndInvHolds, PTL

\* A refused C4 is the end of every batch: no later campaign, no decision.
THEOREM C4RefusalFinalHolds == Spec => []C4RefusalFinal
  <1>1. IndInv => C4RefusalFinal
    BY DEF IndInv, Refusing
  <1> QED
    BY <1>1, IndInvHolds, PTL

\* No step of any batch touches its state once an hour is poisoned.
THEOREM PoisonSticksHolds == Spec => PoisonSticks
  <1>1. IndInv /\ [Next]_vars => (poisoned => UNCHANGED <<state, poisoned>>)
    <2> SUFFICES ASSUME IndInv, [Next]_vars, poisoned
                 PROVE  UNCHANGED <<state, poisoned>>
      OBVIOUS
    <2>1. phase = "idle" /\ pending = "none"
      BY DEF IndInv, HourAhead, Pausing
    <2>2. ~Hour /\ ~RefuseHour /\ ~AbortHour
      BY <2>1
      DEF Hour, BeginHour, MayAdvance, Physics, EndpointNotMet,
          EndpointRefusesC4, EndpointMet, AdvanceClock, Book, StartNext, EndHour,
          RefuseHour, AbortHour, CanRaise
    <2>3. \A choice : ~Decide(choice) /\ ~DecideAborts(choice)
      BY <2>1 DEF Decide, DecideAborts, CanDecide
    <2> QED
      BY <2>2, <2>3 DEF Next, PollHour, vars
  <1> QED
    BY <1>1, IndInvHolds, PTL DEF Spec, PoisonSticks

---------------------------------------------------------------------------
(***************************************************************************)
(* The way through the campaigns.  They are ranked: whatever is routed,    *)
(* chosen, restored or left half done, a batch climbs, with C2A ranked     *)
(* anew when it follows C4.  What is noted in the record is tied to the    *)
(* rank the batch has reached, so that no question can come up again; the  *)
(* copies of a running hour are on course like the batch itself.           *)
(***************************************************************************)
Rank(campaign) ==
    CASE campaign = "C0" -> 0
      [] campaign = "C0B" -> 1
      [] campaign \in {"C2A", "C2A_STAGED", "C2B", "MRE_BASELINE"} -> 2
      [] campaign = "C3_K" -> 3
      [] campaign = "C3_NA" -> 4
      [] campaign = "C4" -> 5
      [] campaign = "C5" -> 6
      [] campaign = "C6" -> 7
      [] OTHER -> 8

\* C2A is run again as the final pass, after C4.
FinalAt(e, i) == e[i] = "C2A" /\ i > 1 /\ e[i - 1] = "C4"

RankAt(e, i) == IF FinalAt(e, i) THEN 6 ELSE Rank(e[i])
RankNow(c, e) == IF c = "COMPLETE" THEN 9 ELSE RankAt(e, Len(e))

\* A note of a decision is made once its question is passed.
RankAsked(type) ==
    CASE type = "PATH_AB" -> 1
      [] type = "BRANCH_ONE_TWO" -> 4
      [] OTHER -> 6

\* What a batch that answers itself answers.
AutoAnswer(type) ==
    CASE type = "PATH_AB" -> "A_staged"
      [] type = "BRANCH_ONE_TWO" -> "two"
      [] OTHER -> "yes"

\* A record's notes, and the campaigns a batch has been in.
Notes(r) == Range(r.decisions)
Visited(c, e) == \E i \in 1 .. Len(e) : e[i] = c

\* The ranks of the campaigns entered grow; the last is the one the batch is in.
Climbs(c, e) ==
    /\ e # << >>
    /\ c # "COMPLETE" => e[Len(e)] = c
    /\ \A i, j \in 1 .. Len(e) : i < j => RankAt(e, i) < RankAt(e, j)

OnceEach(s) == \A i, j \in 1 .. Len(s) : s[i][1] = s[j][1] => i = j

\* Each question is noted once, and only when the batch is past it; but what a
\* batch answers itself is noted while it is still there, always alike.
NotedInTime(p, c, r, e) ==
    /\ OnceEach(r.decisions)
    /\ \A d \in Notes(r) :
          /\ d[1] # "ROOT_BRANCH"
          /\ d[1] = "C7_PROCEED" \/ p.auto => d[2] = AutoAnswer(d[1])
          /\ d[1] = "C7_PROCEED" \/ p.auto \/ RankNow(c, e) > RankAsked(d[1])

\* The final pass is marked, and the path is the operator's.
OnPath(c, r, e) ==
    /\ c # "COMPLETE" /\ FinalAt(e, Len(e)) => r.path \in FinalPass
    /\ \A choice \in Options["PATH_AB"] : <<"PATH_AB", choice>> \in Notes(r) =>
          /\ c = "C2A_STAGED" => choice = "A_staged"
          /\ \/ r.path = choice
             \/ choice # "B" /\ r.path = "A_post_mg_boiloff" /\ Visited("C4", e)

\* Branch two is entered at the end of C3_NA and not left before C6.
OnBranch(c, r, e) ==
    r.branch = "two" =>
       /\ r.track # "mre_baseline"
       /\ RankNow(c, e) >= 4
       /\ c \in {"C7", "COMPLETE"} =>
             Visited("C6", e) \/ <<"C6_PROCEED", "no">> \in Notes(r)

OnCourse(p, c, r, e) ==
    Climbs(c, e) /\ NotedInTime(p, c, r, e) /\ OnPath(c, r, e) /\ OnBranch(c, r, e)

\* Routing asked again gives the same answer and notes nothing more.
IsRouted(p, c, r) == r = RoutedRecord(p, c, r)

\* A question is asked by a batch that does not answer itself, at its campaign.
Asks(p, c, r, question) ==
    /\ ~p.auto /\ r.track # "mre_baseline"
    /\ question \in {"PATH_AB", "BRANCH_ONE_TWO", "C6_PROCEED"}
    /\ question = "PATH_AB" => c = "C0B"
    /\ question = "BRANCH_ONE_TWO" => c = "C3_NA"
    /\ question = "C6_PROCEED" => c \in {"C2A", "C5"}

\* The batch is on course, and so are the copies a running hour may go back to.
Courses ==
    /\ OnCourse(plan, melt.campaign, record, entered)
    /\ phase # "idle" => OnCourse(plan, saved.melt.campaign, saved.record, saved.entered)
    /\ phase \in {"physics", "endpoint"} => next = "stay"
    /\ phase \in {"boundary", "advanced", "starting"} /\ next \notin {"stay", "stop"} =>
          /\ next = NextCampaign(plan, melt.campaign, record)
          /\ IsRouted(plan, melt.campaign, record)
    /\ pending # "none" => Asks(plan, melt.campaign, record, pending)

---------------------------------------------------------------------------
\* A sequence that grows keeps what it had.
LEMMA Grows ==
    ASSUME NEW S, NEW s \in Seq(S), NEW x \in S
    PROVE  /\ Append(s, x) \in Seq(S) /\ Len(Append(s, x)) = Len(s) + 1 /\ Len(s) \in Nat
           /\ \A i \in 1 .. Len(s) : Append(s, x)[i] = s[i]
           /\ Append(s, x)[Len(s) + 1] = x
           /\ Append(s, x) # << >>
           /\ Range(Append(s, x)) = Range(s) \cup {x}
  <1>1. /\ Append(s, x) \in Seq(S) /\ Len(Append(s, x)) = Len(s) + 1 /\ Len(s) \in Nat
        /\ \A i \in 1 .. Len(s) : Append(s, x)[i] = s[i]
        /\ Append(s, x)[Len(s) + 1] = x
    BY AppendProperties
  <1>2. DOMAIN Append(s, x) = 1 .. Len(s) + 1 /\ DOMAIN s = 1 .. Len(s)
    BY <1>1
  <1>3. Range(Append(s, x)) = Range(s) \cup {x}
    BY <1>1, <1>2 DEF Range
  <1> QED
    BY <1>1, <1>3

\* The rank a campaign is entered with.
RankEntered(c, n) == IF n = "C2A" /\ c = "C4" THEN 6 ELSE Rank(n)

\* Ranks are natural numbers below that of a complete batch.
LEMMA RankRange ==
    ASSUME NEW c \in Campaigns
    PROVE  Rank(c) \in 0 .. 8
  BY DEF Rank

\* A batch that enters a campaign of higher rank still climbs.
LEMMA ClimbsOn ==
    ASSUME NEW c \in Campaigns, NEW e \in Seq(Campaigns), NEW n \in Campaigns,
           Climbs(c, e), RankNow(c, e) < RankEntered(c, n)
    PROVE  /\ Climbs(n, Append(e, n))
           /\ RankNow(n, Append(e, n)) = RankEntered(c, n)
           /\ FinalAt(Append(e, n), Len(Append(e, n))) <=> n = "C2A" /\ c = "C4"
           /\ \A k : Visited(k, Append(e, n)) <=> Visited(k, e) \/ k = n
  <1> DEFINE f == Append(e, n)
             m == Len(e)
  <1>1. /\ f \in Seq(Campaigns) /\ Len(f) = m + 1 /\ m \in Nat
        /\ \A i \in 1 .. m : f[i] = e[i]
        /\ f[m + 1] = n /\ f # << >>
    BY Grows
  <1>2. m > 0 /\ e[m] = c /\ c # "COMPLETE" /\ n # "COMPLETE"
    BY DEF Climbs, Campaigns
  <1>3. \A i \in 1 .. m : (FinalAt(f, i) <=> FinalAt(e, i)) /\ RankAt(f, i) = RankAt(e, i)
    <2> TAKE i \in 1 .. m
    <2>1. f[i] = e[i] /\ (i > 1 => f[i - 1] = e[i - 1])
      BY <1>1
    <2> QED
      BY <2>1 DEF FinalAt, RankAt
  <1>4. FinalAt(f, m + 1) <=> n = "C2A" /\ c = "C4"
    BY <1>1, <1>2 DEF FinalAt
  <1>5. RankAt(f, m + 1) = RankEntered(c, n)
    BY <1>1, <1>4 DEF RankAt, RankEntered
  <1>6. RankNow(c, e) = RankAt(e, m) /\ RankNow(n, f) = RankEntered(c, n)
    BY <1>1, <1>2, <1>5 DEF RankNow
  <1>7. \A i \in 1 .. m : RankAt(e, i) \in Int /\ RankAt(e, i) <= RankAt(e, m)
    <2>1. \A i \in 1 .. m : e[i] \in Campaigns
      OBVIOUS
    <2>2. \A i \in 1 .. m : RankAt(e, i) \in Int
      BY <2>1, RankRange DEF RankAt
    <2>3. \A i \in 1 .. m : i < m => RankAt(e, i) < RankAt(e, m)
      BY <1>1, <1>2 DEF Climbs
    <2> QED
      BY <1>1, <2>2, <2>3
  <1>8. \A i \in 1 .. m : RankAt(f, i) < RankAt(f, m + 1)
    <2>1. RankEntered(c, n) \in Int
      BY RankRange DEF RankEntered
    <2>2. RankAt(e, m) \in Int
      BY <1>1, <1>2, <1>7
    <2> QED
      BY <1>3, <1>5, <1>6, <1>7, <2>1, <2>2
  <1>9. \A i, j \in 1 .. m + 1 : i < j => RankAt(f, i) < RankAt(f, j)
    <2> SUFFICES ASSUME NEW i \in 1 .. m + 1, NEW j \in 1 .. m + 1, i < j
                 PROVE  RankAt(f, i) < RankAt(f, j)
      OBVIOUS
    <2>1. CASE j = m + 1
      BY <1>1, <1>8, <2>1
    <2>2. CASE j # m + 1
      <3>1. i \in 1 .. m /\ j \in 1 .. m
        BY <1>1, <2>2
      <3> QED
        BY <1>3, <3>1 DEF Climbs
    <2> QED
      BY <2>1, <2>2
  <1>10. Climbs(n, f)
    BY <1>1, <1>9 DEF Climbs
  <1>11. \A k : Visited(k, f) <=> Visited(k, e) \/ k = n
    <2> TAKE k
    <2>1. ASSUME Visited(k, f) PROVE Visited(k, e) \/ k = n
      <3>1. PICK i \in 1 .. m + 1 : f[i] = k
        BY <1>1, <2>1 DEF Visited
      <3>2. i = m + 1 \/ i \in 1 .. m
        BY <1>1
      <3> QED
        BY <1>1, <3>1, <3>2 DEF Visited
    <2>2. ASSUME Visited(k, e) PROVE Visited(k, f)
      <3>1. PICK i \in 1 .. m : e[i] = k
        BY <2>2 DEF Visited
      <3>2. i \in 1 .. m + 1 /\ f[i] = k
        BY <1>1, <3>1
      <3> QED
        BY <1>1, <3>2 DEF Visited
    <2>3. ASSUME k = n PROVE Visited(k, f)
      <3>1. m + 1 \in 1 .. m + 1
        BY <1>1
      <3> QED
        BY <1>1, <2>3, <3>1 DEF Visited
    <2> QED
      BY <2>1, <2>2, <2>3
  <1> QED
    BY <1>1, <1>4, <1>6, <1>10, <1>11

\* The rank of an unfinished batch is that of its campaign, or of the final pass.
LEMMA RankIs ==
    ASSUME NEW c \in Campaigns, NEW e \in Seq(Campaigns), Climbs(c, e)
    PROVE  /\ RankNow(c, e) = IF FinalAt(e, Len(e)) THEN 6 ELSE Rank(c)
           /\ FinalAt(e, Len(e)) => c = "C2A"
           /\ RankNow(c, e) \in 0 .. 8
           /\ Visited(c, e)
  <1>1. /\ c # "COMPLETE" /\ e[Len(e)] = c
        /\ Len(e) \in 1 .. Len(e)
    BY DEF Climbs, Campaigns
  <1> QED
    BY <1>1, RankRange DEF RankNow, RankAt, FinalAt, Visited

---------------------------------------------------------------------------
\* A decision whose type is not noted yet can be noted.
LEMMA OnceMore ==
    ASSUME NEW s \in Seq(DecisionTypes \X Choices), OnceEach(s),
           NEW x \in DecisionTypes \X Choices,
           \A d \in Range(s) : d[1] # x[1]
    PROVE  OnceEach(Append(s, x))
  <1>1. /\ Len(Append(s, x)) = Len(s) + 1 /\ Len(s) \in Nat
        /\ \A i \in 1 .. Len(s) : Append(s, x)[i] = s[i]
        /\ Append(s, x)[Len(s) + 1] = x
    BY Grows
  <1>2. \A i \in 1 .. Len(s) : s[i] \in Range(s)
    BY DEF Range
  <1> SUFFICES ASSUME NEW i \in 1 .. Len(s) + 1, NEW j \in 1 .. Len(s) + 1,
                      Append(s, x)[i][1] = Append(s, x)[j][1]
               PROVE  i = j
    BY <1>1 DEF OnceEach
  <1>3. CASE i \in 1 .. Len(s) /\ j \in 1 .. Len(s)
    BY <1>1, <1>3 DEF OnceEach
  <1>4. CASE i = Len(s) + 1 /\ j \in 1 .. Len(s)
    BY <1>1, <1>2, <1>4
  <1>5. CASE i \in 1 .. Len(s) /\ j = Len(s) + 1
    BY <1>1, <1>2, <1>5
  <1> QED
    BY <1>1, <1>3, <1>4, <1>5

\* The notes of a record are pairs of a question and a choice.
LEMMA NotesArePairs ==
    ASSUME NEW r \in Records
    PROVE  /\ Notes(r) \subseteq DecisionTypes \X Choices
           /\ r.decisions \in Seq(DecisionTypes \X Choices)
  <1>1. r.decisions \in Seq(DecisionTypes \X Choices)
    BY DEF Records
  <1> QED
    BY <1>1 DEF Notes, Range

\* Notes stay in time while the batch climbs.
LEMMA NotedStill ==
    ASSUME NEW c, NEW r, NEW e, NEW d, NEW f, NotedInTime(plan, c, r, e),
           RankNow(c, e) \in Int, RankNow(d, f) \in Int, RankNow(c, e) <= RankNow(d, f)
    PROVE  NotedInTime(plan, d, r, f)
  <1>1. \A t : RankAsked(t) \in Int
    BY DEF RankAsked
  <1> QED
    BY <1>1 DEF NotedInTime

---------------------------------------------------------------------------
\* What routing may note on its own account.
AutoNote(type) == <<type, AutoAnswer(type)>>

\* An automatic note is in the record afterwards, once.
LEMMA NoteAutoNotes ==
    ASSUME NEW r \in Records, NEW type \in DecisionTypes, AutoAnswer(type) \in Choices
    PROVE  LET q == NoteAuto(r, AutoNote(type))
           IN  /\ q \in Records
               /\ q.track = r.track /\ q.path = r.path /\ q.branch = r.branch
               /\ Notes(q) = Notes(r) \cup {AutoNote(type)}
               /\ NoteAuto(q, AutoNote(type)) = q
               /\ q.decisions = IF AutoNote(type) \in Notes(r) THEN r.decisions
                                ELSE Append(r.decisions, AutoNote(type))
  <1> DEFINE x == AutoNote(type)
             q == NoteAuto(r, x)
  <1>1. r.decisions \in Seq(DecisionTypes \X Choices) /\ x \in DecisionTypes \X Choices
    BY NotesArePairs DEF AutoNote
  <1>2. Range(Append(r.decisions, x)) = Range(r.decisions) \cup {x}
    BY <1>1, Grows
  <1>3. CASE x \in Notes(r)
    <2>1. q = r
      BY <1>3 DEF NoteAuto, Notes
    <2> QED
      BY <1>3, <2>1
  <1>4. CASE x \notin Notes(r)
    <2>1. q = [r EXCEPT !.decisions = Append(r.decisions, x)]
      BY <1>4 DEF NoteAuto, Notes
    <2>2. q \in Records
      BY <1>1, <2>1, NotedRecord DEF AutoNote
    <2>3. /\ q.track = r.track /\ q.path = r.path /\ q.branch = r.branch
          /\ q.decisions = Append(r.decisions, x)
      BY <2>1 DEF Records
    <2>4. Notes(q) = Notes(r) \cup {x}
      BY <1>2, <2>3 DEF Notes
    <2>5. NoteAuto(q, x) = q
      BY <2>4 DEF NoteAuto, Notes
    <2> QED
      BY <1>4, <2>2, <2>3, <2>4, <2>5
  <1> QED
    BY <1>3, <1>4

\* The automatic answers are among the options, with the questions they answer.
LEMMA AutoAnswers ==
    /\ \A type \in DecisionTypes : AutoAnswer(type) \in Choices
    /\ AutoNote("PATH_AB") = <<"PATH_AB", "A_staged">>
    /\ AutoNote("BRANCH_ONE_TWO") = <<"BRANCH_ONE_TWO", "two">>
    /\ AutoNote("C6_PROCEED") = <<"C6_PROCEED", "yes">>
    /\ AutoNote("C7_PROCEED") = <<"C7_PROCEED", "yes">>
    /\ {"PATH_AB", "BRANCH_ONE_TWO", "C6_PROCEED", "C7_PROCEED"} \subseteq DecisionTypes
  <1>1. /\ "A_staged" \in Options["PATH_AB"] /\ "two" \in Options["BRANCH_ONE_TWO"]
        /\ "yes" \in Options["C6_PROCEED"]
        /\ {"PATH_AB", "BRANCH_ONE_TWO", "C6_PROCEED", "C7_PROCEED"}
             \subseteq DecisionTypes
    BY DEF Options, DecisionTypes
  <1>2. {"A_staged", "two", "yes"} \subseteq Choices
    BY <1>1, OptionIsChoice
  <1> QED
    BY <1>1, <1>2 DEF AutoAnswer, AutoNote

\* The fields routing sets.
Staged(r) == [r EXCEPT !.path = "A_staged"]
BranchTwo(r) == [r EXCEPT !.branch = "two"]

\* The branches of what routing writes, one by one.
LEMMA RoutedBy ==
    ASSUME NEW p \in Plans, NEW c, NEW r, r.track # "mre_baseline"
    PROVE  /\ c = "C0B" /\ p.auto => RoutedRecord(p, c, r) =
                  NoteAuto(Staged(r), AutoNote("PATH_AB"))
           /\ c = "C2A_STAGED" => RoutedRecord(p, c, r) = Staged(r)
           /\ c = "C3_NA" /\ p.auto => RoutedRecord(p, c, r) =
                  NoteAuto(BranchTwo(r), AutoNote("BRANCH_ONE_TWO"))
           /\ c = "C4" /\ ~p.c5 => RoutedRecord(p, c, r) = MarkFinalPass(r)
           /\ c # "C2A_STAGED" /\ (c \in {"C0B", "C3_NA"} => ~p.auto) /\ (c = "C4" => p.c5) =>
                 /\ NextCampaign(p, c, r) = "C6" =>
                       RoutedRecord(p, c, r) = NoteAuto(r, AutoNote("C6_PROCEED"))
                 /\ NextCampaign(p, c, r) = "C7" =>
                       RoutedRecord(p, c, r) = NoteAuto(r, AutoNote("C7_PROCEED"))
                 /\ NextCampaign(p, c, r) \notin {"C6", "C7"} => RoutedRecord(p, c, r) = r
  <1> DEFINE q == RoutedRecord(p, c, r)
             n == NextCampaign(p, c, r)
             mre == r.track = "mre_baseline"
             auto == p.auto
             c5 == p.c5
             staged == Staged(r)
             two == BranchTwo(r)
             stagedNote == NoteAuto(staged, AutoNote("PATH_AB"))
             twoNote == NoteAuto(two, AutoNote("BRANCH_ONE_TWO"))
             final == MarkFinalPass(r)
             c6Note == NoteAuto(r, AutoNote("C6_PROCEED"))
             c7Note == NoteAuto(r, AutoNote("C7_PROCEED"))
  <1>0. ~mre /\ auto \in BOOLEAN /\ c5 \in BOOLEAN
    BY DEF Plans
  <1>1. /\ stagedNote = NoteAuto(staged, <<"PATH_AB", "A_staged">>)
        /\ twoNote = NoteAuto(two, <<"BRANCH_ONE_TWO", "two">>)
        /\ c6Note = NoteAuto(r, <<"C6_PROCEED", "yes">>)
        /\ c7Note = NoteAuto(r, <<"C7_PROCEED", "yes">>)
    <2> HIDE DEF staged, two
    <2> QED
      BY AutoAnswers
  <1>2. q = CASE c = "C0B" /\ auto -> stagedNote
              [] c = "C2A_STAGED" -> staged
              [] c = "C3_NA" /\ auto -> twoNote
              [] c = "C4" /\ ~c5 -> final
              [] n = "C6" -> c6Note
              [] n = "C7" -> c7Note
              [] OTHER -> r
    <2> HIDE DEF stagedNote, twoNote, c6Note, c7Note
    <2> QED
      BY <1>0, <1>1, Zenon DEF RoutedRecord, Staged, BranchTwo
  <1>n. (n = "C6" => c \in {"C2A", "C5"}) /\ (n = "C7" => c = "C6")
    BY <1>0 DEF NextCampaign, AfterC5
  <1> HIDE DEF q, n, mre, auto, c5, staged, two, stagedNote, twoNote, final, c6Note, c7Note
  <1>3. /\ c = "C0B" /\ auto => q = stagedNote
        /\ c = "C2A_STAGED" => q = staged
        /\ c = "C3_NA" /\ auto => q = twoNote
        /\ c = "C4" /\ ~c5 => q = final
        /\ c # "C2A_STAGED" /\ (c \in {"C0B", "C3_NA"} => ~auto) /\ (c = "C4" => c5) =>
             /\ n = "C6" => q = c6Note
             /\ n = "C7" => q = c7Note
             /\ n \notin {"C6", "C7"} => q = r
    BY <1>0, <1>2, <1>n
  <1> QED
    BY <1>3, Zenon
    DEF q, n, auto, c5, staged, two, stagedNote, twoNote, final, c6Note, c7Note

\* What routing may write to a record: fields, and at most one note.
Writes(c, r, q) ==
    /\ q \in Records /\ q.track = r.track
    /\ q.path = IF /\ r.track # "mre_baseline"
                   /\ c = "C2A_STAGED" \/ (c = "C0B" /\ plan.auto)
                THEN "A_staged"
                ELSE IF r.track # "mre_baseline" /\ c = "C4" /\ ~plan.c5 /\ r.path # "B"
                THEN "A_post_mg_boiloff" ELSE r.path
    /\ q.branch = IF r.track # "mre_baseline" /\ c = "C3_NA" /\ plan.auto
                  THEN "two" ELSE r.branch
    /\ \/ q.decisions = r.decisions
       \/ \E type \in {"PATH_AB", "BRANCH_ONE_TWO", "C6_PROCEED", "C7_PROCEED"} :
             /\ plan.auto \/ type = "C7_PROCEED"
             /\ type = "PATH_AB" => c = "C0B" /\ r.track # "mre_baseline"
             /\ AutoNote(type) \notin Notes(r)
             /\ q.decisions = Append(r.decisions, AutoNote(type))

\* Routing asked again gives the same answer, and writes nothing more.
LEMMA RoutingWrites ==
    ASSUME NEW c \in Campaigns, NEW r \in Records, plan \in Plans
    PROVE  LET q == RoutedRecord(plan, c, r)
           IN  /\ Writes(c, r, q)
               /\ RoutedRecord(plan, c, q) = q
               /\ NextCampaign(plan, c, q) = NextCampaign(plan, c, r)
  <1> DEFINE q == RoutedRecord(plan, c, r)
  <1>p. plan.auto \in BOOLEAN /\ plan.c5 \in BOOLEAN /\ plan.c7 \in BOOLEAN
    BY DEF Plans
  <1>1. CASE r.track = "mre_baseline"
    <2>1. q = r
      BY <1>1 DEF RoutedRecord
    <2> QED
      BY <1>1, <2>1 DEF Writes
  <1>2. CASE r.track # "mre_baseline" /\ c = "C0B" /\ plan.auto
    <2> DEFINE s == Staged(r)
    <2>1. /\ s \in Records /\ s.track = r.track /\ s.path = "A_staged"
          /\ s.branch = r.branch /\ s.decisions = r.decisions /\ Notes(s) = Notes(r)
      BY DEF Records, Paths, Notes, Staged
    <2> HIDE DEF s
    <2>2. q = NoteAuto(s, AutoNote("PATH_AB"))
      BY <1>2, RoutedBy DEF s
    <2> HIDE DEF q
    <2>t. "PATH_AB" \in DecisionTypes /\ AutoAnswer("PATH_AB") \in Choices
      BY AutoAnswers
    <2>3. /\ q \in Records /\ q.track = r.track /\ q.path = "A_staged" /\ q.branch = r.branch
          /\ NoteAuto(q, AutoNote("PATH_AB")) = q
          /\ q.decisions = IF AutoNote("PATH_AB") \in Notes(r) THEN r.decisions
                           ELSE Append(r.decisions, AutoNote("PATH_AB"))
      BY <2>1, <2>2, <2>t, NoteAutoNotes
    <2> HIDE DEF q
    <2>4. Staged(q) = q
      BY <2>3 DEF Records, Staged, BranchTwo
    <2>5. RoutedRecord(plan, c, q) = NoteAuto(Staged(q), AutoNote("PATH_AB"))
      BY <1>2, <2>3, RoutedBy
    <2>6. NextCampaign(plan, c, q) = NextCampaign(plan, c, r)
      BY <1>2, <2>3 DEF NextCampaign
    <2>7. Writes(c, r, q)
      BY <1>2, <2>3 DEF Writes
    <2> QED
      BY <2>3, <2>4, <2>5, <2>6, <2>7 DEF q
  <1>3. CASE r.track # "mre_baseline" /\ c = "C2A_STAGED"
    <2>1. q = Staged(r)
      BY <1>3, RoutedBy
    <2>2. /\ q \in Records /\ q.track = r.track /\ q.path = "A_staged"
          /\ q.branch = r.branch /\ q.decisions = r.decisions
      BY <2>1 DEF Records, Paths, Staged
    <2> HIDE DEF q
    <2>3. Staged(q) = q
      BY <2>2 DEF Records, Staged
    <2>4. RoutedRecord(plan, c, q) = q
      BY <1>3, <2>2, <2>3, RoutedBy
    <2>5. NextCampaign(plan, c, q) = NextCampaign(plan, c, r)
      BY <1>3, <2>2 DEF NextCampaign
    <2>6. Writes(c, r, q)
      BY <1>3, <2>2 DEF Writes
    <2> QED
      BY <2>4, <2>5, <2>6 DEF q
  <1>4. CASE r.track # "mre_baseline" /\ c = "C3_NA" /\ plan.auto
    <2> DEFINE s == BranchTwo(r)
    <2>1. /\ s \in Records /\ s.track = r.track /\ s.path = r.path
          /\ s.branch = "two" /\ s.decisions = r.decisions /\ Notes(s) = Notes(r)
      BY DEF Records, Branches, Notes, BranchTwo
    <2> HIDE DEF s
    <2>2. q = NoteAuto(s, AutoNote("BRANCH_ONE_TWO"))
      BY <1>4, RoutedBy DEF s
    <2> HIDE DEF q
    <2>t. "BRANCH_ONE_TWO" \in DecisionTypes /\ AutoAnswer("BRANCH_ONE_TWO") \in Choices
      BY AutoAnswers
    <2>3. /\ q \in Records /\ q.track = r.track /\ q.path = r.path /\ q.branch = "two"
          /\ NoteAuto(q, AutoNote("BRANCH_ONE_TWO")) = q
          /\ q.decisions = IF AutoNote("BRANCH_ONE_TWO") \in Notes(r) THEN r.decisions
                           ELSE Append(r.decisions, AutoNote("BRANCH_ONE_TWO"))
      BY <2>1, <2>2, <2>t, NoteAutoNotes
    <2> HIDE DEF q
    <2>4. BranchTwo(q) = q
      BY <2>3 DEF Records, Staged, BranchTwo
    <2>5. RoutedRecord(plan, c, q) = NoteAuto(BranchTwo(q), AutoNote("BRANCH_ONE_TWO"))
      BY <1>4, <2>3, RoutedBy
    <2>6. NextCampaign(plan, c, q) = NextCampaign(plan, c, r)
      BY <1>4, <2>3 DEF NextCampaign
    <2>7. Writes(c, r, q)
      BY <1>4, <2>3 DEF Writes
    <2> QED
      BY <2>3, <2>4, <2>5, <2>6, <2>7 DEF q
  <1>5. CASE r.track # "mre_baseline" /\ c = "C4" /\ ~plan.c5
    <2>1. q = MarkFinalPass(r)
      BY <1>5, RoutedBy
    <2>2. /\ q \in Records /\ q.track = r.track
          /\ q.path = IF r.path = "B" THEN "B" ELSE "A_post_mg_boiloff"
          /\ q.branch = r.branch /\ q.decisions = r.decisions
      BY <2>1 DEF MarkFinalPass, Records, Paths
    <2> HIDE DEF q
    <2>3. MarkFinalPass(q) = q
      BY <2>2 DEF MarkFinalPass, Records
    <2>4. RoutedRecord(plan, c, q) = q
      BY <1>5, <2>2, <2>3, RoutedBy
    <2>5. NextCampaign(plan, c, q) = NextCampaign(plan, c, r)
      BY <1>5, <2>2 DEF NextCampaign
    <2>6. Writes(c, r, q)
      BY <1>5, <2>2 DEF Writes
    <2> QED
      BY <2>4, <2>5, <2>6 DEF q
  <1> DEFINE Ordinary == /\ r.track # "mre_baseline" /\ c # "C2A_STAGED"
                         /\ ~(c = "C0B" /\ plan.auto) /\ ~(c = "C3_NA" /\ plan.auto)
                         /\ ~(c = "C4" /\ ~plan.c5)
             n == NextCampaign(plan, c, r)
  <1>6. ASSUME Ordinary, NEW type \in {"C6_PROCEED", "C7_PROCEED"},
               n = IF type = "C6_PROCEED" THEN "C6" ELSE "C7"
        PROVE  /\ Writes(c, r, q)
               /\ RoutedRecord(plan, c, q) = q /\ NextCampaign(plan, c, q) = n
    <2>1. q = NoteAuto(r, AutoNote(type))
      BY <1>6, RoutedBy
    <2>2. /\ q \in Records /\ q.track = r.track /\ q.path = r.path /\ q.branch = r.branch
          /\ NoteAuto(q, AutoNote(type)) = q
          /\ q.decisions = IF AutoNote(type) \in Notes(r) THEN r.decisions
                           ELSE Append(r.decisions, AutoNote(type))
      BY <2>1, NoteAutoNotes, AutoAnswers
    <2> HIDE DEF q
    <2>3. NextCampaign(plan, c, q) = n
      BY <2>2 DEF NextCampaign, AfterC5, C7Enabled
    <2>4. RoutedRecord(plan, c, q) = NoteAuto(q, AutoNote(type))
      BY <1>6, <2>2, <2>3, RoutedBy
    <2>5. plan.auto \/ type = "C7_PROCEED"
      BY <1>6, <1>p DEF NextCampaign, AfterC5
    <2>6. Writes(c, r, q)
      BY <1>6, <2>2, <2>5 DEF Writes
    <2> QED
      BY <2>2, <2>3, <2>4, <2>6 DEF q
  <1>7. ASSUME Ordinary, n \notin {"C6", "C7"}
        PROVE  q = r
    BY <1>7, RoutedBy
  <1>8. CASE Ordinary
    <2>1. CASE n = "C6"
      BY <1>6, <1>8, <2>1
    <2>2. CASE n = "C7"
      BY <1>6, <1>8, <2>2
    <2>3. CASE n \notin {"C6", "C7"}
      <3>1. q = r
        BY <1>7, <1>8, <2>3
      <3> QED
        BY <1>8, <3>1 DEF Writes
    <2> QED
      BY <2>1, <2>2, <2>3
  <1> QED
    BY <1>1, <1>2, <1>3, <1>4, <1>5, <1>8
---------------------------------------------------------------------------
\* What routing writes leaves a batch on course where it is: an hour may be
\* given up before the campaign it was routed to has started.
LEMMA RoutingKeepsCourse ==
    ASSUME NEW c \in Campaigns, NEW r \in Records, NEW e \in Seq(Campaigns),
           NEW q, Writes(c, r, q), OnCourse(plan, c, r, e)
    PROVE  OnCourse(plan, c, q, e)
  <1>1. Climbs(c, e) /\ NotedInTime(plan, c, r, e) /\ OnPath(c, r, e) /\ OnBranch(c, r, e)
    BY DEF OnCourse
  <1>2. /\ RankNow(c, e) = IF FinalAt(e, Len(e)) THEN 6 ELSE Rank(c)
        /\ FinalAt(e, Len(e)) => c = "C2A"
        /\ RankNow(c, e) \in 0 .. 8 /\ Visited(c, e) /\ c # "COMPLETE"
    BY <1>1, RankIs DEF Campaigns
  <1>3. q \in Records /\ q.track = r.track
    BY DEF Writes
  <1>4. \/ q.decisions = r.decisions /\ Notes(q) = Notes(r)
        \/ \E type \in {"PATH_AB", "BRANCH_ONE_TWO", "C6_PROCEED", "C7_PROCEED"} :
             /\ plan.auto \/ type = "C7_PROCEED"
             /\ type = "PATH_AB" => c = "C0B" /\ r.track # "mre_baseline"
             /\ AutoNote(type) \notin Notes(r)
             /\ q.decisions = Append(r.decisions, AutoNote(type))
             /\ Notes(q) = Notes(r) \cup {AutoNote(type)}
    <2>1. CASE q.decisions = r.decisions
      BY <2>1 DEF Notes
    <2>2. ASSUME NEW type \in {"PATH_AB", "BRANCH_ONE_TWO", "C6_PROCEED", "C7_PROCEED"},
                 q.decisions = Append(r.decisions, AutoNote(type))
          PROVE  Notes(q) = Notes(r) \cup {AutoNote(type)}
      <3>1. AutoNote(type) \in DecisionTypes \X Choices
        BY AutoAnswers DEF AutoNote
      <3> QED
        BY <2>2, <3>1, NotesArePairs, Grows DEF Notes
    <2> QED
      BY <2>1, <2>2 DEF Writes
  <1>5. NotedInTime(plan, c, q, e)
    <2>1. CASE q.decisions = r.decisions
      BY <1>1, <2>1 DEF NotedInTime, Notes
    <2>2. ASSUME NEW type \in {"PATH_AB", "BRANCH_ONE_TWO", "C6_PROCEED", "C7_PROCEED"},
                 plan.auto \/ type = "C7_PROCEED",
                 AutoNote(type) \notin Notes(r),
                 q.decisions = Append(r.decisions, AutoNote(type)),
                 Notes(q) = Notes(r) \cup {AutoNote(type)}
          PROVE  NotedInTime(plan, c, q, e)
      <3>1. AutoNote(type) \in DecisionTypes \X Choices
        BY AutoAnswers DEF AutoNote
      <3>2. \A d \in Notes(r) : d = <<d[1], d[2]>>
        BY NotesArePairs
      <3>3. \A d \in Notes(r) : d[1] # type
        BY <1>1, <2>2, <3>2 DEF NotedInTime, AutoNote
      <3>4. OnceEach(q.decisions)
        <4>1. AutoNote(type)[1] = type
          BY DEF AutoNote
        <4> QED
          BY <1>1, <2>2, <3>1, <3>3, <4>1, NotesArePairs, OnceMore DEF NotedInTime, Notes
      <3>5. /\ AutoNote(type)[1] = type /\ AutoNote(type)[2] = AutoAnswer(type)
            /\ type # "ROOT_BRANCH"
        BY DEF AutoNote
      <3> QED
        BY <1>1, <2>2, <3>4, <3>5 DEF NotedInTime
    <2> QED
      BY <1>4, <2>1, <2>2
  <1>6. OnPath(c, q, e)
    <2>1. ASSUME FinalAt(e, Len(e)) PROVE q.path \in FinalPass
      BY <1>1, <1>2, <2>1 DEF OnPath, Writes
    <2>2. ASSUME NEW choice \in Options["PATH_AB"], <<"PATH_AB", choice>> \in Notes(q)
          PROVE  /\ c = "C2A_STAGED" => choice = "A_staged"
                 /\ \/ q.path = choice
                    \/ choice # "B" /\ q.path = "A_post_mg_boiloff" /\ Visited("C4", e)
      <3>1. CASE <<"PATH_AB", choice>> \in Notes(r)
        <4>1. /\ c = "C2A_STAGED" => choice = "A_staged"
              /\ \/ r.path = choice
                 \/ choice # "B" /\ r.path = "A_post_mg_boiloff" /\ Visited("C4", e)
          BY <1>1, <3>1 DEF OnPath
        <4>2. c = "C0B" /\ plan.auto => choice = "A_staged"
          <5>1. plan.auto => choice = AutoAnswer("PATH_AB")
            BY <1>1, <3>1 DEF NotedInTime
          <5> QED
            BY <5>1 DEF AutoAnswer
        <4>3. r.path = "B" => choice = "B"
          BY <4>1
        <4> QED
          BY <1>2, <4>1, <4>2, <4>3 DEF Writes
      <3>2. CASE <<"PATH_AB", choice>> \notin Notes(r)
        <4>1. c = "C0B" /\ r.track # "mre_baseline" /\ choice = "A_staged" /\ plan.auto
          BY <1>4, <2>2, <3>2 DEF AutoNote, AutoAnswer
        <4> QED
          BY <4>1 DEF Writes
      <3> QED
        BY <3>1, <3>2
    <2> QED
      BY <2>1, <2>2 DEF OnPath
  <1>7. OnBranch(c, q, e)
    <2> SUFFICES ASSUME q.branch = "two"
                 PROVE  /\ q.track # "mre_baseline"
                        /\ RankNow(c, e) >= 4
                        /\ c \in {"C7", "COMPLETE"} =>
                              Visited("C6", e) \/ <<"C6_PROCEED", "no">> \in Notes(q)
      BY DEF OnBranch
    <2>1. CASE r.branch = "two"
      <3>1. Notes(r) \subseteq Notes(q)
        BY <1>4
      <3> QED
        BY <1>1, <1>3, <2>1, <3>1 DEF OnBranch
    <2>2. CASE r.branch # "two"
      <3>1. c = "C3_NA" /\ r.track # "mre_baseline"
        BY <2>2 DEF Writes
      <3>2. RankNow(c, e) = 4
        BY <1>2, <3>1 DEF Rank
      <3> QED
        BY <1>3, <3>1, <3>2
    <2> QED
      BY <2>1, <2>2
  <1> QED
    BY <1>1, <1>5, <1>6, <1>7 DEF OnCourse

\* Routing leads to a campaign of higher rank, or to the end.
LEMMA RoutingClimbs ==
    ASSUME NEW c \in Campaigns, NEW r \in Records, NEW e \in Seq(Campaigns),
           OnCourse(plan, c, r, e), NEW n, n = NextCampaign(plan, c, r), n \in Campaigns
    PROVE  RankNow(c, e) < RankEntered(c, n)
  <1>1. /\ RankNow(c, e) = IF FinalAt(e, Len(e)) THEN 6 ELSE Rank(c)
        /\ FinalAt(e, Len(e)) => c = "C2A"
    BY RankIs DEF OnCourse
  <1>2. FinalAt(e, Len(e)) => r.path \in FinalPass
    BY DEF OnCourse, OnPath, Campaigns
  <1>3. CASE r.track = "mre_baseline"
    <2>1. c \in {"C0", "C0B"} /\ n = "MRE_BASELINE"
      BY <1>3 DEF NextCampaign, Campaigns
    <2> QED
      BY <1>1, <2>1 DEF Rank, RankEntered
  <1>4. CASE r.track # "mre_baseline"
    <2>1. /\ c = "C0" => n = "C0B"
          /\ c = "C0B" => n = "C2A_STAGED"
          /\ c = "C2A" => n = "C6" \/ (n = "C3_K" /\ r.path \notin FinalPass)
          /\ c = "C2A_STAGED" => n = "C3_NA"
          /\ c = "C2B" => n = "C3_K"
          /\ c = "C3_K" => n = "C3_NA"
          /\ c = "C3_NA" => n = "C4"
          /\ c = "C4" => n \in {"C5", "C2A"}
          /\ c = "C5" => n = "C6"
          /\ c = "C6" => n = "C7"
          /\ c \notin {"C7", "MRE_BASELINE"}
      BY <1>4 DEF NextCampaign, AfterC5, Campaigns
    <2> QED
      BY <1>1, <1>2, <2>1 DEF Rank, RankEntered, Campaigns
  <1> QED
    BY <1>3, <1>4

\* A batch that starts the campaign it was routed to stays on course.
LEMMA StartKeepsCourse ==
    ASSUME NEW c \in Campaigns, NEW r \in Records, NEW e \in Seq(Campaigns),
           plan \in Plans, OnCourse(plan, c, r, e), IsRouted(plan, c, r),
           NEW n, n = NextCampaign(plan, c, r), n \in Campaigns
    PROVE  OnCourse(plan, n, r, Append(e, n))
  <1> DEFINE f == Append(e, n)
  <1>1. Climbs(c, e) /\ NotedInTime(plan, c, r, e) /\ OnPath(c, r, e) /\ OnBranch(c, r, e)
    BY DEF OnCourse
  <1>2. RankNow(c, e) < RankEntered(c, n)
    BY RoutingClimbs
  <1>3. /\ Climbs(n, f)
        /\ RankNow(n, f) = RankEntered(c, n)
        /\ FinalAt(f, Len(f)) <=> n = "C2A" /\ c = "C4"
        /\ \A k : Visited(k, f) <=> Visited(k, e) \/ k = n
    BY <1>1, <1>2, ClimbsOn
  <1>4. RankNow(c, e) \in Int /\ RankNow(n, f) \in Int /\ Visited(c, e)
    <2>1. RankNow(c, e) \in 0 .. 8 /\ Visited(c, e)
      BY <1>1, RankIs
    <2>2. RankEntered(c, n) \in Int
      BY RankRange DEF RankEntered
    <2> QED
      BY <1>3, <2>1, <2>2
  <1>t. r.track = "mre_baseline" => n = "MRE_BASELINE"
    BY DEF NextCampaign, Campaigns
  <1> HIDE DEF f
  <1>5. NotedInTime(plan, n, r, f)
    <2>1. RankNow(c, e) <= RankNow(n, f)
      BY <1>2, <1>3, <1>4
    <2> QED
      BY <1>1, <1>4, <2>1, NotedStill
  <1>6. OnPath(n, r, f)
    <2>1. ASSUME FinalAt(f, Len(f)) PROVE r.path \in FinalPass
      <3>1. c = "C4" /\ n = "C2A" /\ r.track # "mre_baseline"
        BY <1>3, <1>t, <2>1
      <3>2. ~plan.c5
        BY <3>1 DEF NextCampaign
      <3>3. RoutedRecord(plan, c, r) = MarkFinalPass(r)
        BY <3>1, <3>2, RoutedBy
      <3> QED
        BY <3>3 DEF IsRouted, MarkFinalPass, FinalPass, Records
    <2>2. ASSUME NEW choice \in Options["PATH_AB"], <<"PATH_AB", choice>> \in Notes(r)
          PROVE  /\ n = "C2A_STAGED" => choice = "A_staged"
                 /\ \/ r.path = choice
                    \/ choice # "B" /\ r.path = "A_post_mg_boiloff" /\ Visited("C4", f)
      <3>1. n = "C2A_STAGED" => c = "C0B" /\ plan.auto
        BY <1>t DEF NextCampaign, AfterC5, Campaigns, Plans
      <3>2. plan.auto => choice = AutoAnswer("PATH_AB")
        BY <1>1, <2>2 DEF NotedInTime
      <3>3. AutoAnswer("PATH_AB") = "A_staged"
        BY DEF AutoAnswer
      <3> QED
        BY <1>1, <1>3, <2>2, <3>1, <3>2, <3>3 DEF OnPath
    <2> QED
      BY <2>1, <2>2 DEF OnPath
  <1>7. OnBranch(n, r, f)
    <2>1. n = "C7" => c = "C6"
      BY <1>t DEF NextCampaign, AfterC5, Campaigns
    <2>2. n # "COMPLETE"
      BY DEF Campaigns
    <2> QED
      BY <1>1, <1>2, <1>3, <1>4, <2>1, <2>2 DEF OnBranch
  <1> QED
    BY <1>3, <1>5, <1>6, <1>7 DEF OnCourse, f

\* A batch that is routed to its end has not skipped C6.
LEMMA EndKeepsCourse ==
    ASSUME NEW c \in Campaigns, NEW r \in Records, NEW e \in Seq(Campaigns),
           plan \in Plans, OnCourse(plan, c, r, e), NextCampaign(plan, c, r) = "COMPLETE"
    PROVE  OnCourse(plan, "COMPLETE", r, e)
  <1>1. Climbs(c, e) /\ NotedInTime(plan, c, r, e) /\ OnPath(c, r, e) /\ OnBranch(c, r, e)
    BY DEF OnCourse
  <1>2. /\ RankNow(c, e) = IF FinalAt(e, Len(e)) THEN 6 ELSE Rank(c)
        /\ FinalAt(e, Len(e)) => c = "C2A"
        /\ RankNow(c, e) \in 0 .. 8 /\ Visited(c, e)
    BY <1>1, RankIs
  <1>3. RankNow("COMPLETE", e) = 9
    BY DEF RankNow
  <1>4. Climbs("COMPLETE", e)
    BY <1>1 DEF Climbs
  <1>5. NotedInTime(plan, "COMPLETE", r, e)
    <2>1. RankNow("COMPLETE", e) \in Int /\ RankNow(c, e) <= RankNow("COMPLETE", e)
      BY <1>2, <1>3
    <2> QED
      BY <1>1, <1>2, <2>1, NotedStill
  <1>6. OnPath("COMPLETE", r, e)
    BY <1>1 DEF OnPath
  <1>7. OnBranch("COMPLETE", r, e)
    <2> SUFFICES ASSUME r.branch = "two"
                 PROVE  Visited("C6", e) \/ <<"C6_PROCEED", "no">> \in Notes(r)
      BY <1>1, <1>3 DEF OnBranch
    <2>1. r.track # "mre_baseline" /\ RankNow(c, e) >= 4
      BY <1>1 DEF OnBranch
    <2>2. c \in {"C3_K", "C6", "C7", "MRE_BASELINE"}
      BY <2>1 DEF NextCampaign, AfterC5, Campaigns, Plans
    <2>3. c \in {"C6", "C7"}
      BY <1>2, <2>1, <2>2 DEF Rank
    <2> QED
      BY <1>1, <1>2, <2>3 DEF OnBranch
  <1> QED
    BY <1>4, <1>5, <1>6, <1>7 DEF OnCourse
---------------------------------------------------------------------------
\* The question a campaign ends in is that campaign's own.
LEMMA AsksItsOwn ==
    ASSUME NEW c \in Campaigns, NEW r \in Records, plan \in Plans,
           NextCampaign(plan, c, r) = "decide"
    PROVE  Asks(plan, c, r, DecisionFor(plan, c, r))
  <1>1. /\ r.track # "mre_baseline" /\ ~plan.auto
        /\ \/ c \in {"C0B", "C3_NA", "C5"}
           \/ c = "C2A" /\ r.path \in FinalPass /\ r.branch = "two"
    BY DEF NextCampaign, AfterC5, Campaigns, Plans
  <1>2. /\ c = "C0B" => DecisionFor(plan, c, r) = "PATH_AB"
        /\ c = "C3_NA" => DecisionFor(plan, c, r) = "BRANCH_ONE_TWO"
        /\ c \in {"C2A", "C5"} => DecisionFor(plan, c, r) = "C6_PROCEED"
    BY <1>1 DEF DecisionFor
  <1> QED
    BY <1>1, <1>2 DEF Asks

\* What a choice writes to the record.
LEMMA ChosenFields ==
    ASSUME NEW r \in Records, NEW type \in {"PATH_AB", "BRANCH_ONE_TWO", "C6_PROCEED"},
           NEW choice \in Options[type]
    PROVE  LET q == ChosenRecord(r, type, choice)
           IN  /\ q \in Records /\ q.track = r.track
               /\ q.decisions = Append(r.decisions, <<type, choice>>)
               /\ <<type, choice>> \in DecisionTypes \X Choices
               /\ q.path = IF type = "PATH_AB" THEN choice ELSE r.path
               /\ q.branch = IF type = "BRANCH_ONE_TWO" THEN choice ELSE r.branch
  <1> DEFINE q == ChosenRecord(r, type, choice)
             noted == [r EXCEPT !.decisions = Append(@, <<type, choice>>)]
  <1>1. type \in DecisionTypes /\ choice \in Choices
    BY OptionIsChoice DEF DecisionTypes
  <1>2. q \in Records
    BY <1>1, ChosenIsRecord
  <1>3. /\ noted.track = r.track /\ noted.path = r.path /\ noted.branch = r.branch
        /\ noted.decisions = Append(r.decisions, <<type, choice>>)
        /\ noted \in Records
    <2>1. noted \in Records
      BY <1>1, NotedRecord
    <2> QED
      BY <2>1 DEF Records
  <1> HIDE DEF noted
  <1>4. /\ [noted EXCEPT !.path = choice].track = r.track
        /\ [noted EXCEPT !.path = choice].path = choice
        /\ [noted EXCEPT !.path = choice].branch = r.branch
        /\ [noted EXCEPT !.path = choice].decisions = noted.decisions
        /\ [noted EXCEPT !.branch = choice].track = r.track
        /\ [noted EXCEPT !.branch = choice].path = r.path
        /\ [noted EXCEPT !.branch = choice].branch = choice
        /\ [noted EXCEPT !.branch = choice].decisions = noted.decisions
    BY <1>3 DEF Records
  <1> DEFINE onPath == [noted EXCEPT !.path = choice]
             onBranch == [noted EXCEPT !.branch = choice]
             onTrack == [noted EXCEPT !.track = choice]
  <1>5. q = CASE type = "ROOT_BRANCH"    -> onTrack
              [] type = "PATH_AB"        -> onPath
              [] type = "BRANCH_ONE_TWO" -> onBranch
              [] OTHER                   -> noted
    BY Zenon DEF ChosenRecord, noted
  <1> HIDE DEF q, onPath, onBranch, onTrack
  <1>6. /\ type = "PATH_AB" => q = onPath
        /\ type = "BRANCH_ONE_TWO" => q = onBranch
        /\ type = "C6_PROCEED" => q = noted
    BY <1>5
  <1>7. /\ onPath.track = r.track /\ onPath.path = choice /\ onPath.branch = r.branch
        /\ onPath.decisions = noted.decisions
        /\ onBranch.track = r.track /\ onBranch.path = r.path /\ onBranch.branch = choice
        /\ onBranch.decisions = noted.decisions
    BY <1>4 DEF onPath, onBranch
  <1>8. q.decisions = noted.decisions /\ q.track = r.track
    BY <1>3, <1>6, <1>7
  <1>9. /\ q.path = IF type = "PATH_AB" THEN choice ELSE r.path
        /\ q.branch = IF type = "BRANCH_ONE_TWO" THEN choice ELSE r.branch
    BY <1>3, <1>6, <1>7
  <1> QED
    BY <1>1, <1>2, <1>3, <1>8, <1>9 DEF q

\* The campaigns a batch has entered after a choice led to n.
EnteredBy(n, e) == IF n = "COMPLETE" THEN e ELSE Append(e, n)

\* A choice leads on: no question with the rank reached was answered before,
\* and whatever the choice starts ranks higher. The same holds when the start
\* raised half way and the choice is not in the record.
LEMMA ChoiceKeepsCourse ==
    ASSUME NEW c \in Campaigns, NEW r \in Records, NEW e \in Seq(Campaigns),
           plan \in Plans, OnCourse(plan, c, r, e), NEW type, Asks(plan, c, r, type),
           NEW choice \in Options[type], NEW n, n = Chosen(plan, type, choice),
           NEW q, q = ChosenRecord(r, type, choice) \/ (q = r /\ n # "COMPLETE")
    PROVE  OnCourse(plan, n, q, EnteredBy(n, e))
  <1> DEFINE f == EnteredBy(n, e)
  <1>1. Climbs(c, e) /\ NotedInTime(plan, c, r, e) /\ OnPath(c, r, e) /\ OnBranch(c, r, e)
    BY DEF OnCourse
  <1>2. /\ ~plan.auto /\ r.track # "mre_baseline"
        /\ type \in {"PATH_AB", "BRANCH_ONE_TWO", "C6_PROCEED"}
        /\ type = "PATH_AB" => c = "C0B"
        /\ type = "BRANCH_ONE_TWO" => c = "C3_NA"
        /\ type = "C6_PROCEED" => c \in {"C2A", "C5"}
    BY DEF Asks
  <1>3. /\ RankNow(c, e) = IF FinalAt(e, Len(e)) THEN 6 ELSE Rank(c)
        /\ FinalAt(e, Len(e)) => c = "C2A"
        /\ RankNow(c, e) \in 0 .. 8
    BY <1>1, RankIs
  <1>4. /\ type = "PATH_AB" => RankNow(c, e) = 1
        /\ type = "BRANCH_ONE_TWO" => RankNow(c, e) = 4
        /\ type = "C6_PROCEED" => RankNow(c, e) \in {2, 6}
    BY <1>2, <1>3 DEF Rank
  <1>5. /\ type = "PATH_AB" =>
             /\ choice \in {"A", "A_staged", "B"}
             /\ n = IF choice = "A" THEN "C2A" ELSE IF choice = "B" THEN "C2B" ELSE "C2A_STAGED"
        /\ type = "BRANCH_ONE_TWO" =>
             /\ choice \in {"two", "one"}
             /\ n = IF choice = "two" THEN "C4" ELSE IF plan.c5 THEN "C5" ELSE "COMPLETE"
        /\ type = "C6_PROCEED" =>
             /\ choice \in {"yes", "no"}
             /\ n = IF choice = "yes" THEN "C6" ELSE "COMPLETE"
    <2>1. /\ Options["PATH_AB"] = {"A", "A_staged", "B"}
          /\ Options["BRANCH_ONE_TWO"] = {"two", "one"}
          /\ Options["C6_PROCEED"] = {"yes", "no"}
      BY DEF Options
    <2> QED
      BY <1>2, <2>1 DEF Chosen
  <1>6. n \in Campaigns => RankNow(c, e) < RankEntered(c, n)
    BY <1>2, <1>4, <1>5 DEF RankEntered, Rank, Campaigns
  <1>7. n \in Campaigns \/ n = "COMPLETE"
    BY <1>2, <1>5 DEF Campaigns
  <1>8. /\ Climbs(n, f)
        /\ RankNow(n, f) = IF n = "COMPLETE" THEN 9 ELSE RankEntered(c, n)
        /\ n # "COMPLETE" => ~FinalAt(f, Len(f))
        /\ \A k : Visited(k, f) <=> Visited(k, e) \/ (k = n /\ n # "COMPLETE")
    <2>1. CASE n = "COMPLETE"
      BY <1>1, <2>1 DEF EnteredBy, Climbs, RankNow
    <2>2. CASE n \in Campaigns
      <3>1. n # "COMPLETE" /\ c # "C4"
        BY <1>2, <2>2 DEF Campaigns
      <3> QED
        BY <1>1, <1>6, <2>2, <3>1, ClimbsOn DEF EnteredBy
    <2> QED
      BY <1>7, <2>1, <2>2
  <1> HIDE DEF f
  <1>9. /\ RankNow(n, f) \in Int /\ RankNow(c, e) \in Int /\ RankNow(n, f) > RankNow(c, e)
        /\ RankNow(n, f) > RankAsked(type)
    BY <1>2, <1>4, <1>5, <1>8 DEF RankEntered, Rank, RankAsked
  <1>10. \A d \in Notes(r) : d[1] # type
    BY <1>1, <1>2, <1>4 DEF NotedInTime, RankAsked
  <1>11. \/ q = r /\ n # "COMPLETE"
         \/ /\ q = ChosenRecord(r, type, choice) /\ q \in Records
            /\ q.track = r.track
            /\ q.decisions = Append(r.decisions, <<type, choice>>)
            /\ q.path = IF type = "PATH_AB" THEN choice ELSE r.path
            /\ q.branch = IF type = "BRANCH_ONE_TWO" THEN choice ELSE r.branch
            /\ <<type, choice>> \in DecisionTypes \X Choices
            /\ Notes(q) = Notes(r) \cup {<<type, choice>>}
    <2>1. CASE q = ChosenRecord(r, type, choice)
      <3>1. /\ q \in Records /\ q.track = r.track
            /\ q.decisions = Append(r.decisions, <<type, choice>>)
            /\ <<type, choice>> \in DecisionTypes \X Choices
            /\ q.path = IF type = "PATH_AB" THEN choice ELSE r.path
            /\ q.branch = IF type = "BRANCH_ONE_TWO" THEN choice ELSE r.branch
        BY <1>2, <2>1, ChosenFields
      <3>2. Notes(q) = Notes(r) \cup {<<type, choice>>}
        <4>1. r.decisions \in Seq(DecisionTypes \X Choices)
          BY NotesArePairs
        <4>2. \A x \in DecisionTypes \X Choices :
                 Range(Append(r.decisions, x)) = Range(r.decisions) \cup {x}
          BY <4>1, Grows
        <4>3. Range(Append(r.decisions, <<type, choice>>)) = Range(r.decisions) \cup {<<type, choice>>}
          BY <3>1, <4>2
        <4> QED
          BY <3>1, <4>3 DEF Notes
      <3> QED
        BY <2>1, <3>1, <3>2
    <2> QED
      BY <2>1
  <1>12. NotedInTime(plan, n, r, f)
    <2>1. RankNow(c, e) <= RankNow(n, f)
      BY <1>9
    <2> QED
      BY <1>1, <1>9, <2>1, NotedStill
  <1>13. NotedInTime(plan, n, q, f)
    <2>1. CASE q = r
      BY <1>12, <2>1
    <2>2. CASE q # r
      <3>1. OnceEach(q.decisions)
        <4>1. <<type, choice>>[1] = type
          OBVIOUS
        <4>2. r.decisions \in Seq(DecisionTypes \X Choices)
          BY NotesArePairs
        <4>3. OnceEach(r.decisions)
          BY <1>1 DEF NotedInTime
        <4>4. \A d \in Range(r.decisions) : d[1] # <<type, choice>>[1]
          BY <1>10, <4>1 DEF Notes
        <4>5. OnceEach(Append(r.decisions, <<type, choice>>))
          BY <1>11, <2>2, <4>2, <4>3, <4>4, OnceMore
        <4> QED
          BY <1>11, <2>2, <4>5
      <3>2. \A d \in Notes(q) :
               /\ d[1] # "ROOT_BRANCH"
               /\ d[1] = "C7_PROCEED" \/ plan.auto => d[2] = AutoAnswer(d[1])
               /\ d[1] = "C7_PROCEED" \/ plan.auto \/ RankNow(n, f) > RankAsked(d[1])
        <4> SUFFICES ASSUME NEW d \in Notes(q)
                     PROVE  /\ d[1] # "ROOT_BRANCH"
                            /\ d[1] = "C7_PROCEED" \/ plan.auto => d[2] = AutoAnswer(d[1])
                            /\ d[1] = "C7_PROCEED" \/ plan.auto \/ RankNow(n, f) > RankAsked(d[1])
          OBVIOUS
        <4>1. CASE d \in Notes(r)
          BY <1>12, <4>1 DEF NotedInTime
        <4>2. CASE d = <<type, choice>>
          <5>1. d[1] = type
            BY <4>2
          <5> QED
            BY <1>2, <1>9, <5>1
        <4> QED
          BY <1>11, <2>2, <4>1, <4>2
      <3> QED
        BY <3>1, <3>2 DEF NotedInTime
    <2> QED
      BY <2>1, <2>2
  <1>14. OnPath(n, q, f)
    <2>1. ASSUME NEW k \in Options["PATH_AB"], <<"PATH_AB", k>> \in Notes(q)
          PROVE  /\ n = "C2A_STAGED" => k = "A_staged"
                 /\ \/ q.path = k
                    \/ k # "B" /\ q.path = "A_post_mg_boiloff" /\ Visited("C4", f)
      <3>1. CASE type = "PATH_AB"
        <4>1. <<"PATH_AB", k>> \notin Notes(r)
          <5>1. <<"PATH_AB", k>>[1] = "PATH_AB"
            OBVIOUS
          <5> QED
            BY <1>10, <3>1, <5>1
        <4>2. k = choice /\ q.path = choice
          BY <1>11, <2>1, <3>1, <4>1
        <4> QED
          BY <1>5, <3>1, <4>2
      <3>2. CASE type # "PATH_AB"
        <4>1. <<"PATH_AB", k>> \in Notes(r) /\ q.path = r.path /\ n # "C2A_STAGED"
          BY <1>2, <1>5, <1>11, <2>1, <3>2
        <4> QED
          BY <1>1, <1>8, <4>1 DEF OnPath
      <3> QED
        BY <3>1, <3>2
    <2> QED
      BY <1>8, <2>1 DEF OnPath
  <1>15. OnBranch(n, q, f)
    <2> SUFFICES ASSUME q.branch = "two"
                 PROVE  /\ q.track # "mre_baseline"
                        /\ RankNow(n, f) >= 4
                        /\ n \in {"C7", "COMPLETE"} =>
                              Visited("C6", f) \/ <<"C6_PROCEED", "no">> \in Notes(q)
      BY DEF OnBranch
    <2>1. q.track # "mre_baseline"
      BY <1>2, <1>11
    <2>2. r.branch = "two" \/ type = "BRANCH_ONE_TWO"
      BY <1>11
    <2>3. RankNow(c, e) >= 4
      BY <1>1, <1>4, <2>2 DEF OnBranch
    <2>4. n # "C7"
      BY <1>2, <1>5
    <2>5. n = "COMPLETE" => <<"C6_PROCEED", "no">> \in Notes(q)
      <3>1. CASE type = "BRANCH_ONE_TWO"
        BY <1>5, <1>11, <3>1
      <3>2. CASE type = "C6_PROCEED"
        BY <1>5, <1>11, <3>2
      <3>3. CASE type = "PATH_AB"
        BY <1>5, <3>3
      <3> QED
        BY <1>2, <3>1, <3>2, <3>3
    <2> QED
      BY <1>9, <1>11, <2>1, <2>3, <2>4, <2>5
  <1> QED
    BY <1>8, <1>13, <1>14, <1>15 DEF OnCourse, f
---------------------------------------------------------------------------
\* A batch starts on course.
LEMMA InitCourses == Init => Courses
  <1> SUFFICES ASSUME Init
               PROVE  Courses
    OBVIOUS
  <1>1. PICK start \in Starts, track \in Tracks :
           /\ melt = [campaign |-> start, campaignHour |-> 0, hour |-> 0]
           /\ record = EmptyRecord(track)
           /\ entered = <<start>>
    BY DEF Init
  <1>2. /\ start \in Campaigns /\ melt.campaign = start
        /\ record.decisions = << >> /\ record.branch = ""
        /\ Len(entered) = 1 /\ entered[1] = start /\ entered # << >>
    BY <1>1, BatchAssumption DEF EmptyRecord
  <1>3. Notes(record) = {}
    <2>1. DOMAIN << >> = {}
      OBVIOUS
    <2> QED
      BY <1>2, <2>1 DEF Notes, Range
  <1>4. OnCourse(plan, start, record, entered)
    <2>1. Climbs(start, entered)
      <3>1. \A i, j \in 1 .. 1 : ~(i < j)
        OBVIOUS
      <3> QED
        BY <1>2, <3>1, Zenon DEF Climbs
    <2>2. NotedInTime(plan, start, record, entered)
      <3>1. 1 .. Len(<< >>) = {}
        OBVIOUS
      <3> QED
        BY <1>2, <1>3, <3>1, Zenon DEF NotedInTime, OnceEach
    <2>3. OnPath(start, record, entered)
      <3>1. ~(1 > 1)
        OBVIOUS
      <3> QED
        BY <1>2, <1>3, <3>1, Zenon DEF OnPath, FinalAt
    <2>4. OnBranch(start, record, entered)
      BY <1>2 DEF OnBranch
    <2> QED
      BY <2>1, <2>2, <2>3, <2>4 DEF OnCourse
  <1>5. phase = "idle" /\ pending = "none"
    BY DEF Init
  <1> QED
    BY <1>2, <1>4, <1>5 DEF Courses

\* Before an hour is booked its batch is in a campaign, and nothing is pending.
LEMMA HourInCampaign ==
    ASSUME IndInv, phase \in {"physics", "endpoint", "boundary", "advanced", "starting"}
    PROVE  melt.campaign \in Campaigns /\ pending = "none"
  BY DEF IndInv, Types, Melts, Phases, Completing, Pausing

\* The endpoint is met: what follows is routed once, and for good.
LEMMA EndpointMetCourses == IndInv /\ Courses /\ EndpointMet => Courses'
  <1> SUFFICES ASSUME IndInv, Courses, EndpointMet
               PROVE  Courses'
    OBVIOUS
  <1>1. /\ phase = "endpoint" /\ phase' = "boundary"
        /\ next' = NextCampaign(plan, melt.campaign, record)
        /\ record' = RoutedRecord(plan, melt.campaign, record)
        /\ UNCHANGED <<plan, melt, pending, entered, saved>>
    BY DEF EndpointMet
  <1>2. /\ melt.campaign \in Campaigns /\ pending = "none"
        /\ record \in Records /\ entered \in Seq(Campaigns) /\ plan \in Plans
    BY <1>1, HourInCampaign DEF IndInv, Types
  <1>3. /\ Writes(melt.campaign, record, record')
        /\ RoutedRecord(plan, melt.campaign, record') = record'
        /\ NextCampaign(plan, melt.campaign, record') = next'
    BY <1>1, <1>2, RoutingWrites
  <1>4. OnCourse(plan, melt.campaign, record, entered)
    BY DEF Courses
  <1>5. OnCourse(plan, melt.campaign, record', entered)
    BY <1>2, <1>3, <1>4, RoutingKeepsCourse
  <1>6. OnCourse(plan, melt.campaign, record, entered)'
    BY <1>1, <1>5
  <1>7. OnCourse(plan, saved.melt.campaign, saved.record, saved.entered)'
    BY <1>1 DEF Courses
  <1> QED
    BY <1>1, <1>2, <1>3, <1>6, <1>7 DEF Courses, IsRouted
\* The hour is booked: the batch ends, pauses in its own question, or goes on.
LEMMA BookCourses == IndInv /\ Courses /\ Book => Courses'
  <1> SUFFICES ASSUME IndInv, Courses, Book
               PROVE  Courses'
    OBVIOUS
  <1>1. /\ phase = "advanced" /\ phase' = IF next \in Campaigns THEN "starting" ELSE "booked"
        /\ UNCHANGED <<plan, record, entered, next, saved>>
    BY DEF Book
  <1>2. /\ melt.campaign \in Campaigns /\ pending = "none" /\ plan \in Plans
        /\ record \in Records /\ entered \in Seq(Campaigns) /\ melt \in Melts
    BY <1>1, HourInCampaign DEF IndInv, Types
  <1>3. /\ OnCourse(plan, melt.campaign, record, entered)
        /\ OnCourse(plan, saved.melt.campaign, saved.record, saved.entered)
        /\ next \notin {"stay", "stop"} =>
              /\ next = NextCampaign(plan, melt.campaign, record)
              /\ IsRouted(plan, melt.campaign, record)
    BY <1>1 DEF Courses
  <1>4. CASE next = "COMPLETE"
    <2>1. melt'.campaign = "COMPLETE" /\ pending' = "none" /\ phase' = "booked"
      BY <1>1, <1>2, <1>4 DEF Book, Melts, Campaigns
    <2>2. OnCourse(plan, "COMPLETE", record, entered)
      BY <1>2, <1>3, <1>4, EndKeepsCourse
    <2> QED
      BY <1>1, <1>3, <2>1, <2>2 DEF Courses
  <1>5. CASE next = "decide"
    <2>1. /\ melt' = melt /\ phase' = "booked"
          /\ pending' = DecisionFor(plan, melt.campaign, record)
      BY <1>1, <1>5 DEF Book, Campaigns
    <2>2. Asks(plan, melt.campaign, record, pending')
      BY <1>2, <1>3, <1>5, <2>1, AsksItsOwn
    <2> QED
      BY <1>1, <1>3, <2>1, <2>2 DEF Courses
  <1>6. CASE next \notin {"COMPLETE", "decide"}
    <2>1. melt' = melt /\ pending' = "none"
      BY <1>2, <1>6 DEF Book
    <2> QED
      BY <1>1, <1>3, <2>1 DEF Courses
  <1> QED
    BY <1>4, <1>5, <1>6

\* The next campaign starts.
LEMMA StartNextCourses == IndInv /\ Courses /\ StartNext => Courses'
  <1> SUFFICES ASSUME IndInv, Courses, StartNext
               PROVE  Courses'
    OBVIOUS
  <1>1. /\ phase = "starting" /\ phase' = "booked" /\ next \in Campaigns
        /\ melt' = Clear(next) /\ entered' = Append(entered, next) /\ pending' = "none"
        /\ UNCHANGED <<plan, record, saved>>
    BY DEF StartNext, Resume, IndInv, Completing
  <1>2. /\ melt.campaign \in Campaigns /\ plan \in Plans /\ melt'.campaign = next
        /\ record \in Records /\ entered \in Seq(Campaigns)
    BY <1>1, HourInCampaign, ClearMelt DEF IndInv, Types
  <1>3. /\ OnCourse(plan, melt.campaign, record, entered)
        /\ OnCourse(plan, saved.melt.campaign, saved.record, saved.entered)
        /\ next = NextCampaign(plan, melt.campaign, record)
        /\ IsRouted(plan, melt.campaign, record)
    BY <1>1 DEF Courses, Campaigns
  <1>4. OnCourse(plan, next, record, Append(entered, next))
    BY <1>1, <1>2, <1>3, StartKeepsCourse
  <1> QED
    BY <1>1, <1>2, <1>3, <1>4 DEF Courses

\* The operator's choice, whether its campaign starts or raises half way.
LEMMA ChoiceCourses ==
    ASSUME NEW choice, IndInv, Courses, Decide(choice) \/ DecideAborts(choice)
    PROVE  Courses'
  <1> DEFINE n == Chosen(plan, pending, choice)
  <1>1. /\ phase = "idle" /\ pending # "none" /\ choice \in Options[pending]
        /\ UNCHANGED <<plan, phase, saved>>
    BY DEF Decide, DecideAborts, CanDecide
  <1>2. /\ plan \in Plans /\ record \in Records /\ entered \in Seq(Campaigns) /\ melt \in Melts
        /\ OnCourse(plan, melt.campaign, record, entered)
        /\ Asks(plan, melt.campaign, record, pending)
    BY <1>1 DEF IndInv, Types, Courses
  <1>3. melt.campaign \in Campaigns
    BY <1>2 DEF Asks, Campaigns
  <1>4. n \in Phases
    BY <1>1, <1>2, ChosenNames DEF Asks, DecisionTypes
  <1>5. ASSUME Enter(n), Resume,
               record' = ChosenRecord(record, pending, choice) \/ (record' = record /\ n # "COMPLETE")
        PROVE  Courses'
    <2>1. OnCourse(plan, n, record', EnteredBy(n, entered))
      BY <1>1, <1>2, <1>3, <1>5, ChoiceKeepsCourse
    <2> HIDE DEF n
    <2>2. melt'.campaign = n /\ entered' = EnteredBy(n, entered)
      BY <1>2, <1>4, <1>5, ClearMelt DEF Enter, EnteredBy, Melts, Phases
    <2>3. pending' = "none"
      BY <1>5 DEF Resume
    <2> QED
      BY <1>1, <2>1, <2>2, <2>3 DEF Courses
  <1>6. CASE Decide(choice)
    BY <1>5, <1>6 DEF Decide
  <1>7. CASE DecideAborts(choice)
    <2>1. CASE Enter(n) /\ Resume /\ n # "COMPLETE" /\ record' = record
      BY <1>5, <2>1
    <2>2. CASE Enter(n) /\ Resume /\ record' = ChosenRecord(record, pending, choice)
      BY <1>5, <2>2
    <2>3. CASE UNCHANGED <<melt, record, entered, refusedC6, pending, paused>>
      BY <1>1, <1>2, <2>3 DEF Courses
    <2> QED
      BY <1>7, <2>1, <2>2, <2>3 DEF DecideAborts
  <1> QED
    BY <1>6, <1>7

\* Every step keeps a batch on course.
LEMMA NextCourses == IndInv /\ Courses /\ [Next]_vars => Courses'
  <1> SUFFICES ASSUME IndInv, Courses, [Next]_vars
               PROVE  Courses'
    OBVIOUS
  <1>1. CASE BeginHour
    <2>1. /\ phase' = "physics" /\ next' = "stay" /\ saved' = Saving
          /\ UNCHANGED <<plan, melt, record, entered, pending>>
      BY <1>1 DEF BeginHour, state
    <2>2. /\ saved'.melt = melt /\ saved'.record = record /\ saved'.entered = entered
      BY <2>1 DEF Saving
    <2> QED
      BY <2>1, <2>2 DEF Courses
  <1>2. CASE Physics
    BY <1>2 DEF Physics, Courses
  <1>3. CASE EndpointNotMet
    BY <1>3 DEF EndpointNotMet, Courses, state
  <1>4. CASE EndpointRefusesC4
    BY <1>4 DEF EndpointRefusesC4, AfterRefusedC4, Resume, Courses
  <1>5. CASE EndpointMet
    BY <1>5, EndpointMetCourses
  <1>6. CASE AdvanceClock
    <2>1. /\ phase = "boundary" /\ phase' = "advanced"
          /\ UNCHANGED <<plan, record, entered, pending, next, saved>>
      BY <1>6 DEF AdvanceClock
    <2>2. melt'.campaign = melt.campaign
      BY <1>6 DEF AdvanceClock, IndInv, Types, Melts
    <2> QED
      BY <2>1, <2>2 DEF Courses
  <1>7. CASE Book
    BY <1>7, BookCourses
  <1>8. CASE StartNext
    BY <1>8, StartNextCourses
  <1>9. CASE EndHour
    BY <1>9 DEF EndHour, Courses, state
  <1>10. CASE PollHour
    BY <1>10 DEF PollHour, Courses, state
  <1>11. CASE RefuseHour
    <2>1. /\ phase # "idle" /\ phase' = "idle" /\ pending' = saved.pending
          /\ melt' = saved.melt /\ record' = saved.record /\ entered' = saved.entered
          /\ UNCHANGED <<plan, saved>>
      BY <1>11 DEF RefuseHour, CanRaise, Restore, RestoreButLedger
    <2>2. pending' = "none"
      BY <2>1 DEF IndInv, Pausing
    <2> QED
      BY <2>1, <2>2 DEF Courses
  <1>12. CASE AbortHour
    BY <1>12 DEF AbortHour, Courses, state
  <1>13. CASE \E choice \in Choices : Decide(choice) \/ DecideAborts(choice)
    BY <1>13, ChoiceCourses
  <1>14. CASE UNCHANGED vars
    BY <1>14 DEF vars, state, Courses
  <1> QED
    BY <1>1, <1>2, <1>3, <1>4, <1>5, <1>6, <1>7, <1>8, <1>9, <1>10, <1>11, <1>12,
       <1>13, <1>14
    DEF Next, Hour, Choices

\* Every batch stays on course.
THEOREM CoursesHold == Spec => [](IndInv /\ Courses)
  <1>1. Init => IndInv /\ Courses
    BY InitIndInv, InitCourses
  <1>2. IndInv /\ Courses /\ [Next]_vars => (IndInv /\ Courses)'
    BY NextIndInv, NextCourses
  <1> QED
    BY <1>1, <1>2, PTL DEF Spec
---------------------------------------------------------------------------
\* Whatever failed before, what the operator is asked is the question of the
\* campaign that just ended, and the two flags of a pause agree.
THEOREM AskedTheRightQuestionHolds == Spec => []AskedTheRightQuestion
  <1>1. IndInv /\ Courses => AskedTheRightQuestion
    BY DEF IndInv, Pausing, Courses, Asks, AskedTheRightQuestion
  <1> QED
    BY <1>1, CoursesHold, PTL

\* No question is answered twice, by the operator or by the batch itself, for
\* any number of retried hours and aborted decisions.
THEOREM DecidedOnceHolds == Spec => []DecidedOnce
  <1>1. IndInv /\ Courses => DecidedOnce
    BY DEF Courses, OnCourse, NotedInTime, OnceEach, DecidedOnce
  <1> QED
    BY <1>1, CoursesHold, PTL

\* A campaign the batch has visited has visits.
LEMMA VisitedHasVisits ==
    ASSUME NEW c, Visited(c, entered)
    PROVE  Visits(c) # {}
  BY DEF Visited, Visits

\* The operator's path is what the record says, but for the mark of the final
\* pass, for any number of failures.
THEOREM PathKeptHolds == Spec => []PathKept
  <1>1. IndInv /\ Courses => PathKept
    BY VisitedHasVisits DEF Courses, OnCourse, OnPath, Notes, PathKept
  <1> QED
    BY <1>1, CoursesHold, PTL

\* A batch of branch two completes only through C6, or an operator who declined
\* it, wherever it started and whatever failed.
THEOREM C6NotSkippedHolds == Spec => []C6NotSkipped
  <1>1. IndInv /\ Courses => C6NotSkipped
    BY VisitedHasVisits DEF Courses, OnCourse, OnBranch, Notes, C6NotSkipped
  <1> QED
    BY <1>1, CoursesHold, PTL

\* A batch never comes back to a campaign, but for the final pass of C2A after
\* C4, wherever it started and whatever failed: ranks only grow, and C2A has two.
THEOREM NoCampaignLoopHolds == Spec => []NoCampaignLoop
  <1>1. IndInv /\ Courses => NoCampaignLoop
    <2> SUFFICES ASSUME entered \in Seq(Campaigns),
                        \A i, j \in 1 .. Len(entered) :
                           i < j => RankAt(entered, i) < RankAt(entered, j),
                        NEW i \in 1 .. Len(entered), NEW j \in 1 .. Len(entered),
                        i < j, entered[i] = entered[j]
                 PROVE  /\ entered[j] = "C2A" /\ entered[j - 1] = "C4"
                        /\ Visits("C2A") = {i, j}
      BY DEF IndInv, Types, Courses, OnCourse, Climbs, NoCampaignLoop
    <2>1. \A k \in 1 .. Len(entered) :
             /\ RankAt(entered, k) \in Int
             /\ RankAt(entered, k) = IF FinalAt(entered, k) THEN 6 ELSE Rank(entered[k])
      BY RankRange DEF RankAt
    <2>2. RankAt(entered, i) < RankAt(entered, j)
      OBVIOUS
    <2>3. \A k \in 1 .. Len(entered) : entered[k] = "C2A" =>
             RankAt(entered, k) = IF FinalAt(entered, k) THEN 6 ELSE 2
      BY <2>1 DEF Rank
    <2>4. FinalAt(entered, i) \/ FinalAt(entered, j)
      BY <2>1, <2>2
    <2>5. entered[i] = "C2A" /\ entered[j] = "C2A"
      BY <2>4 DEF FinalAt
    <2>6. FinalAt(entered, j) /\ ~FinalAt(entered, i)
      BY <2>2, <2>3, <2>5
    <2>7. \A k \in 1 .. Len(entered) : entered[k] = "C2A" => k = i \/ k = j
      <3> SUFFICES ASSUME NEW k \in 1 .. Len(entered), entered[k] = "C2A", k # i, k # j
                   PROVE  FALSE
        OBVIOUS
      <3>1. RankAt(entered, k) # RankAt(entered, i) /\ RankAt(entered, k) # RankAt(entered, j)
        BY <2>1
      <3>2. RankAt(entered, i) = 2 /\ RankAt(entered, j) = 6
        BY <2>3, <2>5, <2>6
      <3>3. RankAt(entered, k) \in {2, 6}
        BY <2>3
      <3> QED
        BY <3>1, <3>2, <3>3
    <2>8. Visits("C2A") = {i, j}
      BY <2>5, <2>7 DEF Visits
    <2> QED
      BY <2>5, <2>6, <2>8 DEF FinalAt
  <1> QED
    BY <1>1, CoursesHold, PTL

-----------------------------------------------------------------------------
(***************************************************************************)
(* Proofs about a run of the executor, for every hour budget and every     *)
(* batch.  Until the verdict every step of a run is one of its batch, so   *)
(* the invariant of the batch holds; this part adds what the driver knows  *)
(* of it: between two hours it has summarised exactly the hours run, and   *)
(* the copies it holds are those of that hour.                             *)
(***************************************************************************)

Places == {"top", "deciding", "decided", "advancing", "judging", "ended", "closed"}

RTypes ==
    /\ budget \in 0 .. MaxHours
    /\ left \in 0 .. budget
    /\ perHour \in 0 .. budget
    /\ at \in Places
    /\ status \in {"running"} \cup Final
    /\ raised \in BOOLEAN
    /\ at = "closed" <=> status # "running"
    /\ raised => at = "closed"

\* An iteration is counted when its step is summarised, and one is begun
\* only within the budget.
Budgeted ==
    /\ at # "closed" => perHour + left = budget
    /\ at \in {"deciding", "decided", "advancing", "judging"} => left > 0

BetweenHours ==
    \/ at \in {"top", "deciding", "decided", "ended"}
    \/ at = "advancing" /\ phase = "idle"

\* Between two hours nothing is refused or poisoned, and every hour run has
\* been summarised.
Clean ==
    BetweenHours => phase = "idle" /\ ~poisoned /\ ~refusedC4 /\ perHour = melt.hour

\* An hour is never asked of a paused batch.
Answered ==
    at = "decided" \/ (at = "advancing" /\ phase = "idle") => pending = "none"

\* The copies are those of the hour the iteration began in.
CopiesKept ==
    at \in {"deciding", "decided", "advancing", "judging"} =>
        /\ before.melt.hour = perHour
        /\ before.ledger \in Seq(Nat)
        /\ \A i \in 1 .. Len(before.ledger) : before.ledger[i] < perHour

HourRuns == at = "advancing" /\ phase # "idle" => saved.melt.hour = perHour

\* What the last call returned tells whether its hour was run.
Returned ==
    at = "judging" =>
        /\ phase = "idle"
        /\ returned # "paused"
        /\ returned = "ok" => ~poisoned /\ melt.hour = perHour + 1
        /\ returned = "bubbler_refused" => ~poisoned /\ melt.hour = perHour

Verdicts == RolledBackTogether /\ CleanVerdict /\ RefusedVerdict

RunInv ==
    /\ RTypes
    /\ at # "closed" => IndInv
    /\ Budgeted
    /\ Clean
    /\ Answered
    /\ CopiesKept
    /\ HourRuns
    /\ Returned
    /\ Verdicts

\* What TopOfLoop, AfterDecision and Conclude leave alone.
CoreStays == UNCHANGED vars

---------------------------------------------------------------------------
\* A step that leaves the batch alone leaves its invariant alone.
LEMMA CoreStaysIndInv == IndInv /\ CoreStays => IndInv'
  BY NextIndInv DEF CoreStays

\* A run that has no verdict yet has nothing to answer for.
LEMMA UndecidedVerdicts ==
    ASSUME RTypes', at' # "closed"
    PROVE  Verdicts'
  <1>1. status' = "running" /\ ~raised'
    BY DEF RTypes
  <1> QED
    BY <1>1 DEF Verdicts, RolledBackTogether, CleanVerdict, RefusedVerdict

\* The hours of a settled ledger are those before the hour of the melt.
LEMMA IdleLedger ==
    ASSUME IndInv, phase = "idle", ~poisoned
    PROVE  /\ ledger \in Seq(Nat)
           /\ \A i \in 1 .. Len(ledger) : ledger[i] < melt.hour
  BY DEF IndInv, Types, HourSettled, Settled

\* Answering a decision passes no hour.
LEMMA DecideKeepsHour ==
    ASSUME NEW choice, IndInv, Decide(choice)
    PROVE  /\ melt'.hour = melt.hour
           /\ pending' = "none"
           /\ UNCHANGED <<phase, poisoned, refusedC4>>
  BY DEF Decide, Enter, Clear, Resume, IndInv, Types, Melts

---------------------------------------------------------------------------
\* A run starts with no hour run and none summarised.
LEMMA InitRunInv == RInit => RunInv
  <1> SUFFICES ASSUME RInit
               PROVE  RunInv
    OBVIOUS
  <1>1. /\ budget \in 0 .. MaxHours /\ left = budget /\ perHour = 0
        /\ at = "top" /\ raised = FALSE /\ status = "running"
    BY DEF RInit
  <1>2. IndInv
    BY InitIndInv DEF RInit
  <1>3. phase = "idle" /\ poisoned = FALSE /\ refusedC4 = FALSE /\ melt.hour = 0
    BY DEF RInit, Init
  <1>4. RTypes
    <2>1. budget \in Nat /\ left \in 0 .. budget /\ perHour \in 0 .. budget
      BY <1>1, BudgetAssumption
    <2> QED
      BY <1>1, <2>1 DEF RTypes, Places
  <1>5. Budgeted /\ Clean /\ Answered /\ CopiesKept /\ HourRuns /\ Returned
    BY <1>1, <1>3, BudgetAssumption
    DEF Budgeted, Clean, Answered, CopiesKept, HourRuns, Returned
  <1>6. Verdicts
    BY <1>1 DEF Verdicts, RolledBackTogether, CleanVerdict, RefusedVerdict
  <1> QED
    BY <1>2, <1>4, <1>5, <1>6 DEF RunInv

\* The top of the loop copies a settled ledger.
LEMMA TopOfLoopRunInv == RunInv /\ TopOfLoop => RunInv'
  <1> SUFFICES ASSUME RunInv, TopOfLoop
               PROVE  RunInv'
    OBVIOUS
  <1>1. /\ at = "top" /\ before' = [melt |-> melt, ledger |-> ledger]
        /\ UNCHANGED <<budget, stage0Only, left, perHour, raised, status>>
        /\ CoreStays
    BY DEF TopOfLoop, CoreStays
  <1>2. UNCHANGED <<melt, ledger, pending, refusedC4, poisoned, phase, saved, returned>>
    BY <1>1 DEF CoreStays, vars, state
  <1>3. /\ at' \in {"ended", "deciding", "advancing"}
        /\ at' # "ended" => left # 0
        /\ at' = "advancing" => pending = "none"
    BY DEF TopOfLoop, DriverReturns
  <1>4. IndInv /\ IndInv'
    BY <1>1, CoreStaysIndInv DEF RunInv
  <1>5. RTypes'
    BY <1>1, <1>3 DEF RunInv, RTypes, Places
  <1>6. /\ phase = "idle" /\ ~poisoned /\ ~refusedC4 /\ perHour = melt.hour
    BY <1>1 DEF RunInv, Clean, BetweenHours
  <1>7. Budgeted'
    BY <1>1, <1>3 DEF RunInv, RTypes, Budgeted
  <1>8. Clean' /\ Answered' /\ HourRuns' /\ Returned'
    BY <1>1, <1>2, <1>3, <1>6 DEF Clean, Answered, HourRuns, Returned
  <1>9. CopiesKept'
    <2>1. before'.melt = melt /\ before'.ledger = ledger
      BY <1>1
    <2> QED
      BY <1>1, <1>4, <1>6, <2>1, IdleLedger DEF CopiesKept
  <1>10. Verdicts'
    BY <1>3, <1>5, UndecidedVerdicts
  <1> QED
    BY <1>4, <1>5, <1>7, <1>8, <1>9, <1>10 DEF RunInv

\* The recommendation is applied between two hours.
LEMMA AutoApplyRunInv == RunInv /\ AutoApply => RunInv'
  <1> SUFFICES ASSUME RunInv, AutoApply
               PROVE  RunInv'
    OBVIOUS
  <1>1. /\ at = "deciding" /\ at' = "decided" /\ Decide(Recommended[pending])
        /\ UNCHANGED <<budget, stage0Only, left, perHour, before, raised, status>>
    BY DEF AutoApply
  <1>2. IndInv
    BY <1>1 DEF RunInv
  <1>3. IndInv'
    BY <1>1, <1>2, DecideIndInv
  <1>4. /\ melt'.hour = melt.hour /\ pending' = "none"
        /\ UNCHANGED <<phase, poisoned, refusedC4>>
    BY <1>1, <1>2, DecideKeepsHour
  <1>5. RTypes'
    BY <1>1 DEF RunInv, RTypes, Places
  <1>6. Budgeted' /\ CopiesKept'
    BY <1>1 DEF RunInv, Budgeted, CopiesKept
  <1>7. phase = "idle" /\ ~poisoned /\ ~refusedC4 /\ perHour = melt.hour
    BY <1>1 DEF RunInv, Clean, BetweenHours
  <1>8. Clean' /\ Answered' /\ HourRuns' /\ Returned'
    BY <1>1, <1>4, <1>7 DEF Clean, Answered, HourRuns, Returned
  <1>9. Verdicts'
    BY <1>1, <1>5, UndecidedVerdicts
  <1> QED
    BY <1>3, <1>5, <1>6, <1>8, <1>9 DEF RunInv

\* A start that raises ends the iteration before its hour.
LEMMA AutoApplyRaisesRunInv == RunInv /\ AutoApplyRaises => RunInv'
  <1> SUFFICES ASSUME RunInv, AutoApplyRaises
               PROVE  RunInv'
    OBVIOUS
  <1>1. /\ at = "deciding" /\ at' = "judging" /\ DecideAborts(Recommended[pending])
        /\ UNCHANGED <<budget, stage0Only, left, perHour, before, raised, status>>
    BY DEF AutoApplyRaises
  <1>2. IndInv
    BY <1>1 DEF RunInv
  <1>3. IndInv'
    BY <1>1, <1>2, DecideAbortsIndInv
  <1>4. /\ phase = "idle" /\ phase' = phase
        /\ returned' \in {"typed_refusal", "terminal_refusal", "error"}
    BY <1>1 DEF DecideAborts, CanDecide
  <1>5. RTypes'
    BY <1>1 DEF RunInv, RTypes, Places
  <1>6. Budgeted' /\ CopiesKept'
    BY <1>1 DEF RunInv, Budgeted, CopiesKept
  <1>7. Clean' /\ Answered' /\ HourRuns' /\ Returned'
    BY <1>1, <1>4 DEF Clean, BetweenHours, Answered, HourRuns, Returned
  <1>8. Verdicts'
    BY <1>1, <1>5, UndecidedVerdicts
  <1> QED
    BY <1>3, <1>5, <1>6, <1>7, <1>8 DEF RunInv

\* After the answer the driver asks its stop conditions again.
LEMMA AfterDecisionRunInv == RunInv /\ AfterDecision => RunInv'
  <1> SUFFICES ASSUME RunInv, AfterDecision
               PROVE  RunInv'
    OBVIOUS
  <1>1. /\ at = "decided" /\ at' \in {"ended", "advancing"}
        /\ UNCHANGED <<budget, stage0Only, left, perHour, before, raised, status>>
        /\ CoreStays
    BY DEF AfterDecision, CoreStays
  <1>2. UNCHANGED <<melt, pending, refusedC4, poisoned, phase, saved, returned>>
    BY <1>1 DEF CoreStays, vars, state
  <1>3. IndInv'
    BY <1>1, CoreStaysIndInv DEF RunInv
  <1>4. RTypes'
    BY <1>1 DEF RunInv, RTypes, Places
  <1>5. Budgeted' /\ CopiesKept'
    BY <1>1 DEF RunInv, Budgeted, CopiesKept
  <1>6. /\ phase = "idle" /\ ~poisoned /\ ~refusedC4 /\ perHour = melt.hour
        /\ pending = "none"
    BY <1>1 DEF RunInv, Clean, BetweenHours, Answered
  <1>7. Clean' /\ Answered' /\ HourRuns' /\ Returned'
    BY <1>1, <1>2, <1>6 DEF Clean, Answered, HourRuns, Returned
  <1>8. Verdicts'
    BY <1>1, <1>4, UndecidedVerdicts
  <1> QED
    BY <1>3, <1>4, <1>5, <1>7, <1>8 DEF RunInv

---------------------------------------------------------------------------
\* The hour begins on the copies the driver holds.
LEMMA BeginHourRuns == RunInv /\ at = "advancing" /\ BeginHour =>
                          phase' = "physics" /\ saved'.melt.hour = perHour
  BY DEF RunInv, Clean, BetweenHours, BeginHour, MayAdvance, Saving

\* Its stretches keep it running until its snapshot is returned.
LEMMA HourGoesOn ==
    ASSUME Physics \/ EndpointNotMet \/ EndpointRefusesC4 \/ EndpointMet
             \/ AdvanceClock \/ Book \/ StartNext
    PROVE  phase # "idle" /\ phase' # "idle" /\ saved' = saved
  BY DEF Physics, EndpointNotMet, EndpointRefusesC4, EndpointMet, AdvanceClock,
         Book, StartNext

\* An hour that returns its snapshot has moved the clock by one.
LEMMA EndHourCounts ==
    ASSUME IndInv, HourRuns, at = "advancing", EndHour
    PROVE  /\ phase' = "idle" /\ returned' \in {"ok", "projection"}
           /\ ~poisoned' /\ melt'.hour = perHour + 1
  <1>1. /\ phase = "booked" /\ phase' = "idle" /\ returned' \in {"ok", "projection"}
        /\ poisoned' = poisoned /\ melt' = melt
    BY DEF EndHour, state
  <1> QED
    BY <1>1 DEF IndInv, HourAhead, HourRuns

\* Whatever becomes of an hour, the driver knows it from what is returned.
LEMMA AdvanceRunInv == RunInv /\ Advance => RunInv'
  <1> SUFFICES ASSUME RunInv, Advance
               PROVE  RunInv'
    OBVIOUS
  <1>1. /\ at = "advancing"
        /\ Hour \/ PollHour \/ RefuseHour \/ AbortHour
        /\ at' = IF phase' = "idle" THEN "judging" ELSE "advancing"
        /\ UNCHANGED <<budget, stage0Only, left, perHour, before, raised, status>>
    BY DEF Advance
  <1>2. IndInv
    BY <1>1 DEF RunInv
  <1>3. IndInv'
    BY <1>1, <1>2, NextIndInv DEF Next
  <1>4. RTypes'
    BY <1>1 DEF RunInv, RTypes, Places
  <1>5. Budgeted' /\ CopiesKept'
    BY <1>1 DEF RunInv, Budgeted, CopiesKept
  <1>6. Verdicts'
    BY <1>1, <1>4, UndecidedVerdicts
  <1>7. Clean' /\ Answered'
    BY <1>1 DEF Clean, BetweenHours, Answered
  <1>8. HourRuns' /\ Returned'
    <2>1. CASE BeginHour
      BY <1>1, <2>1, BeginHourRuns DEF HourRuns, Returned
    <2>2. CASE Physics \/ EndpointNotMet \/ EndpointRefusesC4 \/ EndpointMet
                 \/ AdvanceClock \/ Book \/ StartNext
      BY <1>1, <2>2, HourGoesOn DEF RunInv, HourRuns, Returned
    <2>3. CASE EndHour
      BY <1>1, <1>2, <2>3, EndHourCounts DEF RunInv, HourRuns, Returned
    <2>4. CASE PollHour
      <3>1. /\ phase = "idle" /\ phase' = "idle"
            /\ returned' \in {"projection", IF paused THEN "paused" ELSE "bubbler_refused"}
            /\ UNCHANGED <<melt, poisoned>>
        BY <2>4 DEF PollHour, MayAdvance, state
      <3>2. ~poisoned /\ perHour = melt.hour /\ pending = "none"
        BY <1>1, <3>1 DEF RunInv, Clean, BetweenHours, Answered
      <3>3. ~paused
        BY <1>2, <3>2 DEF IndInv, Pausing
      <3> QED
        BY <1>1, <3>1, <3>2, <3>3 DEF HourRuns, Returned
    <2>5. CASE RefuseHour \/ AbortHour
      BY <1>1, <2>5 DEF RefuseHour, AbortHour, HourRuns, Returned
    <2> QED
      BY <1>1, <2>1, <2>2, <2>3, <2>4, <2>5 DEF Hour
  <1> QED
    BY <1>3, <1>4, <1>5, <1>6, <1>7, <1>8 DEF RunInv

---------------------------------------------------------------------------
\* A step that returned is summarised, and its hour counted at most once.
LEMMA JudgeStepRunInv == RunInv /\ JudgeStep => RunInv'
  <1> SUFFICES ASSUME RunInv, JudgeStep
               PROVE  RunInv'
    OBVIOUS
  <1>1. /\ at = "judging" /\ returned \in {"ok", "paused", "bubbler_refused"}
        /\ perHour' = perHour + 1
        /\ UNCHANGED <<budget, stage0Only, before, raised>>
        /\ CoreStays
    BY DEF JudgeStep, CoreStays
  <1>2. UNCHANGED <<melt, ledger, pending, refusedC4, poisoned, phase, saved, returned>>
    BY <1>1 DEF CoreStays, vars, state
  <1>3. /\ phase = "idle" /\ ~poisoned
        /\ returned = "ok" => melt.hour = perHour + 1
        /\ returned = "bubbler_refused" => melt.hour = perHour
        /\ returned \in {"ok", "bubbler_refused"}
    BY <1>1 DEF RunInv, Returned
  <1>4. IndInv /\ IndInv'
    BY <1>1, CoreStaysIndInv DEF RunInv
  <1>5. /\ perHour + left = budget /\ left > 0 /\ ~raised /\ status = "running"
        /\ budget \in Nat /\ left \in Nat /\ perHour \in Nat
    BY <1>1, BudgetAssumption DEF RunInv, Budgeted, RTypes
  <1>6. CASE RefusedByStep
    <2>1. at' = "closed" /\ status' = "refused" /\ left' = left
      BY <1>3, <1>6 DEF JudgeStep, PoisonWins
    <2>2. RTypes'
      BY <1>1, <1>5, <2>1 DEF RunInv, RTypes, Places, Final
    <2>3. Verdicts'
      <3>1. melt.hour \in Nat
        BY <1>4 DEF IndInv, Types, Melts
      <3>2. RefusedVerdict'
        BY <1>1, <1>2, <1>3, <1>5, <3>1 DEF RefusedVerdict
      <3> QED
        BY <1>1, <1>5, <2>1, <3>2 DEF Verdicts, RolledBackTogether, CleanVerdict
    <2>4. Budgeted' /\ Clean' /\ Answered' /\ CopiesKept' /\ HourRuns' /\ Returned'
      BY <2>1 DEF Budgeted, Clean, BetweenHours, Answered, CopiesKept, HourRuns, Returned
    <2> QED
      BY <1>4, <2>2, <2>3, <2>4 DEF RunInv
  <1>7. CASE ~RefusedByStep
    <2>1. at' \in {"ended", "top"} /\ status' = status /\ left' = left - 1
      BY <1>7 DEF JudgeStep
    <2>2. returned = "ok" /\ ~refusedC4
      BY <1>3, <1>7 DEF RefusedByStep
    <2>3. RTypes'
      BY <1>1, <1>5, <2>1 DEF RunInv, RTypes, Places
    <2>4. Budgeted' /\ CopiesKept' /\ Answered' /\ HourRuns' /\ Returned'
      BY <1>1, <1>5, <2>1 DEF Budgeted, CopiesKept, Answered, HourRuns, Returned
    <2>5. Clean'
      BY <1>1, <1>2, <1>3, <2>2 DEF Clean
    <2>6. Verdicts'
      BY <2>1, <2>3, UndecidedVerdicts
    <2> QED
      BY <1>4, <2>3, <2>4, <2>5, <2>6 DEF RunInv
  <1> QED
    BY <1>6, <1>7

\* A closed run owes nothing but its verdict.
LEMMA ClosedRunInv ==
    ASSUME RTypes', at' = "closed", Verdicts'
    PROVE  RunInv'
  BY DEF RunInv, Budgeted, Clean, BetweenHours, Answered, CopiesKept, HourRuns, Returned

\* Melt and ledger go back to copies of the same hour, the one the summaries
\* stopped at.
LEMMA JudgeTypedRefusalRunInv == RunInv /\ JudgeTypedRefusal => RunInv'
  <1> SUFFICES ASSUME RunInv, JudgeTypedRefusal
               PROVE  RunInv'
    OBVIOUS
  <1>1. /\ at = "judging" /\ returned \in {"typed_refusal", "terminal_refusal"}
        /\ melt' = before.melt /\ ledger' = before.ledger /\ raised' = TRUE
        /\ status' = (IF poisoned THEN "failed" ELSE "refused") /\ at' = "closed"
        /\ UNCHANGED <<poisoned, returned, budget, left, perHour>>
    BY DEF JudgeTypedRefusal, RollBack, PoisonWins
  <1>2. /\ before.melt.hour = perHour /\ before.ledger \in Seq(Nat)
        /\ \A i \in 1 .. Len(before.ledger) : before.ledger[i] < perHour
    BY <1>1 DEF RunInv, CopiesKept
  <1>3. RTypes'
    BY <1>1 DEF RunInv, RTypes, Places, Final
  <1>4. RolledBackTogether'
    BY <1>1, <1>2 DEF RolledBackTogether, Range
  <1>5. CleanVerdict'
    BY <1>1 DEF CleanVerdict
  <1>6. RefusedVerdict'
    <2>1. perHour \in Nat
      BY BudgetAssumption DEF RunInv, RTypes
    <2>2. melt'.hour = perHour
      BY <1>1, <1>2
    <2> QED
      BY <1>1, <2>1, <2>2 DEF RefusedVerdict
  <1> QED
    BY <1>1, <1>3, <1>4, <1>5, <1>6, ClosedRunInv DEF Verdicts

\* Any other exception fails the run.
LEMMA JudgeFailureRunInv == RunInv /\ JudgeFailure => RunInv'
  <1> SUFFICES ASSUME RunInv, JudgeFailure
               PROVE  RunInv'
    OBVIOUS
  <1>1. /\ at = "judging" /\ at' = "closed" /\ status' = "failed"
        /\ UNCHANGED <<budget, left, perHour, raised>>
    BY DEF JudgeFailure
  <1>2. RTypes'
    BY <1>1 DEF RunInv, RTypes, Places, Final
  <1>3. ~raised'
    BY <1>1 DEF RunInv, RTypes
  <1>4. Verdicts'
    BY <1>1, <1>3 DEF Verdicts, RolledBackTogether, CleanVerdict, RefusedVerdict
  <1> QED
    BY <1>1, <1>2, <1>4, ClosedRunInv

\* A run that used its budget, or stopped short of it, is clean.
LEMMA ConcludeRunInv == RunInv /\ Conclude => RunInv'
  <1> SUFFICES ASSUME RunInv, Conclude
               PROVE  RunInv'
    OBVIOUS
  <1>1. /\ at = "ended" /\ at' = "closed"
        /\ UNCHANGED <<budget, left, perHour, raised>>
        /\ CoreStays
    BY DEF Conclude, CoreStays
  <1>2. UNCHANGED <<melt, refusedC4, poisoned>>
    BY <1>1 DEF CoreStays, vars, state
  <1>3. ~poisoned /\ ~refusedC4 /\ perHour = melt.hour
    BY <1>1 DEF RunInv, Clean, BetweenHours
  <1>4. status' \in {"ok", "partial"}
    BY <1>3 DEF Conclude, PoisonWins
  <1>5. RTypes'
    BY <1>1, <1>4 DEF RunInv, RTypes, Places, Final
  <1>6. ~raised'
    BY <1>1 DEF RunInv, RTypes
  <1>7. Verdicts'
    BY <1>1, <1>2, <1>3, <1>4, <1>6
    DEF Verdicts, RolledBackTogether, CleanVerdict, RefusedVerdict
  <1> QED
    BY <1>1, <1>5, <1>7, ClosedRunInv

\* A run that stays as it is keeps its invariant.
LEMMA StaysRunInv == RunInv /\ UNCHANGED rvars => RunInv'
  <1> SUFFICES ASSUME RunInv, UNCHANGED rvars
               PROVE  RunInv'
    OBVIOUS
  <1>1. CoreStays /\ UNCHANGED runner
    BY DEF rvars, CoreStays
  <1>2. /\ UNCHANGED <<budget, stage0Only, left, perHour, before, at, raised, status>>
        /\ UNCHANGED <<melt, ledger, pending, refusedC4, poisoned, phase, saved, returned>>
    BY <1>1 DEF CoreStays, runner, vars, state
  <1>3. at # "closed" => IndInv'
    BY <1>1, CoreStaysIndInv DEF RunInv
  <1>4. RTypes' /\ Verdicts'
    BY <1>2 DEF RunInv, RTypes, Verdicts, RolledBackTogether, CleanVerdict, RefusedVerdict
  <1>5. Budgeted' /\ Clean' /\ Answered' /\ CopiesKept' /\ HourRuns' /\ Returned'
    BY <1>2 DEF RunInv, Budgeted, Clean, BetweenHours, Answered, CopiesKept,
                HourRuns, Returned
  <1> QED
    BY <1>2, <1>3, <1>4, <1>5 DEF RunInv

\* Every step of a run keeps the invariant.
LEMMA NextRunInv == RunInv /\ [RNext]_rvars => RunInv'
  BY TopOfLoopRunInv, AutoApplyRunInv, AutoApplyRaisesRunInv, AfterDecisionRunInv,
     AdvanceRunInv, JudgeStepRunInv, JudgeTypedRefusalRunInv, JudgeFailureRunInv,
     ConcludeRunInv, StaysRunInv DEF RNext, Closed

---------------------------------------------------------------------------
\* The invariant of execute_session holds throughout every run.
THEOREM RunInvHolds == RSpec => []RunInv
  <1>1. RInit => RunInv
    BY InitRunInv
  <1>2. RunInv /\ [RNext]_rvars => RunInv'
    BY NextRunInv
  <1> QED
    BY <1>1, <1>2, PTL DEF RSpec

\* The driver stays within its budget and gives one verdict.
THEOREM RTypesCorrect == RSpec => []RTypeOK
  <1>1. RunInv => RTypeOK
    BY DEF RunInv, RTypes, RTypeOK, Places
  <1> QED
    BY <1>1, RunInvHolds, PTL

\* A rollback leaves no transition of an hour the melt has not run.
THEOREM RolledBackTogetherHolds == RSpec => []RolledBackTogether
  <1>1. RunInv => RolledBackTogether
    BY DEF RunInv, Verdicts
  <1> QED
    BY <1>1, RunInvHolds, PTL

\* A run reported ok or partial is neither poisoned nor refused, and has
\* summarised every hour it ran.
THEOREM CleanVerdictHolds == RSpec => []CleanVerdict
  <1>1. RunInv => CleanVerdict
    BY DEF RunInv, Verdicts
  <1> QED
    BY <1>1, RunInvHolds, PTL

\* A refused run summarises exactly the hours it kept, the refused poll apart.
THEOREM RefusedVerdictHolds == RSpec => []RefusedVerdict
  <1>1. RunInv => RefusedVerdict
    BY DEF RunInv, Verdicts
  <1> QED
    BY <1>1, RunInvHolds, PTL
===========================================================================
