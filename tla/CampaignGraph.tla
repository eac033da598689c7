--------------------------- MODULE CampaignGraph ---------------------------
(***************************************************************************)
(* Which campaign follows which: CampaignManager.get_next_campaign and     *)
(* get_decision (simulator/campaigns.py), and the operator's choices as    *)
(* PyrolysisSimulator.apply_decision reads them (simulator/core.py).       *)
(*                                                                         *)
(* A plan is what the batch was configured with: c5 (electrolysis), c7     *)
(* (calcium recovery) and auto (a debug_ feedstock, which answers its own  *)
(* decisions).  A record is the batch record as far as routing reads it:   *)
(* track, path, branch, and the decisions taken so far.                    *)
(***************************************************************************)
EXTENDS Sequences, Functions

Campaigns == {"C0", "C0B", "C2A", "C2A_STAGED", "C2B", "C3_K", "C3_NA",
              "C4", "C5", "C6", "C7", "MRE_BASELINE"}
Phases == Campaigns \cup {"COMPLETE"}

DecisionTypes == {"ROOT_BRANCH", "PATH_AB", "BRANCH_ONE_TWO", "C6_PROCEED",
                  "C7_PROCEED"}

Plans == [c5 : BOOLEAN, c7 : BOOLEAN, auto : BOOLEAN]

Tracks   == {"pyrolysis", "mre_baseline"}
Paths    == {"", "A", "A_staged", "B", "A_post_mg_boiloff"}
Branches == {"", "one", "two"}

\* The path of a batch whose C2A is the last pyrolysis pass, after C4.
FinalPass == {"A_post_mg_boiloff", "B"}

EmptyRecord(track) ==
    [track |-> track, path |-> "", branch |-> "", decisions |-> << >>]

---------------------------------------------------------------------------
\* Mutant: the note is appended without looking.
NoteAutoAlways(record, decision) ==
    [record EXCEPT !.decisions = Append(@, decision)]

\* An automatic decision is noted once, however often routing is asked.
NoteAuto(record, decision) ==
    IF decision \in Range(record.decisions)
    THEN record
    ELSE [record EXCEPT !.decisions = Append(@, decision)]

\* C7 needs branch two and its own switch.
C7Enabled(plan, record) == record.branch = "two" /\ plan.c7

\* Mutant: C6 follows electrolysis only.
AfterC5OnlyElectrolysis(plan, record) ==
    IF record.branch # "two" \/ ~plan.c5 THEN "COMPLETE"
    ELSE IF plan.auto THEN "C6" ELSE "decide"

\* After electrolysis, or after the final pass that replaces it: branch two
\* goes on to C6, asking first unless the batch answers itself.
AfterC5(plan, record) ==
    IF record.branch # "two" THEN "COMPLETE"
    ELSE IF plan.auto THEN "C6" ELSE "decide"

\* The campaign that follows, "COMPLETE", or "decide" when the operator must
\* choose first.
NextCampaign(plan, campaign, record) ==
    IF record.track = "mre_baseline"
    THEN IF campaign \in {"C0", "C0B"} THEN "MRE_BASELINE" ELSE "COMPLETE"
    ELSE
    CASE campaign = "C0"         -> "C0B"
      [] campaign = "C0B"        -> IF plan.auto THEN "C2A_STAGED" ELSE "decide"
      [] campaign = "C2A"        -> IF record.path \in FinalPass
                                    THEN AfterC5(plan, record) ELSE "C3_K"
      [] campaign = "C2A_STAGED" -> "C3_NA"
      [] campaign = "C2B"        -> "C3_K"
      [] campaign = "C3_K"       -> IF record.path = "A_staged"
                                    THEN "COMPLETE" ELSE "C3_NA"
      [] campaign = "C3_NA"      -> IF plan.auto THEN "C4" ELSE "decide"
      [] campaign = "C4"         -> IF plan.c5 THEN "C5" ELSE "C2A"
      [] campaign = "C5"         -> AfterC5(plan, record)
      [] campaign = "C6"         -> IF C7Enabled(plan, record)
                                    THEN "C7" ELSE "COMPLETE"
      [] OTHER                   -> "COMPLETE"

\* Mutant: the final pass is not marked at all.
MarkFinalPassNever(record) == record

\* Mutant: the marker of the final pass overwrites the operator's path B.
MarkFinalPassAlways(record) == [record EXCEPT !.path = "A_post_mg_boiloff"]

MarkFinalPass(record) ==
    IF record.path = "B" THEN record
    ELSE [record EXCEPT !.path = "A_post_mg_boiloff"]

\* What routing itself writes to the record: markers of the path, and the
\* decisions an automatic batch (or an enabled C7) takes on its own.
RoutedRecord(plan, campaign, record) ==
    IF record.track = "mre_baseline" THEN record ELSE
    CASE campaign = "C0B" /\ plan.auto ->
           NoteAuto([record EXCEPT !.path = "A_staged"], <<"PATH_AB", "A_staged">>)
      [] campaign = "C2A_STAGED" -> [record EXCEPT !.path = "A_staged"]
      [] campaign = "C3_NA" /\ plan.auto ->
           NoteAuto([record EXCEPT !.branch = "two"], <<"BRANCH_ONE_TWO", "two">>)
      [] campaign = "C4" /\ ~plan.c5 -> MarkFinalPass(record)
      [] NextCampaign(plan, campaign, record) = "C6" ->
           NoteAuto(record, <<"C6_PROCEED", "yes">>)
      [] NextCampaign(plan, campaign, record) = "C7" ->
           NoteAuto(record, <<"C7_PROCEED", "yes">>)
      [] OTHER -> record

---------------------------------------------------------------------------
\* Mutant: the final C2A pass has no decision of its own, so the operator is
\* shown the fallback.
DecisionForWithoutFinalPass(plan, campaign, record) ==
    CASE campaign = "C0B"   -> "PATH_AB"
      [] campaign = "C3_NA" -> "BRANCH_ONE_TWO"
      [] campaign = "C5"    -> "C6_PROCEED"
      [] OTHER -> "ROOT_BRANCH"

\* The decision the operator is shown when a campaign ends in "decide".
DecisionFor(plan, campaign, record) ==
    CASE campaign = "C0B"   -> "PATH_AB"
      [] campaign = "C3_NA" -> "BRANCH_ONE_TWO"
      [] \/ campaign = "C5"
         \/ campaign = "C2A" /\ record.path \in FinalPass /\ record.branch = "two"
                            -> "C6_PROCEED"
      [] campaign = "C6" /\ C7Enabled(plan, record) -> "C7_PROCEED"
      [] OTHER -> "ROOT_BRANCH"

Options == [ROOT_BRANCH    |-> {"pyrolysis", "mre_baseline"},
            PATH_AB        |-> {"A", "A_staged", "B"},
            BRANCH_ONE_TWO |-> {"two", "one"},
            C6_PROCEED     |-> {"yes", "no"},
            C7_PROCEED     |-> {"yes", "no"}]

Recommended == [ROOT_BRANCH    |-> "pyrolysis",
                PATH_AB        |-> "A_staged",
                BRANCH_ONE_TWO |-> "two",
                C6_PROCEED     |-> "yes",
                C7_PROCEED     |-> "yes"]

\* Where a choice leads.
Chosen(plan, type, choice) ==
    CASE type = "ROOT_BRANCH" -> IF choice = "pyrolysis" THEN "C0" ELSE "MRE_BASELINE"
      [] type = "PATH_AB" -> [A |-> "C2A", A_staged |-> "C2A_STAGED", B |-> "C2B"][choice]
      [] type = "BRANCH_ONE_TWO" -> IF choice = "two" THEN "C4"
                                    ELSE IF plan.c5 THEN "C5" ELSE "COMPLETE"
      [] type = "C6_PROCEED" -> IF choice = "yes" THEN "C6" ELSE "COMPLETE"
      [] type = "C7_PROCEED" -> IF choice = "yes" THEN "C7" ELSE "COMPLETE"

\* Mutant: the branch is written over the path.
ChosenRecordMisplaced(record, type, choice) ==
    [record EXCEPT !.decisions = Append(@, <<type, choice>>), !.path = choice]

\* The record with the choice noted and the field it sets.
ChosenRecord(record, type, choice) ==
    LET noted == [record EXCEPT !.decisions = Append(@, <<type, choice>>)]
    IN  CASE type = "ROOT_BRANCH"    -> [noted EXCEPT !.track = choice]
          [] type = "PATH_AB"        -> [noted EXCEPT !.path = choice]
          [] type = "BRANCH_ONE_TWO" -> [noted EXCEPT !.branch = choice]
          [] OTHER                   -> noted
===========================================================================
