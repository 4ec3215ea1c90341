---------------------------- MODULE ReviewProofs ----------------------------
(***************************************************************************)
(* For any number of rows, requests and attempts of the cascade: what a    *)
(* person has verified is changed by a person's correction only, and the   *)
(* model's own word takes no row out of the review queue.                  *)
(***************************************************************************)
EXTENDS Review, FiniteSetTheorems, TLAPS

RequestType ==
    [op : {"none", "correct", "approve", "similar"},
     stage : {"new", "writing", "done"}, targets : SUBSET ReviewRows,
     category : Categories \cup {Unchanged}, figure : Figures \cup {Original, Unchanged},
     verify : BOOLEAN, read : Figures \cup {Original}, created : Nat]

DecisionType ==
    [category : Categories \cup {Uncategorised},
     source : {"none", "user_rule", "historical_pattern", "ai_model"},
     confidence : 0 .. 100]

CascadeType ==
    [stage : {"waiting", "deciding", "decided", "refused", "done"},
     todo : Seq(ReviewRows), decision : DecisionType]

\* What the requests and the cascade carry from one step to the next.
ReviewWorkInv ==
    /\ userRequest \in [UserRequests -> RequestType]
    /\ \A q \in UserRequests : userRequest[q].stage = "writing" =>
         /\ userRequest[q].op # "none"
         /\ userRequest[q].op = "similar" => userRequest[q].category \in Categories
    /\ cascade \in CascadeType
    /\ cascade.stage = "decided" => cascade.decision.source # "none" /\ cascade.todo # <<>>
    /\ cascade.decision.source = "ai_model" => cascade.decision.confidence <= 92
    /\ \A rule \in rules : rule.category \in Categories
    /\ clock \in Nat

\* A row leaves the queue when it is verified, and not on the model's word.
Sound(row) ==
    /\ row \in RowType
    /\ row.verified <=> row.status = "resolved"
    /\ row.source = "ai_model" => row.status # "auto_approved"

ReviewRowsInv ==
    /\ rows \in [ReviewRows -> RowType] /\ draft \in [ReviewRows -> RowType]
    /\ holder \in [ReviewRows -> UserRequests \cup {Ai, Nobody}]
    /\ \A r \in ReviewRows : Sound(rows[r])

\* Nobody writes to a row that another holds, so its draft still starts from
\* what is committed; the cascade holds no row that was verified.
DraftInv ==
    \A r \in ReviewRows :
        /\ holder[r] \in UserRequests =>
             /\ userRequest[holder[r]].stage = "writing"
             /\ draft[r] = Edited(rows[r], userRequest[holder[r]])
        /\ holder[r] = Ai => /\ ~ rows[r].verified /\ ~ draft[r].verified
                             /\ Sound(draft[r])

ReviewInv == ReviewWorkInv /\ ReviewRowsInv /\ DraftInv

\* What an edit makes of a row that is sound.
LEMMA EditKeeps ==
  ASSUME NEW row, Sound(row), NEW req \in RequestType, req.op # "none",
         req.op = "similar" => req.category \in Categories
  PROVE  /\ Sound(Edited(row, req))
         /\ row.verified => Edited(row, req).verified
         /\ row.verified /\ req.op # "correct" => Edited(row, req).category = row.category
<1>1. CASE req.op = "correct"
  <2>1. Edited(row, req) = Corrected(row, req)
    BY <1>1 DEF Edited
  <2>. QED  BY <1>1, <2>1 DEF Corrected, Sound, RowType, RequestType
<1>2. CASE req.op = "approve"
  <2>1. Edited(row, req) = Approved(row)
    BY <1>2 DEF Edited
  <2>. QED  BY <2>1 DEF Approved, Sound, RowType
<1>3. CASE req.op = "similar"
  <2>1. Edited(row, req) = Retagged(row, req.category)
    BY <1>3 DEF Edited
  <2>. QED  BY <1>3, <2>1 DEF Retagged, Sound, RowType
<1>. QED  BY <1>1, <1>2, <1>3 DEF RequestType

\* An edit looks at what the request says, not at what it still has to do.
LEMMA EditReads ==
  ASSUME NEW row, NEW req \in RequestType, NEW req2 \in RequestType,
         req.op = req2.op, req.category = req2.category, req.figure = req2.figure,
         req.verify = req2.verify
  PROVE  Edited(row, req) = Edited(row, req2)
  BY DEF Edited, Corrected

\* What a decision makes of a row that nobody has verified.
LEMMA CategorisedIsSound ==
  ASSUME NEW row, Sound(row), ~ row.verified, NEW r \in ReviewRows,
         NEW decision \in DecisionType, decision.source # "none",
         decision.source = "ai_model" => decision.confidence <= 92
  PROVE  Sound(Categorised(row, r, decision)) /\ ~ Categorised(row, r, decision).verified
<1>. DEFINE least == Least(decision.confidence, OtherScore[r])
<1>1. /\ least \in Int /\ (decision.source = "ai_model" => least <= 92)
  BY ReviewAssumption DEF Least, DecisionType
<1>2. /\ StatusOf(least) \in {"auto_approved", "flagged", "review_required"}
      /\ decision.source = "ai_model" => StatusOf(least) # "auto_approved"
  BY <1>1 DEF StatusOf, AutoApproveAt, FlagAt
<1>. HIDE DEF least
<1>3. Categorised(row, r, decision) =
        [row EXCEPT !.category = decision.category, !.source = decision.source,
                    !.status = StatusOf(least)]
  BY DEF Categorised, least
<1>. QED  BY <1>2, <1>3 DEF Sound, RowType, DecisionType

\* A commit puts the drafts of one holder in place, a rollback drops them.
LEMMA SettleKeeps ==
  ASSUME ReviewRowsInv, NEW p \in UserRequests \cup {Ai}, Settle(p),
         \A r \in ReviewRows : holder[r] = p => Sound(draft[r])
  PROVE  /\ ReviewRowsInv'
         /\ \A r \in ReviewRows : holder[r] = p  => rows'[r] = draft[r] /\ holder'[r] = Nobody
         /\ \A r \in ReviewRows : holder[r] # p => /\ rows'[r] = rows[r]
                                                   /\ holder'[r] = holder[r]
                                                   /\ draft'[r] = draft[r]
<1>1. NotHeld \in RowType
  BY DEF NotHeld, RowType
<1>. QED  BY <1>1 DEF Settle, ReviewRowsInv

\* A row given up has no holder, and the others keep theirs and their draft.
LEMMA ReleaseKeeps ==
  ASSUME ReviewRowsInv, NEW p \in UserRequests \cup {Ai}, Release(p), rows' = rows
  PROVE  /\ ReviewRowsInv'
         /\ \A r \in ReviewRows : holder[r] = p => holder'[r] = Nobody
         /\ \A r \in ReviewRows : holder[r] # p => /\ holder'[r] = holder[r]
                                                   /\ draft'[r] = draft[r]
<1>1. NotHeld \in RowType
  BY DEF NotHeld, RowType
<1>. QED  BY <1>1 DEF Release, ReviewRowsInv

\* A draft of a request is sound.
LEMMA DraftIsSound ==
  ASSUME ReviewInv, NEW r \in ReviewRows, holder[r] # Nobody
  PROVE  Sound(draft[r])
<1>1. CASE holder[r] = Ai
  BY <1>1 DEF ReviewInv, DraftInv
<1>2. CASE holder[r] \in UserRequests
  <2>1. Sound(rows[r]) /\ userRequest[holder[r]] \in RequestType
    BY <1>2 DEF ReviewInv, ReviewRowsInv, ReviewWorkInv
  <2>2. /\ draft[r] = Edited(rows[r], userRequest[holder[r]])
        /\ userRequest[holder[r]].op # "none"
        /\ userRequest[holder[r]].op = "similar" =>
             userRequest[holder[r]].category \in Categories
    BY <1>2 DEF ReviewInv, DraftInv, ReviewWorkInv
  <2>. QED  BY <2>1, <2>2, EditKeeps
<1>. QED  BY <1>1, <1>2 DEF ReviewInv, ReviewRowsInv

\* At the start nobody works on a row.
LEMMA ReviewStart == ReviewInit => ReviewInv
<1>. SUFFICES ASSUME ReviewInit PROVE ReviewInv
  OBVIOUS
<1>1. \A r \in ReviewRows : StatusOf(OtherScore[r])
                            \in {"auto_approved", "flagged", "review_required"}
  BY DEF StatusOf
<1>2. ReviewWorkInv
  BY DEF ReviewInit, ReviewWorkInv, NoRequest, NoCascade, NoDecision, RequestType,
         CascadeType, DecisionType
<1>3. ReviewRowsInv
  <2>1. NotHeld \in RowType
    BY DEF NotHeld, RowType
  <2>2. \A r \in ReviewRows : Sound(rows[r])
    BY <1>1 DEF ReviewInit, Sound, RowType
  <2>3. rows = [r \in ReviewRows |-> rows[r]]
    BY DEF ReviewInit
  <2>4. rows \in [ReviewRows -> RowType]
    BY <2>2, <2>3 DEF Sound
  <2>. QED  BY <2>1, <2>2, <2>4 DEF ReviewInit, ReviewRowsInv
<1>4. DraftInv
  BY ReviewAssumption DEF ReviewInit, DraftInv, Nobody, Ai
<1>. QED  BY <1>2, <1>3, <1>4 DEF ReviewInv

-----------------------------------------------------------------------------

\* The order a cascade takes its rows in is a sequence of them.
LEMMA OrderIsSeq ==
  ASSUME NEW order \in SetToSeqs(Unsettled)
  PROVE  order \in Seq(ReviewRows)
<1>1. Unsettled \subseteq ReviewRows
  BY DEF Unsettled
<1>2. Cardinality(Unsettled) \in Nat
  BY <1>1, ReviewAssumption, FS_Subset, FS_CardinalityType
<1>3. order \in [1..Cardinality(Unsettled) -> ReviewRows]
  BY <1>1 DEF SetToSeqs
<1>. QED  BY <1>2, <1>3

\* A request is replaced by another that is well formed.
LEMMA RequestsKept ==
  ASSUME ReviewWorkInv, NEW q \in UserRequests, NEW req \in RequestType,
         userRequest' = [userRequest EXCEPT ![q] = req],
         req.stage = "writing" => /\ req.op # "none"
                                  /\ req.op = "similar" => req.category \in Categories
  PROVE  /\ userRequest' \in [UserRequests -> RequestType]
         /\ \A p \in UserRequests : userRequest'[p].stage = "writing" =>
              /\ userRequest'[p].op # "none"
              /\ userRequest'[p].op = "similar" => userRequest'[p].category \in Categories
  BY DEF ReviewWorkInv

\* A request that is done is a request.
LEMMA DoneIsRequest ==
  [NoRequest EXCEPT !.stage = "done"] \in RequestType
  /\ [NoRequest EXCEPT !.stage = "done"].stage = "done"
  BY DEF NoRequest, RequestType

\* The cascade comes to a decision.
LEMMA DecideKeeps ==
  ASSUME ReviewWorkInv, NEW decision \in DecisionType, decision.source # "none",
         decision.source = "ai_model" => decision.confidence <= 92, Decide(decision)
  PROVE  ReviewWorkInv'
<1>1. /\ cascade' \in CascadeType /\ cascade'.decision = decision
      /\ cascade'.todo # <<>>
      /\ UNCHANGED <<userRequest, rules, clock>>
  BY DEF Decide, ReviewWorkInv, CascadeType
<1>. QED  BY <1>1 DEF ReviewWorkInv

\* A cascade that waits, is done or is refused has decided nothing.
LEMMA NoCascadeIsOne ==
  /\ NoCascade \in CascadeType /\ [NoCascade EXCEPT !.stage = "done"] \in CascadeType
  /\ [NoCascade EXCEPT !.stage = "refused"] \in CascadeType
  /\ NoCascade.decision.source = "none"
  /\ NoCascade.stage = "waiting"
  /\ [NoCascade EXCEPT !.stage = "done"].decision.source = "none"
  /\ [NoCascade EXCEPT !.stage = "done"].stage = "done"
  /\ [NoCascade EXCEPT !.stage = "refused"].decision.source = "none"
  /\ [NoCascade EXCEPT !.stage = "refused"].stage = "refused"
<1>1. NoDecision \in DecisionType /\ NoDecision.source = "none"
  BY DEF NoDecision, DecisionType
<1>2. <<>> \in Seq(ReviewRows)
  OBVIOUS
<1>3. /\ NoCascade = [stage |-> "waiting", todo |-> <<>>, decision |-> NoDecision]
      /\ [NoCascade EXCEPT !.stage = "done"]
           = [stage |-> "done", todo |-> <<>>, decision |-> NoDecision]
      /\ [NoCascade EXCEPT !.stage = "refused"]
           = [stage |-> "refused", todo |-> <<>>, decision |-> NoDecision]
  BY DEF NoCascade
<1>4. \A stage \in {"waiting", "done", "refused"} :
         /\ [stage |-> stage, todo |-> <<>>, decision |-> NoDecision] \in CascadeType
         /\ [stage |-> stage, todo |-> <<>>, decision |-> NoDecision].stage = stage
         /\ [stage |-> stage, todo |-> <<>>, decision |-> NoDecision].decision = NoDecision
  BY <1>1, <1>2 DEF CascadeType
<1>. QED  BY <1>1, <1>3, <1>4

\* A cascade goes on to its next row.
LEMMA EditedRow ==
  ASSUME ReviewWorkInv, cascade.todo # <<>>, NEW stage \in {"deciding"},
         cascade' \in {[cascade EXCEPT !.stage = stage, !.todo = Tail(@)],
                      [cascade EXCEPT !.todo = Tail(@)]}
  PROVE  /\ cascade' \in CascadeType /\ cascade'.decision = cascade.decision
         /\ cascade'.stage \in {stage, cascade.stage}
<1>1. cascade.todo \in Seq(ReviewRows)
  BY DEF ReviewWorkInv, CascadeType
<1>2. Tail(cascade.todo) \in Seq(ReviewRows)
  BY <1>1
<1>. DEFINE rest == Tail(cascade.todo)
<1>3. cascade' \in {[cascade EXCEPT !.stage = stage, !.todo = rest],
                   [cascade EXCEPT !.todo = rest]}
  OBVIOUS
<1>4. rest \in Seq(ReviewRows)
  BY <1>2
<1>. HIDE DEF rest
<1>. QED  BY <1>3, <1>4 DEF ReviewWorkInv, CascadeType

\* Every step keeps the requests and the cascade well formed.
LEMMA ReviewWorkKept == ReviewInv /\ [ReviewNext]_reviewVars => ReviewWorkInv'
<1>. SUFFICES ASSUME ReviewWorkInv, ReviewRowsInv, [ReviewNext]_reviewVars PROVE ReviewWorkInv'
  BY DEF ReviewInv
<1>1. ASSUME NEW q \in UserRequests, BeginCorrect(q) PROVE ReviewWorkInv'
  BY <1>1 DEF BeginCorrect, RequestType, ReviewRowsInv, RowType, ReviewWorkInv
<1>2. ASSUME NEW q \in UserRequests, BeginApprove(q) PROVE ReviewWorkInv'
  <2>1. PICK chosen \in SUBSET ReviewRows \ {{}} :
          userRequest' = [userRequest EXCEPT ![q] =
                            [NoRequest EXCEPT !.op = "approve", !.stage = "writing",
                                !.targets = chosen, !.verify = TRUE, !.created = clock]]
    BY <1>2 DEF BeginApprove
  <2>. DEFINE req == [NoRequest EXCEPT !.op = "approve", !.stage = "writing",
                                !.targets = chosen, !.verify = TRUE, !.created = clock]
  <2>2. req \in RequestType /\ req.op = "approve"
    BY DEF RequestType, NoRequest, ReviewWorkInv
  <2>3. cascade' = cascade /\ rules' = rules /\ clock' = clock + 1
    BY <1>2 DEF BeginApprove
  <2>4. userRequest' = [userRequest EXCEPT ![q] = req]
    BY <2>1
  <2>. HIDE DEF req
  <2>. QED  BY <2>2, <2>3, <2>4, RequestsKept DEF ReviewWorkInv
<1>3. ASSUME NEW q \in UserRequests, BeginSimilar(q) PROVE ReviewWorkInv'
  <2>1. PICK r \in ReviewRows \ Unknown, c \in Categories :
          userRequest' = [userRequest EXCEPT ![q] =
                            [NoRequest EXCEPT
                               !.op = "similar", !.stage = "writing", !.category = c,
                               !.targets = {s \in ReviewRows \ (Unknown \cup {r}) :
                                              ~ rows[s].verified},
                               !.created = clock]]
    BY <1>3 DEF BeginSimilar
  <2>. DEFINE others == {s \in ReviewRows \ (Unknown \cup {r}) : ~ rows[s].verified}
              req == [NoRequest EXCEPT !.op = "similar", !.stage = "writing",
                                !.category = c, !.targets = others, !.created = clock]
  <2>2. others \subseteq ReviewRows
    OBVIOUS
  <2>3. userRequest' = [userRequest EXCEPT ![q] = req]
    BY <2>1
  <2>. HIDE DEF others
  <2>4. req \in RequestType /\ req.op = "similar" /\ req.category \in Categories
    BY <2>2 DEF RequestType, NoRequest, ReviewWorkInv
  <2>5. cascade' = cascade /\ rules' = rules /\ clock' = clock + 1
    BY <1>3 DEF BeginSimilar
  <2>. HIDE DEF req
  <2>. QED  BY <2>3, <2>4, <2>5, RequestsKept DEF ReviewWorkInv
<1>4. ASSUME NEW q \in UserRequests, Edit(q) PROVE ReviewWorkInv'
  <2>1. PICK r \in userRequest[q].targets :
          userRequest' = [userRequest EXCEPT ![q].targets = @ \ {r}]
    BY <1>4 DEF Edit
  <2>. DEFINE req == [userRequest[q] EXCEPT !.targets = @ \ {r}]
  <2>2. /\ req \in RequestType /\ req.op = userRequest[q].op
        /\ req.category = userRequest[q].category /\ req.stage = userRequest[q].stage
    BY DEF ReviewWorkInv, RequestType
  <2>3. userRequest' = [userRequest EXCEPT ![q] = req]
    BY <2>1
  <2>4. userRequest[q].op # "none"
        /\ (userRequest[q].op = "similar" => userRequest[q].category \in Categories)
    BY <1>4 DEF Edit, ReviewWorkInv
  <2>5. UNCHANGED <<cascade, rules, clock>>
    BY <1>4 DEF Edit
  <2>. HIDE DEF req
  <2>. QED  BY <2>2, <2>3, <2>4, <2>5, RequestsKept DEF ReviewWorkInv
<1>5. ASSUME NEW q \in UserRequests, CommitRequest(q) PROVE ReviewWorkInv'
  <2>1. /\ userRequest' = [userRequest EXCEPT ![q] = [NoRequest EXCEPT !.stage = "done"]]
        /\ rules' = rules \cup Learned(q) /\ cascade' = cascade /\ clock' = clock
    BY <1>5 DEF CommitRequest
  <2>2. \A rule \in Learned(q) : rule.category \in Categories
    <3>1. userRequest[q].category \in Categories \cup {Unchanged}
      BY DEF ReviewWorkInv, RequestType
    <3>. QED  BY <3>1 DEF Learned
  <2>. QED  BY <2>1, <2>2, RequestsKept, DoneIsRequest DEF ReviewWorkInv
<1>6. ASSUME NEW q \in UserRequests, AbortRequest(q) PROVE ReviewWorkInv'
  BY <1>6, RequestsKept, DoneIsRequest DEF AbortRequest, ReviewWorkInv
<1>7. ASSUME NEW q \in UserRequests, CreateRule(q) PROVE ReviewWorkInv'
  <2>1. PICK c \in Categories :
          rules' = rules \cup {[category |-> c, priority |-> ManualPriority, created |-> clock]}
    BY <1>7 DEF CreateRule
  <2>2. \A rule \in rules' : rule.category \in Categories
    BY <2>1 DEF ReviewWorkInv
  <2>. QED  BY <1>7, <2>2, RequestsKept, DoneIsRequest DEF CreateRule, ReviewWorkInv
<1>8. ASSUME NEW q \in UserRequests, DropRule(q) PROVE ReviewWorkInv'
  BY <1>8, RequestsKept, DoneIsRequest DEF DropRule, ReviewWorkInv
<1>9. CASE CascadeStart
  <2>1. PICK order \in SetToSeqs(Unsettled) :
          cascade' = [stage |-> "deciding", todo |-> order, decision |-> NoDecision]
    BY <1>9 DEF CascadeStart
  <2>2. order \in Seq(ReviewRows)
    BY OrderIsSeq
  <2>3. NoDecision \in DecisionType /\ NoDecision.source = "none"
    BY DEF NoDecision, DecisionType
  <2>4. cascade' \in CascadeType /\ cascade'.stage = "deciding"
        /\ cascade'.decision.source = "none"
    BY <2>1, <2>2, <2>3 DEF CascadeType
  <2>. QED  BY <1>9, <2>4 DEF CascadeStart, ReviewWorkInv
<1>10. CASE DecideByRule
  <2>1. PICK rule \in Ruling :
          Decide([category |-> rule.category, source |-> "user_rule", confidence |-> 100])
    BY <1>10 DEF DecideByRule
  <2>2. rule.category \in Categories
    BY DEF Ruling, ReviewWorkInv
  <2>3. [category |-> rule.category, source |-> "user_rule", confidence |-> 100]
          \in DecisionType
    BY <2>2 DEF DecisionType
  <2>. QED  BY <1>10, <2>1, <2>3, DecideKeeps
<1>11. CASE DecideByHistory
  <2>1. PICK c \in Categories :
          Decide([category |-> c, source |-> "historical_pattern", confidence |-> 90])
    BY <1>11 DEF DecideByHistory, Habitual
  <2>2. [category |-> c, source |-> "historical_pattern", confidence |-> 90] \in DecisionType
    BY DEF DecisionType
  <2>. QED  BY <2>1, <2>2, DecideKeeps
<1>12. CASE DecideByModel
  <2>1. PICK c \in Categories, score \in Scores :
          Decide([category |-> c, source |-> "ai_model", confidence |-> Capped(score)])
    BY <1>12 DEF DecideByModel
  <2>2. score \in 0 .. 100
    BY ReviewAssumption
  <2>3. Capped(score) \in 0 .. 100 /\ Capped(score) <= 92
    BY <2>2 DEF Capped, Least
  <2>4. [category |-> c, source |-> "ai_model", confidence |-> Capped(score)] \in DecisionType
    BY <2>3 DEF DecisionType
  <2>. QED  BY <2>1, <2>3, <2>4, DecideKeeps
<1>13. CASE DecideNothing
  <2>1. /\ cascade.stage = "deciding" /\ cascade.todo # <<>>
        /\ cascade' = [cascade EXCEPT !.todo = Tail(@)]
        /\ UNCHANGED <<userRequest, rules, clock>>
    BY <1>13 DEF DecideNothing
  <2>2. /\ cascade' \in CascadeType /\ cascade'.decision = cascade.decision
        /\ cascade'.stage = "deciding"
    BY <2>1, EditedRow
  <2>. QED  BY <2>1, <2>2 DEF ReviewWorkInv
<1>14. CASE WriteCategory
  <2>1. /\ \/ cascade' = [cascade EXCEPT !.stage = "deciding", !.todo = Tail(@)]
           \/ cascade' = [NoCascade EXCEPT !.stage = "refused"]
        /\ cascade.todo # <<>> /\ cascade.stage = "decided"
        /\ UNCHANGED <<userRequest, rules, clock>>
    BY <1>14 DEF WriteCategory, ReviewWorkInv
  <2>2. CASE cascade' = [NoCascade EXCEPT !.stage = "refused"]
    BY <2>1, <2>2, NoCascadeIsOne DEF ReviewWorkInv
  <2>3. CASE cascade' = [cascade EXCEPT !.stage = "deciding", !.todo = Tail(@)]
    <3>1. cascade' \in CascadeType /\ cascade'.stage = "deciding"
          /\ cascade'.decision = cascade.decision
      <4>1. cascade'.stage = "deciding"
        BY <2>3 DEF ReviewWorkInv, CascadeType
      <4>. QED  BY <2>1, <2>3, <4>1, EditedRow
    <3>. QED  BY <2>1, <3>1 DEF ReviewWorkInv
  <2>. QED  BY <2>1, <2>2, <2>3
<1>15. CASE CascadeCommit
  BY <1>15, NoCascadeIsOne DEF CascadeCommit, ReviewWorkInv
<1>16. CASE CascadeAbort
  BY <1>16, NoCascadeIsOne DEF CascadeAbort, ReviewWorkInv
<1>17. CASE UNCHANGED reviewVars
  BY <1>17 DEF reviewVars, ReviewWorkInv
<1>. QED
  BY <1>1, <1>2, <1>3, <1>4, <1>5, <1>6, <1>7, <1>8, <1>9, <1>10, <1>11, <1>12, <1>13,
     <1>14, <1>15, <1>16, <1>17
  DEF ReviewNext

-----------------------------------------------------------------------------

\* Nothing has happened to the rows, nor to a request that holds one.
LEMMA RowsStay ==
  ASSUME ReviewInv, UNCHANGED <<rows, draft, holder>>,
         \A q \in UserRequests : userRequest[q].stage = "writing"
                                 => userRequest'[q] = userRequest[q]
  PROVE  ReviewRowsInv' /\ DraftInv'
<1>1. ReviewRowsInv'
  BY DEF ReviewInv, ReviewRowsInv
<1>2. DraftInv'
  BY DEF ReviewInv, DraftInv
<1>. QED  BY <1>1, <1>2

\* A request that begins was new, and so held nothing.
LEMMA NewHoldsNothing ==
  ASSUME ReviewInv, NEW q \in UserRequests, NEW req, userRequest[q].stage = "new",
         userRequest' = [userRequest EXCEPT ![q] = req], UNCHANGED <<rows, draft, holder>>
  PROVE  ReviewRowsInv' /\ DraftInv'
<1>1. userRequest \in [UserRequests -> RequestType]
  BY DEF ReviewInv, ReviewWorkInv
<1>2. \A p \in UserRequests : userRequest[p].stage = "writing"
                              => userRequest'[p] = userRequest[p]
  BY <1>1
<1>. QED  BY <1>2, RowsStay

\* Every step keeps the rows and the drafts of those who hold them.
LEMMA RowsKept == ReviewInv /\ [ReviewNext]_reviewVars => ReviewRowsInv' /\ DraftInv'
<1>. SUFFICES ASSUME ReviewInv, [ReviewNext]_reviewVars PROVE ReviewRowsInv' /\ DraftInv'
  OBVIOUS
<1>0. /\ Ai \notin UserRequests /\ Nobody \notin UserRequests /\ Ai # Nobody
      /\ userRequest \in [UserRequests -> RequestType]
      /\ ReviewRowsInv /\ DraftInv
  BY ReviewAssumption DEF Ai, Nobody, ReviewInv, ReviewWorkInv
<1>1. ASSUME NEW q \in UserRequests, BeginCorrect(q) PROVE ReviewRowsInv' /\ DraftInv'
  BY <1>1, NewHoldsNothing DEF BeginCorrect
<1>2. ASSUME NEW q \in UserRequests, BeginApprove(q) PROVE ReviewRowsInv' /\ DraftInv'
  BY <1>2, NewHoldsNothing DEF BeginApprove
<1>3. ASSUME NEW q \in UserRequests, BeginSimilar(q) PROVE ReviewRowsInv' /\ DraftInv'
  BY <1>3, NewHoldsNothing DEF BeginSimilar
<1>4. ASSUME NEW q \in UserRequests, Edit(q) PROVE ReviewRowsInv' /\ DraftInv'
  <2>1. PICK r \in userRequest[q].targets :
          /\ Free(q, r)
          /\ holder' = [holder EXCEPT ![r] = q]
          /\ draft' = [draft EXCEPT ![r] = Edited(rows[r], userRequest[q])]
          /\ userRequest' = [userRequest EXCEPT ![q].targets = @ \ {r}]
          /\ rows' = rows
    BY <1>4 DEF Edit
  <2>2. r \in ReviewRows /\ userRequest[q] \in RequestType /\ userRequest[q].stage = "writing"
    BY <1>0, <1>4 DEF RequestType, Edit
  <2>3. userRequest[q].op # "none"
        /\ (userRequest[q].op = "similar" => userRequest[q].category \in Categories)
    BY <2>2 DEF ReviewInv, ReviewWorkInv
  <2>4. Sound(Edited(rows[r], userRequest[q]))
    BY <1>0, <2>2, <2>3, EditKeeps DEF ReviewRowsInv
  <2>5. ReviewRowsInv'
    BY <1>0, <2>1, <2>2, <2>4 DEF ReviewRowsInv, Sound
  <2>6. /\ \A p \in UserRequests : p # q => userRequest'[p] = userRequest[p]
        /\ userRequest'[q] \in RequestType /\ userRequest'[q].op = userRequest[q].op
        /\ userRequest'[q].category = userRequest[q].category
        /\ userRequest'[q].figure = userRequest[q].figure
        /\ userRequest'[q].verify = userRequest[q].verify
        /\ userRequest'[q].stage = userRequest[q].stage
    BY <1>0, <2>1, <2>2 DEF RequestType
  <2>7. \A s \in ReviewRows : Edited(rows[s], userRequest'[q]) = Edited(rows[s], userRequest[q])
    BY <2>2, <2>6, EditReads
  <2>8. ASSUME NEW s \in ReviewRows, holder'[s] \in UserRequests
        PROVE  /\ userRequest'[holder'[s]].stage = "writing"
               /\ draft'[s] = Edited(rows'[s], userRequest'[holder'[s]])
    <3>1. CASE s = r
      BY <1>0, <2>1, <2>2, <2>6, <2>7, <3>1 DEF ReviewRowsInv
    <3>2. CASE s # r
      <4>1. holder'[s] = holder[s] /\ draft'[s] = draft[s] /\ rows'[s] = rows[s]
        BY <1>0, <2>1, <3>2 DEF ReviewRowsInv
      <4>2. CASE holder[s] = q
        BY <1>0, <2>6, <2>7, <2>8, <4>1, <4>2 DEF DraftInv
      <4>3. CASE holder[s] # q
        BY <1>0, <2>6, <2>8, <4>1, <4>3 DEF DraftInv
      <4>. QED  BY <4>2, <4>3
    <3>. QED  BY <3>1, <3>2
  <2>9. ASSUME NEW s \in ReviewRows, holder'[s] = Ai
        PROVE  ~ rows'[s].verified /\ ~ draft'[s].verified /\ Sound(draft'[s])
    <3>1. s # r /\ holder[s] = Ai /\ draft'[s] = draft[s] /\ rows'[s] = rows[s]
      BY <1>0, <2>1, <2>2, <2>9 DEF ReviewRowsInv
    <3>. QED  BY <1>0, <3>1 DEF DraftInv
  <2>10. DraftInv'
    BY <2>8, <2>9 DEF DraftInv, Sound
  <2>. QED  BY <2>5, <2>10
<1>5. ASSUME NEW q \in UserRequests, CommitRequest(q) PROVE ReviewRowsInv' /\ DraftInv'
  <2>1. Settle(q) /\ userRequest' = [userRequest EXCEPT ![q] = [NoRequest EXCEPT !.stage = "done"]]
    BY <1>5 DEF CommitRequest
  <2>2. \A r \in ReviewRows : holder[r] = q => Sound(draft[r])
    BY <1>0, DraftIsSound
  <2>3. /\ ReviewRowsInv'
        /\ \A r \in ReviewRows : holder[r] = q => holder'[r] = Nobody
        /\ \A r \in ReviewRows : holder[r] # q => /\ rows'[r] = rows[r] /\ holder'[r] = holder[r]
                                                  /\ draft'[r] = draft[r]
    BY <1>0, <2>1, <2>2, SettleKeeps
  <2>4. \A p \in UserRequests : p # q => userRequest'[p] = userRequest[p]
    BY <1>0, <2>1
  <2>5. DraftInv'
    BY <1>0, <2>3, <2>4 DEF DraftInv
  <2>. QED  BY <2>3, <2>5
<1>6. ASSUME NEW q \in UserRequests, AbortRequest(q) PROVE ReviewRowsInv' /\ DraftInv'
  <2>1. /\ Release(q) /\ rows' = rows
        /\ userRequest' = [userRequest EXCEPT ![q] = [NoRequest EXCEPT !.stage = "done"]]
    BY <1>6 DEF AbortRequest
  <2>2. /\ ReviewRowsInv'
        /\ \A r \in ReviewRows : holder[r] = q => holder'[r] = Nobody
        /\ \A r \in ReviewRows : holder[r] # q => /\ holder'[r] = holder[r]
                                                  /\ draft'[r] = draft[r]
    BY <1>0, <2>1, ReleaseKeeps
  <2>3. \A p \in UserRequests : p # q => userRequest'[p] = userRequest[p]
    BY <1>0, <2>1
  <2>4. DraftInv'
    BY <1>0, <2>1, <2>2, <2>3 DEF DraftInv
  <2>. QED  BY <2>2, <2>4
<1>7. ASSUME NEW q \in UserRequests, CreateRule(q) PROVE ReviewRowsInv' /\ DraftInv'
  BY <1>7, NewHoldsNothing DEF CreateRule
<1>8. ASSUME NEW q \in UserRequests, DropRule(q) PROVE ReviewRowsInv' /\ DraftInv'
  BY <1>8, NewHoldsNothing DEF DropRule
<1>9. CASE CascadeStart \/ DecideByRule \/ DecideByHistory \/ DecideByModel \/ DecideNothing
           \/ UNCHANGED reviewVars
  <2>1. UNCHANGED <<rows, draft, holder, userRequest>>
    BY <1>9 DEF CascadeStart, DecideByRule, DecideByHistory, DecideByModel, DecideNothing,
                Decide, reviewVars
  <2>. QED  BY <2>1, RowsStay
<1>10. CASE WriteCategory
  <2>. DEFINE r == Head(cascade.todo)
              now == Seen(Ai, r)
  <2>1. cascade.todo # <<>> /\ cascade.todo \in Seq(ReviewRows)
        /\ cascade.decision \in DecisionType /\ cascade.decision.source # "none"
        /\ (cascade.decision.source = "ai_model" => cascade.decision.confidence <= 92)
    BY <1>10 DEF WriteCategory, ReviewInv, ReviewWorkInv, CascadeType
  <2>2. r \in ReviewRows /\ Free(Ai, r) /\ userRequest' = userRequest /\ rows' = rows
    BY <1>10, <2>1 DEF WriteCategory
  <2>3. CASE UNCHANGED <<draft, holder>>
    BY <2>2, <2>3, RowsStay
  <2>4. CASE Release(Ai)
    <3>1. /\ ReviewRowsInv'
          /\ \A s \in ReviewRows : holder[s] = Ai => holder'[s] = Nobody
          /\ \A s \in ReviewRows : holder[s] # Ai => /\ holder'[s] = holder[s]
                                                     /\ draft'[s] = draft[s]
      BY <1>0, <2>2, <2>4, ReleaseKeeps
    <3>2. DraftInv'
      BY <1>0, <2>2, <3>1 DEF DraftInv
    <3>. QED  BY <3>1, <3>2
  <2>5. CASE /\ ~ now.verified
             /\ draft' = [draft EXCEPT ![r] = Categorised(now, r, cascade.decision)]
             /\ holder' = [holder EXCEPT ![r] = Ai]
    <3>1. Sound(now) /\ ~ rows[r].verified
      BY <1>0, <2>2, <2>5 DEF Seen, Free, ReviewRowsInv, DraftInv
    <3>2. /\ Sound(Categorised(now, r, cascade.decision))
          /\ ~ Categorised(now, r, cascade.decision).verified
      BY <2>1, <2>2, <2>5, <3>1, CategorisedIsSound
    <3>. HIDE DEF r, now
    <3>3. /\ draft'[r] = Categorised(now, r, cascade.decision) /\ holder'[r] = Ai
          /\ \A s \in ReviewRows : s # r => draft'[s] = draft[s] /\ holder'[s] = holder[s]
      BY <1>0, <2>2, <2>5 DEF ReviewRowsInv
    <3>4. ReviewRowsInv'
      BY <1>0, <2>2, <2>5, <3>2 DEF ReviewRowsInv, Sound
    <3>5. DraftInv'
      BY <1>0, <2>2, <3>1, <3>2, <3>3 DEF DraftInv
    <3>. QED  BY <3>4, <3>5
  <2>. QED  BY <1>10, <2>3, <2>4, <2>5 DEF WriteCategory, MayWrite, TriggerRefuses
<1>11. CASE CascadeCommit
  <2>1. Settle(Ai) /\ userRequest' = userRequest
    BY <1>11 DEF CascadeCommit
  <2>2. \A r \in ReviewRows : holder[r] = Ai => Sound(draft[r])
    BY <1>0 DEF DraftInv
  <2>3. /\ ReviewRowsInv'
        /\ \A r \in ReviewRows : holder[r] = Ai => holder'[r] = Nobody
        /\ \A r \in ReviewRows : holder[r] # Ai => /\ rows'[r] = rows[r] /\ holder'[r] = holder[r]
                                                   /\ draft'[r] = draft[r]
    BY <1>0, <2>1, <2>2, SettleKeeps
  <2>4. DraftInv'
    BY <1>0, <2>1, <2>3 DEF DraftInv
  <2>. QED  BY <2>3, <2>4
<1>12. CASE CascadeAbort
  <2>1. Release(Ai) /\ userRequest' = userRequest /\ rows' = rows
    BY <1>12 DEF CascadeAbort
  <2>2. /\ ReviewRowsInv'
        /\ \A r \in ReviewRows : holder[r] = Ai => holder'[r] = Nobody
        /\ \A r \in ReviewRows : holder[r] # Ai => /\ holder'[r] = holder[r]
                                                   /\ draft'[r] = draft[r]
    BY <1>0, <2>1, ReleaseKeeps
  <2>3. DraftInv'
    BY <1>0, <2>1, <2>2 DEF DraftInv
  <2>. QED  BY <2>2, <2>3
<1>. QED
  BY <1>1, <1>2, <1>3, <1>4, <1>5, <1>6, <1>7, <1>8, <1>9, <1>10, <1>11, <1>12
  DEF ReviewNext

\* The invariant of the review holds in every behaviour.
LEMMA AlwaysReview == ReviewSpec => []ReviewInv
<1>1. ReviewInit => ReviewInv
  BY ReviewStart
<1>2. ReviewInv /\ [ReviewNext]_reviewVars => ReviewInv'
  BY ReviewWorkKept, RowsKept DEF ReviewInv
<1>. QED  BY <1>1, <1>2, PTL DEF ReviewSpec

-----------------------------------------------------------------------------

\* The rows keep their types, and verified means out of the review queue.
THEOREM ReviewTypeCorrect == ReviewSpec => []ReviewTypeOK
<1>1. ReviewInv => ReviewTypeOK
  BY DEF ReviewInv, ReviewRowsInv, Sound, ReviewTypeOK
<1>. QED  BY <1>1, AlwaysReview, PTL

\* However sure of itself, the model's word takes no row out of the queue.
THEOREM ModelNeverApproves == ReviewSpec => []AiNeverApprovesItself
<1>1. ReviewInv => AiNeverApprovesItself
  BY DEF ReviewInv, ReviewRowsInv, Sound, AiNeverApprovesItself
<1>. QED  BY <1>1, AlwaysReview, PTL

\* Only a commit of the user's own correction of the row changes what a person
\* has verified, however the requests and the cascades interleave.
THEOREM VerifiedIsTheUsers == ReviewSpec => HumanDecisionStands
<1>. DEFINE Stands ==
       \A r \in ReviewRows :
         rows[r].verified =>
             /\ rows'[r].verified
             /\ \/ rows'[r].category = rows[r].category
                \/ \E q \in UserRequests : holder[r] = q /\ userRequest[q].op = "correct"
<1>1. ReviewInv /\ [ReviewNext]_reviewVars => [Stands]_reviewVars
  <2>. SUFFICES ASSUME ReviewInv, ReviewNext, NEW r \in ReviewRows, rows[r].verified
                PROVE  /\ rows'[r].verified
                       /\ \/ rows'[r].category = rows[r].category
                          \/ \E q \in UserRequests :
                               holder[r] = q /\ userRequest[q].op = "correct"
    OBVIOUS
  <2>0. ReviewRowsInv /\ DraftInv
    BY DEF ReviewInv
  <2>1. CASE rows' = rows
    BY <2>1
  <2>2. ASSUME NEW q \in UserRequests, CommitRequest(q)
        PROVE  /\ rows'[r].verified
               /\ rows'[r].category = rows[r].category
                  \/ (holder[r] = q /\ userRequest[q].op = "correct")
    <3>1. CASE holder[r] # q
      BY <2>0, <2>2, <3>1 DEF CommitRequest, Settle
    <3>2. CASE holder[r] = q
      <4>1. rows'[r] = draft[r]
        BY <2>0, <2>2, <3>2 DEF CommitRequest, Settle
      <4>2. /\ draft[r] = Edited(rows[r], userRequest[q]) /\ Sound(rows[r])
            /\ userRequest[q] \in RequestType /\ userRequest[q].op # "none"
            /\ userRequest[q].op = "similar" => userRequest[q].category \in Categories
        BY <2>0, <3>2 DEF DraftInv, ReviewRowsInv, ReviewInv, ReviewWorkInv
      <4>. QED  BY <3>2, <4>1, <4>2, EditKeeps
    <3>. QED  BY <3>1, <3>2
  <2>3. CASE CascadeCommit
    <3>1. holder[r] # Ai
      BY <2>0 DEF DraftInv
    <3>. QED  BY <2>3, <3>1 DEF CascadeCommit, Settle
  <2>4. ReviewNext => \/ rows' = rows \/ CascadeCommit
                      \/ \E q \in UserRequests : CommitRequest(q)
    BY DEF ReviewNext, BeginCorrect, BeginApprove, BeginSimilar, Edit, AbortRequest,
           CreateRule, DropRule, CascadeStart, DecideByRule, DecideByHistory, DecideByModel,
           Decide, DecideNothing, WriteCategory, CascadeAbort
  <2>. QED  BY <2>1, <2>2, <2>3, <2>4
<1>. QED  BY <1>1, AlwaysReview, PTL DEF ReviewSpec, HumanDecisionStands

-----------------------------------------------------------------------------
(* The audit trail *)

AuditRow == [row : ReviewRows, old : Figures \cup {Original}, new : Figures \cup {Original},
             at : Nat, ended : Nat]

\* A correction is of one row, and nothing else sets a figure.
CorrectInv ==
    \A q \in UserRequests : userRequest[q].stage = "writing" =>
        /\ userRequest[q].op # "correct" => userRequest[q].figure = Unchanged
        /\ userRequest[q].op = "correct" =>
             \A r, s \in userRequest[q].targets \cup HeldBy(q) : r = s

\* The cascade leaves the figures alone.
AiInv == \A r \in ReviewRows : holder[r] = Ai => draft[r].figure = rows[r].figure

LastInv ==
    \A r \in ReviewRows :
        AuditOf(r) # {} => /\ Max(AuditOf(r)) \in AuditOf(r)
                           /\ \A m \in AuditOf(r) : m <= Max(AuditOf(r))

\* What the audit row that was committed last says: the figures are written in
\* the order of the commits, whatever the stamps say.
WrittenSays(r) == IF AuditOf(r) = {} THEN Original ELSE trail[Max(AuditOf(r))].new

RowsAsWritten == \A r \in ReviewRows : rows[r].figure = WrittenSays(r)

\* A request began before now, and so did what the trail says of it.
StampInv ==
    /\ \A q \in UserRequests :
           userRequest[q].stage = "writing" => userRequest[q].created < clock
    /\ \A n \in DOMAIN trail : trail[n].at < trail[n].ended

TrailInv ==
    /\ trail \in Seq(AuditRow)
    /\ CorrectInv /\ AiInv /\ LastInv /\ RowsAsWritten

\* The greatest element of a set is its maximum.
LEMMA MaxIsGreatest ==
  ASSUME NEW S, S \subseteq Nat, NEW x \in S, \A y \in S : y <= x
  PROVE  Max(S) = x
<1>1. \A z \in S : (\A y \in S : z >= y) => z = x
  OBVIOUS
<1>2. x \in S /\ \A y \in S : x >= y
  OBVIOUS
<1>. QED  BY <1>1, <1>2 DEF Max

\* An audit row added is the last of its row, and of no other.
LEMMA TrailGrows ==
  ASSUME trail \in Seq(AuditRow), LastInv, NEW a \in AuditRow, trail' = Append(trail, a)
  PROVE  /\ trail' \in Seq(AuditRow) /\ LastInv'
         /\ \A r \in ReviewRows :
               WrittenSays(r)' = IF a.row = r THEN a.new ELSE WrittenSays(r)
<1>. DEFINE n == Len(trail) + 1
<1>1. /\ trail' \in Seq(AuditRow) /\ Len(trail) \in Nat /\ DOMAIN trail = 1 .. Len(trail)
      /\ DOMAIN trail' = 1 .. n /\ trail'[n] = a
      /\ \A m \in DOMAIN trail : trail'[m] = trail[m]
  OBVIOUS
<1>2. n \in Nat /\ n \notin DOMAIN trail /\ DOMAIN trail' = DOMAIN trail \cup {n}
      /\ \A m \in DOMAIN trail : m \in Nat /\ m <= n
  BY <1>1
<1>. HIDE DEF n
<1>3. ASSUME NEW r \in ReviewRows, a.row = r
      PROVE  /\ AuditOf(r)' # {} /\ Max(AuditOf(r)') = n /\ n \in AuditOf(r)'
             /\ \A m \in AuditOf(r)' : m <= n
  <2>1. AuditOf(r)' = AuditOf(r) \cup {n}
    BY <1>1, <1>2, <1>3 DEF AuditOf
  <2>2. \A m \in AuditOf(r)' : m \in Nat /\ m <= n
    BY <1>2, <2>1 DEF AuditOf
  <2>3. n \in AuditOf(r)'
    BY <2>1
  <2>4. Max(AuditOf(r)') = n
    BY <2>2, <2>3, MaxIsGreatest
  <2>. QED  BY <2>2, <2>3, <2>4
<1>4. ASSUME NEW r \in ReviewRows, a.row # r
      PROVE  /\ AuditOf(r)' = AuditOf(r)
             /\ AuditOf(r) # {} => trail'[Max(AuditOf(r))] = trail[Max(AuditOf(r))]
  <2>1. AuditOf(r)' = AuditOf(r)
    BY <1>1, <1>2, <1>4 DEF AuditOf
  <2>2. AuditOf(r) # {} => Max(AuditOf(r)) \in DOMAIN trail
    BY DEF LastInv, AuditOf
  <2>. QED  BY <1>1, <2>1, <2>2
<1>5. ASSUME NEW r \in ReviewRows
      PROVE  /\ AuditOf(r)' # {} => /\ Max(AuditOf(r)') \in AuditOf(r)'
                                    /\ \A m \in AuditOf(r)' : m <= Max(AuditOf(r)')
             /\ WrittenSays(r)' = IF a.row = r THEN a.new ELSE WrittenSays(r)
  <2>1. CASE a.row = r
    BY <1>1, <1>3, <2>1 DEF WrittenSays
  <2>2. CASE a.row # r
    BY <1>4, <2>2 DEF WrittenSays, LastInv
  <2>. QED  BY <2>1, <2>2
<1>. QED  BY <1>1, <1>5 DEF LastInv

\* No audit row, and one audit row, as a sequence.
LEMMA FewRowsAsSeq == SetToSeq({}) = <<>> /\ \A a : SetToSeq({a}) = <<a>>
<1>1. \A f \in [1 .. 0 -> {}] : f = <<>>
  OBVIOUS
<1>2. <<>> \in [1 .. 0 -> {}] /\ IsInjective(<<>>)
  BY DEF IsInjective
<1>3. SetToSeq({}) = <<>>
  BY <1>1, <1>2, FS_EmptySet DEF SetToSeq
<1>4. ASSUME NEW a PROVE SetToSeq({a}) = <<a>>
  <2>1. Cardinality({a}) = 1
    BY FS_Singleton
  <2>2. \A f \in [1 .. 1 -> {a}] : f = <<a>>
    OBVIOUS
  <2>3. <<a>> \in [1 .. 1 -> {a}] /\ IsInjective(<<a>>)
    BY DEF IsInjective
  <2>. QED  BY <2>1, <2>2, <2>3 DEF SetToSeq
<1>. QED  BY <1>3, <1>4

\* At the start there is no audit, and every figure is the document's.
LEMMA TrailStart == ReviewInit => TrailInv
<1>. SUFFICES ASSUME ReviewInit PROVE TrailInv
  OBVIOUS
<1>1. \A r \in ReviewRows : AuditOf(r) = {} /\ rows[r].figure = Original
  BY DEF ReviewInit, AuditOf
<1>2. \A r \in ReviewRows : holder[r] # Ai
  BY DEF ReviewInit, Ai, Nobody
<1>3. CorrectInv
  BY DEF ReviewInit, CorrectInv, NoRequest
<1>4. trail \in Seq(AuditRow)
  BY DEF ReviewInit
<1>. QED  BY <1>1, <1>2, <1>3, <1>4 DEF TrailInv, AiInv, LastInv, RowsAsWritten, WrittenSays

\* A request that begins held nothing.
LEMMA BegunKeepsTrail ==
  ASSUME ReviewInv, TrailInv, NEW q \in UserRequests, userRequest[q].stage = "new", NEW req,
         userRequest' = [userRequest EXCEPT ![q] = req],
         UNCHANGED <<rows, draft, holder, trail>>,
         req.stage = "writing" =>
             /\ req.op # "correct" => req.figure = Unchanged
             /\ req.op = "correct" => \A r, s \in req.targets : r = s
  PROVE  TrailInv'
<1>1. HeldBy(q) = {}
  BY DEF ReviewInv, DraftInv, HeldBy
<1>2. /\ \A p \in UserRequests : p # q => userRequest'[p] = userRequest[p]
      /\ userRequest'[q] = req
  BY DEF ReviewInv, ReviewWorkInv
<1>3. \A p : HeldBy(p)' = HeldBy(p)
  BY DEF HeldBy
<1>4. CorrectInv'
  BY <1>1, <1>2, <1>3 DEF TrailInv, CorrectInv
<1>5. AiInv'
  BY DEF TrailInv, AiInv
<1>6. \A r : AuditOf(r)' = AuditOf(r)
  BY DEF AuditOf
<1>7. LastInv'
  BY <1>6 DEF TrailInv, LastInv
<1>8. \A r : WrittenSays(r)' = WrittenSays(r)
  BY <1>6 DEF WrittenSays
<1>9. RowsAsWritten'
  BY <1>8 DEF TrailInv, RowsAsWritten
<1>. QED  BY <1>4, <1>5, <1>7, <1>9 DEF TrailInv

\* The rows given up leave the figures of the others' drafts alone.
LEMMA ReleasedKeepsTrail ==
  ASSUME ReviewInv, TrailInv, NEW p \in UserRequests \cup {Ai}, Release(p),
         UNCHANGED <<rows, trail>>,
         \A q \in UserRequests : \/ userRequest'[q].stage # "writing"
                                 \/ userRequest'[q] = userRequest[q]
  PROVE  TrailInv'
<1>1. /\ \A r \in ReviewRows : holder[r] = p => holder'[r] = Nobody
      /\ \A r \in ReviewRows : holder[r] # p => /\ holder'[r] = holder[r]
                                                /\ draft'[r] = draft[r]
  BY ReleaseKeeps DEF ReviewInv
<1>2. Nobody \notin UserRequests \cup {Ai}
  BY ReviewAssumption DEF Nobody, Ai
<1>3. \A q \in UserRequests : HeldBy(q)' \subseteq HeldBy(q)
  BY <1>1, <1>2 DEF HeldBy
<1>4. CorrectInv'
  BY <1>3 DEF TrailInv, CorrectInv
<1>5. AiInv'
  BY <1>1, <1>2 DEF TrailInv, AiInv
<1>6. \A r : AuditOf(r)' = AuditOf(r)
  BY DEF AuditOf
<1>7. LastInv'
  BY <1>6 DEF TrailInv, LastInv
<1>8. \A r : WrittenSays(r)' = WrittenSays(r)
  BY <1>6 DEF WrittenSays
<1>9. RowsAsWritten'
  BY <1>8 DEF TrailInv, RowsAsWritten
<1>. QED  BY <1>4, <1>5, <1>7, <1>9 DEF TrailInv

\* What an edit makes of the figure.
LEMMA EditedFigure ==
  ASSUME NEW row \in RowType, NEW req \in RequestType, req.op # "none"
  PROVE  /\ req.figure = Unchanged => Edited(row, req).figure = row.figure
         /\ req.figure # Unchanged /\ req.op = "correct" => Edited(row, req).figure = req.figure
<1>1. CASE req.op = "correct"
  <2>1. Edited(row, req) = Corrected(row, req)
    BY <1>1 DEF Edited
  <2>. QED  BY <1>1, <2>1 DEF Corrected, RowType
<1>2. CASE req.op = "approve"
  <2>1. Edited(row, req) = Approved(row)
    BY <1>2 DEF Edited
  <2>. QED  BY <1>2, <2>1 DEF Approved, RowType
<1>3. CASE req.op = "similar"
  <2>1. Edited(row, req) = Retagged(row, req.category)
    BY <1>3 DEF Edited
  <2>. QED  BY <1>3, <2>1 DEF Retagged, RowType
<1>. QED  BY <1>1, <1>2, <1>3 DEF RequestType

\* A commit adds to the trail what the request has audited, if anything.
LEMMA CommitWrites ==
  ASSUME ReviewInv, TrailInv, NEW q \in UserRequests, CommitRequest(q)
  PROVE  \A n \in DOMAIN trail' :
            \/ n \in DOMAIN trail /\ trail'[n] = trail[n]
            \/ trail'[n].at = userRequest[q].created /\ trail'[n].ended = clock
<1>1. trail' = trail \o SetToSeq(AuditRows(q)) /\ trail \in Seq(AuditRow)
  BY DEF CommitRequest, TrailInv
<1>2. CASE AuditRows(q) = {}
  BY <1>1, <1>2, FewRowsAsSeq
<1>3. CASE AuditRows(q) # {}
  <2>1. userRequest[q].figure # Unchanged /\ userRequest[q].op = "correct"
    BY <1>3 DEF AuditRows, TrailInv, CorrectInv, CommitRequest
  <2>2. PICK r \in HeldBy(q) : HeldBy(q) = {r}
    BY <1>3, <2>1 DEF AuditRows, TrailInv, CorrectInv, CommitRequest, HeldBy
  <2>. DEFINE a == [row |-> r, old |-> userRequest[q].read, new |-> userRequest[q].figure,
                    at |-> userRequest[q].created, ended |-> clock]
  <2>3. AuditRows(q) = {a}
    BY <2>1, <2>2 DEF AuditRows
  <2>4. a.at = userRequest[q].created /\ a.ended = clock
    OBVIOUS
  <2>. HIDE DEF a
  <2>5. trail' = trail \o <<a>>
    BY <1>1, <2>3, FewRowsAsSeq
  <2>. QED  BY <1>1, <2>4, <2>5
<1>. QED  BY <1>2, <1>3

\* A commit writes for each figure it changes what it makes of it.
LEMMA CommitKeepsTrail ==
  ASSUME ReviewInv, TrailInv, NEW q \in UserRequests, CommitRequest(q)
  PROVE  TrailInv'
<1>. DEFINE req == userRequest[q]
<1>1. /\ req.stage = "writing" /\ req.targets = {} /\ Settle(q)
      /\ trail' = trail \o SetToSeq(AuditRows(q))
      /\ userRequest' = [userRequest EXCEPT ![q] = [NoRequest EXCEPT !.stage = "done"]]
  BY DEF CommitRequest
<1>2. \A r \in ReviewRows : holder[r] = q => Sound(draft[r])
  BY DraftIsSound, ReviewAssumption DEF Nobody
<1>3. /\ \A r \in ReviewRows : holder[r] = q => rows'[r] = draft[r] /\ holder'[r] = Nobody
      /\ \A r \in ReviewRows : holder[r] # q => /\ rows'[r] = rows[r]
                                                /\ holder'[r] = holder[r]
                                                /\ draft'[r] = draft[r]
  BY <1>1, <1>2, SettleKeeps DEF ReviewInv
<1>4. /\ req \in RequestType /\ req.op # "none"
      /\ req.op # "correct" => req.figure = Unchanged
      /\ \A r \in ReviewRows : holder[r] = q => draft[r] = Edited(rows[r], req)
      /\ \A r \in ReviewRows : rows[r] \in RowType
  BY <1>1 DEF ReviewInv, ReviewWorkInv, DraftInv, ReviewRowsInv, TrailInv, CorrectInv
<1>5. /\ Nobody \notin UserRequests \cup {Ai} /\ q # Ai
  BY ReviewAssumption DEF Nobody, Ai
<1>6. CorrectInv'
  <2>1. /\ userRequest'[q].stage = "done"
        /\ \A p \in UserRequests : p # q => userRequest'[p] = userRequest[p]
    BY <1>1 DEF ReviewInv, ReviewWorkInv, NoRequest
  <2>2. \A p \in UserRequests : HeldBy(p)' \subseteq HeldBy(p)
    BY <1>3, <1>5 DEF HeldBy
  <2>. QED  BY <2>1, <2>2 DEF TrailInv, CorrectInv
<1>7. AiInv'
  BY <1>3, <1>5 DEF TrailInv, AiInv
<1>8. CASE AuditRows(q) = {} /\ req.figure = Unchanged
  <2>1. trail' = trail
    BY <1>1, <1>8, FewRowsAsSeq DEF TrailInv
  <2>2. \A r \in ReviewRows : rows'[r].figure = rows[r].figure
    BY <1>3, <1>4, <1>8, EditedFigure
  <2>3. LastInv' /\ RowsAsWritten'
    BY <2>1, <2>2 DEF TrailInv, LastInv, RowsAsWritten, WrittenSays, AuditOf
  <2>. QED  BY <1>6, <1>7, <2>1, <2>3 DEF TrailInv
<1>9. CASE AuditRows(q) = {} /\ req.figure # Unchanged
  <2>1. trail' = trail
    BY <1>1, <1>9, FewRowsAsSeq DEF TrailInv
  <2>2. HeldBy(q) = {}
    BY <1>9 DEF AuditRows
  <2>3. \A r \in ReviewRows : rows'[r].figure = rows[r].figure
    BY <1>3, <2>2 DEF HeldBy
  <2>4. LastInv' /\ RowsAsWritten'
    BY <2>1, <2>3 DEF TrailInv, LastInv, RowsAsWritten, WrittenSays, AuditOf
  <2>. QED  BY <1>6, <1>7, <2>1, <2>4 DEF TrailInv
<1>10. CASE AuditRows(q) # {}
  <2>1. req.figure # Unchanged /\ req.op = "correct"
    BY <1>4, <1>10 DEF AuditRows
  <2>2. PICK r \in HeldBy(q) : TRUE
    BY <1>10, <2>1 DEF AuditRows
  <2>3. r \in ReviewRows /\ holder[r] = q /\ HeldBy(q) = {r}
    BY <1>1, <2>1, <2>2 DEF TrailInv, CorrectInv, HeldBy
  <2>. DEFINE a == [row |-> r, old |-> req.read, new |-> req.figure, at |-> req.created,
                    ended |-> clock]
  <2>4. AuditRows(q) = {a}
    BY <2>1, <2>3 DEF AuditRows
  <2>5. a \in AuditRow /\ a.row = r /\ a.new = req.figure
    BY <1>4, <2>1, <2>3 DEF AuditRow, RequestType, ReviewInv, ReviewWorkInv
  <2>. HIDE DEF a
  <2>6. trail' = Append(trail, a)
    <3>1. SetToSeq(AuditRows(q)) = <<a>>
      BY <2>4, FewRowsAsSeq
    <3>. QED  BY <1>1, <2>5, <3>1 DEF TrailInv
  <2>7. /\ trail' \in Seq(AuditRow) /\ LastInv'
        /\ \A s \in ReviewRows : WrittenSays(s)' = IF s = r THEN req.figure ELSE WrittenSays(s)
    BY <2>5, <2>6, TrailGrows DEF TrailInv
  <2>8. rows'[r].figure = req.figure
    BY <1>3, <1>4, <2>1, <2>3, EditedFigure
  <2>9. \A s \in ReviewRows : s # r => rows'[s].figure = rows[s].figure
    BY <1>3, <2>3 DEF HeldBy
  <2>10. RowsAsWritten'
    BY <2>7, <2>8, <2>9 DEF TrailInv, RowsAsWritten
  <2>. QED  BY <1>6, <1>7, <2>7, <2>10 DEF TrailInv
<1>. QED  BY <1>8, <1>9, <1>10

\* What is held changes, and the figures of what the cascade holds do not.
LEMMA HeldKeepsTrail ==
  ASSUME TrailInv, UNCHANGED <<rows, trail>>, CorrectInv', AiInv'
  PROVE  TrailInv'
<1>1. LastInv' /\ RowsAsWritten'
  BY DEF TrailInv, LastInv, RowsAsWritten, WrittenSays, AuditOf
<1>. QED  BY <1>1 DEF TrailInv

\* Every step keeps the trail.
LEMMA TrailStep == ReviewInv /\ TrailInv /\ [ReviewNext]_reviewVars => TrailInv'
<1>. SUFFICES ASSUME ReviewInv, TrailInv, [ReviewNext]_reviewVars PROVE TrailInv'
  OBVIOUS
<1>0. /\ Ai \notin UserRequests /\ Nobody \notin UserRequests /\ Ai # Nobody
      /\ userRequest \in [UserRequests -> RequestType]
      /\ holder \in [ReviewRows -> UserRequests \cup {Ai, Nobody}]
      /\ draft \in [ReviewRows -> RowType] /\ rows \in [ReviewRows -> RowType]
      /\ CorrectInv /\ AiInv
  BY ReviewAssumption DEF Ai, Nobody, ReviewInv, ReviewWorkInv, ReviewRowsInv, TrailInv
<1>1. ASSUME NEW q \in UserRequests, BeginCorrect(q) PROVE TrailInv'
  <2>1. PICK r \in ReviewRows, c \in Categories \cup {Unchanged},
             f \in Figures \cup {Original, Unchanged}, v \in BOOLEAN :
          userRequest' = [userRequest EXCEPT ![q] =
                            [op |-> "correct", stage |-> "writing",
                             targets |-> {r}, category |-> c, figure |-> f,
                             verify |-> v, read |-> rows[r].figure,
                             created |-> clock]]
    BY <1>1 DEF BeginCorrect
  <2>2. userRequest[q].stage = "new" /\ UNCHANGED <<rows, draft, holder, trail>>
    BY <1>1 DEF BeginCorrect
  <2>. QED  BY <2>1, <2>2, BegunKeepsTrail
<1>2. ASSUME NEW q \in UserRequests, BeginApprove(q) PROVE TrailInv'
  <2>1. PICK chosen \in SUBSET ReviewRows :
          userRequest' = [userRequest EXCEPT ![q] =
                            [NoRequest EXCEPT !.op = "approve", !.stage = "writing",
                                              !.targets = chosen, !.verify = TRUE,
                                              !.created = clock]]
    BY <1>2 DEF BeginApprove
  <2>2. userRequest[q].stage = "new" /\ UNCHANGED <<rows, draft, holder, trail>>
    BY <1>2 DEF BeginApprove
  <2>. QED  BY <2>1, <2>2, BegunKeepsTrail DEF NoRequest
<1>3. ASSUME NEW q \in UserRequests, BeginSimilar(q) PROVE TrailInv'
  <2>1. PICK r \in ReviewRows \ Unknown, c \in Categories :
          userRequest' = [userRequest EXCEPT ![q] =
                            [NoRequest EXCEPT
                               !.op = "similar", !.stage = "writing", !.category = c,
                               !.targets = {s \in ReviewRows \ (Unknown \cup {r}) :
                                              ~ rows[s].verified},
                               !.created = clock]]
    BY <1>3 DEF BeginSimilar
  <2>2. userRequest[q].stage = "new" /\ UNCHANGED <<rows, draft, holder, trail>>
    BY <1>3 DEF BeginSimilar
  <2>. QED  BY <2>1, <2>2, BegunKeepsTrail DEF NoRequest
<1>4. ASSUME NEW q \in UserRequests, Edit(q) PROVE TrailInv'
  <2>1. PICK r \in userRequest[q].targets :
          /\ Free(q, r)
          /\ holder' = [holder EXCEPT ![r] = q]
          /\ draft' = [draft EXCEPT ![r] = Edited(rows[r], userRequest[q])]
          /\ userRequest' = [userRequest EXCEPT ![q].targets = @ \ {r}]
          /\ UNCHANGED <<rows, trail>>
    BY <1>4 DEF Edit
  <2>2. r \in ReviewRows
    BY <1>0 DEF RequestType
  <2>3. /\ \A p \in UserRequests : /\ userRequest'[p].stage = userRequest[p].stage
                                   /\ userRequest'[p].op = userRequest[p].op
                                   /\ userRequest'[p].figure = userRequest[p].figure
                                   /\ userRequest'[p].targets \subseteq userRequest[p].targets
        /\ \A p \in UserRequests : p # q => HeldBy(p)' \subseteq HeldBy(p)
        /\ HeldBy(q)' \subseteq HeldBy(q) \cup {r}
    BY <1>0, <2>1, <2>2 DEF RequestType, HeldBy
  <2>4. CorrectInv'
    BY <1>0, <2>1, <2>3 DEF CorrectInv
  <2>5. AiInv'
    BY <1>0, <2>1, <2>2 DEF AiInv
  <2>. QED  BY <2>1, <2>4, <2>5, HeldKeepsTrail
<1>5. ASSUME NEW q \in UserRequests, CommitRequest(q) PROVE TrailInv'
  BY <1>5, CommitKeepsTrail
<1>6. ASSUME NEW q \in UserRequests, AbortRequest(q) PROVE TrailInv'
  <2>1. /\ Release(q) /\ UNCHANGED <<rows, trail>>
        /\ userRequest' = [userRequest EXCEPT ![q] = [NoRequest EXCEPT !.stage = "done"]]
    BY <1>6 DEF AbortRequest
  <2>2. [NoRequest EXCEPT !.stage = "done"].stage = "done"
    BY DoneIsRequest
  <2>3. \A p \in UserRequests : \/ userRequest'[p].stage # "writing"
                                \/ userRequest'[p] = userRequest[p]
    BY <1>0, <2>1, <2>2
  <2>. QED  BY <2>1, <2>3, ReleasedKeepsTrail
<1>7. ASSUME NEW q \in UserRequests, CreateRule(q) \/ DropRule(q) PROVE TrailInv'
  <2>1. /\ userRequest[q].stage = "new" /\ UNCHANGED <<rows, draft, holder, trail>>
        /\ userRequest' = [userRequest EXCEPT ![q] = [NoRequest EXCEPT !.stage = "done"]]
    BY <1>7 DEF CreateRule, DropRule
  <2>2. [NoRequest EXCEPT !.stage = "done"].stage = "done"
    BY DoneIsRequest
  <2>. QED  BY <2>1, <2>2, BegunKeepsTrail
<1>8. CASE CascadeStart \/ DecideByRule \/ DecideByHistory \/ DecideByModel \/ DecideNothing
           \/ UNCHANGED reviewVars
  <2>1. UNCHANGED <<rows, draft, holder, userRequest, trail>>
    BY <1>8 DEF CascadeStart, DecideByRule, DecideByHistory, DecideByModel, DecideNothing,
                Decide, reviewVars
  <2>2. CorrectInv' /\ AiInv'
    BY <1>0, <2>1 DEF CorrectInv, AiInv, HeldBy
  <2>. QED  BY <2>1, <2>2, HeldKeepsTrail
<1>9. CASE WriteCategory
  <2>. DEFINE r == Head(cascade.todo)
              now == Seen(Ai, r)
  <2>1. cascade.todo # <<>> /\ cascade.todo \in Seq(ReviewRows)
    BY <1>9 DEF WriteCategory, ReviewInv, ReviewWorkInv, CascadeType
  <2>2. r \in ReviewRows /\ UNCHANGED <<userRequest, rows, trail>>
    BY <1>9, <2>1 DEF WriteCategory
  <2>3. CASE UNCHANGED <<draft, holder>>
    <3>1. CorrectInv' /\ AiInv'
      BY <1>0, <2>2, <2>3 DEF CorrectInv, AiInv, HeldBy
    <3>. QED  BY <2>2, <3>1, HeldKeepsTrail
  <2>4. CASE Release(Ai)
    BY <2>2, <2>4, ReleasedKeepsTrail
  <2>5. CASE /\ Free(Ai, r)
             /\ draft' = [draft EXCEPT ![r] = Categorised(now, r, cascade.decision)]
             /\ holder' = [holder EXCEPT ![r] = Ai]
    <3>1. now \in RowType /\ now.figure = rows[r].figure
      BY <1>0, <2>2 DEF Seen, AiInv
    <3>2. Categorised(now, r, cascade.decision).figure = now.figure
      BY <3>1 DEF Categorised, RowType
    <3>. HIDE DEF r, now
    <3>3. /\ draft'[r] = Categorised(now, r, cascade.decision) /\ holder'[r] = Ai
          /\ \A s \in ReviewRows : s # r => draft'[s] = draft[s] /\ holder'[s] = holder[s]
      BY <1>0, <2>2, <2>5
    <3>4. AiInv'
      BY <1>0, <2>2, <3>1, <3>2, <3>3 DEF AiInv
    <3>5. \A q \in UserRequests : HeldBy(q)' \subseteq HeldBy(q)
      BY <1>0, <3>3 DEF HeldBy
    <3>6. CorrectInv'
      BY <1>0, <2>2, <3>5 DEF CorrectInv
    <3>. QED  BY <2>2, <3>4, <3>6, HeldKeepsTrail
  <2>. QED  BY <1>9, <2>3, <2>4, <2>5 DEF WriteCategory
<1>10. CASE CascadeCommit
  <2>1. Settle(Ai) /\ UNCHANGED <<userRequest, trail>>
    BY <1>10 DEF CascadeCommit
  <2>2. \A r \in ReviewRows : holder[r] = Ai => Sound(draft[r])
    BY DEF ReviewInv, DraftInv
  <2>3. /\ \A r \in ReviewRows : holder[r] = Ai => rows'[r] = draft[r] /\ holder'[r] = Nobody
        /\ \A r \in ReviewRows : holder[r] # Ai => /\ rows'[r] = rows[r]
                                                   /\ holder'[r] = holder[r]
                                                   /\ draft'[r] = draft[r]
    BY <2>1, <2>2, SettleKeeps DEF ReviewInv
  <2>4. \A r \in ReviewRows : rows'[r].figure = rows[r].figure
    BY <1>0, <2>3 DEF AiInv
  <2>5. \A q \in UserRequests : HeldBy(q)' \subseteq HeldBy(q)
    BY <1>0, <2>3 DEF HeldBy
  <2>6. CorrectInv'
    BY <1>0, <2>1, <2>5 DEF CorrectInv
  <2>7. AiInv'
    BY <1>0, <2>3 DEF AiInv
  <2>8. LastInv' /\ RowsAsWritten'
    BY <2>1, <2>4 DEF TrailInv, LastInv, RowsAsWritten, WrittenSays, AuditOf
  <2>. QED  BY <2>1, <2>6, <2>7, <2>8 DEF TrailInv
<1>11. CASE CascadeAbort
  <2>1. Release(Ai) /\ UNCHANGED <<userRequest, rows, trail>>
    BY <1>11 DEF CascadeAbort
  <2>. QED  BY <2>1, ReleasedKeepsTrail
<1>. QED
  BY <1>1, <1>2, <1>3, <1>4, <1>5, <1>6, <1>7, <1>8, <1>9, <1>10, <1>11 DEF ReviewNext

\* A request is stamped when it begins, before it is over.
LEMMA StampsKept ==
  ASSUME ReviewInv, StampInv, clock' \in Nat, clock' >= clock,
         \A q \in UserRequests :
            userRequest'[q].stage = "writing" =>
                \/ userRequest[q].stage = "writing"
                   /\ userRequest'[q].created = userRequest[q].created
                \/ userRequest'[q].created = clock /\ clock' = clock + 1,
         \A n \in DOMAIN trail' :
            \/ n \in DOMAIN trail /\ trail'[n] = trail[n]
            \/ \E q \in UserRequests :
                  /\ userRequest[q].stage = "writing"
                  /\ trail'[n].at = userRequest[q].created /\ trail'[n].ended = clock
  PROVE  StampInv'
<1>1. clock \in Nat /\ \A q \in UserRequests : userRequest[q].created \in Nat
  BY DEF ReviewInv, ReviewWorkInv, RequestType
<1>2. ASSUME NEW q \in UserRequests, userRequest'[q].stage = "writing"
      PROVE  userRequest'[q].created < clock'
  BY <1>1, <1>2 DEF StampInv
<1>3. ASSUME NEW n \in DOMAIN trail' PROVE trail'[n].at < trail'[n].ended
  BY DEF StampInv
<1>. QED  BY <1>2, <1>3 DEF StampInv

\* Every step keeps the stamps in order.
LEMMA StampStep == ReviewInv /\ TrailInv /\ StampInv /\ [ReviewNext]_reviewVars => StampInv'
<1>. SUFFICES ASSUME ReviewInv, TrailInv, StampInv, [ReviewNext]_reviewVars PROVE StampInv'
  OBVIOUS
<1>0. clock \in Nat /\ userRequest \in [UserRequests -> RequestType]
  BY DEF ReviewInv, ReviewWorkInv
<1>1. ASSUME NEW q \in UserRequests, NEW req,
             userRequest' = [userRequest EXCEPT ![q] = req],
             clock' \in {clock, clock + 1}, trail' = trail,
             req.stage = "writing" => req.created = clock /\ clock' = clock + 1
      PROVE  StampInv'
  BY <1>0, <1>1, StampsKept
<1>2. ASSUME NEW q \in UserRequests, BeginCorrect(q) PROVE StampInv'
  BY <1>1, <1>2 DEF BeginCorrect
<1>3. ASSUME NEW q \in UserRequests, BeginApprove(q) PROVE StampInv'
  BY <1>1, <1>3 DEF BeginApprove, NoRequest
<1>4. ASSUME NEW q \in UserRequests, BeginSimilar(q) PROVE StampInv'
  BY <1>1, <1>4 DEF BeginSimilar, NoRequest
<1>5. ASSUME NEW q \in UserRequests, Edit(q) PROVE StampInv'
  <2>1. PICK r : userRequest' = [userRequest EXCEPT ![q].targets = @ \ {r}]
    BY <1>5 DEF Edit
  <2>2. \A p \in UserRequests : /\ userRequest'[p].stage = userRequest[p].stage
                                /\ userRequest'[p].created = userRequest[p].created
    BY <1>0, <2>1 DEF RequestType
  <2>3. clock' = clock /\ trail' = trail
    BY <1>5 DEF Edit
  <2>. QED  BY <1>0, <2>2, <2>3, StampsKept
<1>6. ASSUME NEW q \in UserRequests, CommitRequest(q) PROVE StampInv'
  <2>1. /\ userRequest[q].stage = "writing" /\ clock' = clock
        /\ userRequest' = [userRequest EXCEPT ![q] = [NoRequest EXCEPT !.stage = "done"]]
    BY <1>6 DEF CommitRequest
  <2>2. \A p \in UserRequests : userRequest'[p].stage = "writing" =>
                                   userRequest'[p] = userRequest[p]
    BY <1>0, <2>1 DEF NoRequest
  <2>3. \A n \in DOMAIN trail' :
           \/ n \in DOMAIN trail /\ trail'[n] = trail[n]
           \/ trail'[n].at = userRequest[q].created /\ trail'[n].ended = clock
    BY <1>6, CommitWrites
  <2>. QED  BY <1>0, <2>1, <2>2, <2>3, StampsKept
<1>7. ASSUME NEW q \in UserRequests, AbortRequest(q) \/ CreateRule(q) \/ DropRule(q)
      PROVE  StampInv'
  BY <1>0, <1>1, <1>7 DEF AbortRequest, CreateRule, DropRule, NoRequest
<1>8. CASE \/ CascadeStart \/ DecideByRule \/ DecideByHistory \/ DecideByModel
           \/ DecideNothing \/ WriteCategory \/ CascadeCommit \/ CascadeAbort
           \/ UNCHANGED reviewVars
  <2>1. UNCHANGED <<userRequest, clock, trail>>
    BY <1>8 DEF CascadeStart, DecideByRule, DecideByHistory, DecideByModel,
                DecideNothing, Decide, WriteCategory, CascadeCommit, CascadeAbort, reviewVars
  <2>. QED  BY <1>0, <2>1, StampsKept
<1>. QED  BY <1>2, <1>3, <1>4, <1>5, <1>6, <1>7, <1>8 DEF ReviewNext

\* The stamps of a row whose corrections never crossed grow with the commits.
LEMMA UncrossedIsInOrder ==
  ASSUME TrailInv, StampInv, NEW r \in ReviewRows, ~ Crossed(r), AuditOf(r) # {}
  PROVE  Newest(r) = Max(AuditOf(r))
<1>. DEFINE last == Max(AuditOf(r))
            newest(n) == \A m \in AuditOf(r) : trail[m].at <= trail[n].at
<1>1. /\ last \in AuditOf(r) /\ AuditOf(r) \subseteq DOMAIN trail
      /\ \A n \in AuditOf(r) : n <= last
  BY DEF TrailInv, LastInv, AuditOf
<1>2. /\ DOMAIN trail \subseteq Nat
      /\ \A n \in DOMAIN trail : trail[n].at \in Nat /\ trail[n].ended \in Nat
  <2>1. trail \in Seq(AuditRow)
    BY DEF TrailInv
  <2>2. DOMAIN trail \subseteq Nat /\ \A n \in DOMAIN trail : trail[n] \in AuditRow
    BY <2>1
  <2>. QED  BY <2>2 DEF AuditRow
<1>. HIDE DEF last
<1>3. \A n \in AuditOf(r) : n # last => trail[n].at < trail[last].at
  <2>. SUFFICES ASSUME NEW n \in AuditOf(r), n # last PROVE trail[n].at < trail[last].at
    OBVIOUS
  <2>1. n < last
    BY <1>1, <1>2
  <2>2. ~ (trail[last].at < trail[n].ended)
    BY <1>1, <2>1 DEF Crossed
  <2>3. trail[n].at < trail[n].ended
    BY <1>1 DEF StampInv
  <2>4. n \in DOMAIN trail /\ last \in DOMAIN trail
    BY <1>1
  <2>. QED  BY <1>2, <2>2, <2>3, <2>4
<1>4. newest(last)
  BY <1>1, <1>2, <1>3
<1>5. \A n \in AuditOf(r) : newest(n) => n = last
  BY <1>1, <1>2, <1>3
<1>6. Newest(r) = CHOOSE n \in AuditOf(r) : newest(n)
  BY DEF Newest
<1>. HIDE DEF newest
<1>7. Newest(r) = last
  BY <1>1, <1>4, <1>5, <1>6
<1>. QED  BY <1>7 DEF last

\* The figures and the trail, from what was written and when.
LEMMA TrailIsRead ==
  ASSUME TrailInv, StampInv
  PROVE  TrailEndsAtTheRow
<1>. SUFFICES ASSUME NEW r \in ReviewRows
              PROVE  /\ ~ Crossed(r) => rows[r].figure = AuditSays(r)
                     /\ AuditOf(r) # {} => \E n \in AuditOf(r) :
                                              rows[r].figure = trail[n].new
  BY DEF TrailEndsAtTheRow
<1>1. rows[r].figure = WrittenSays(r)
  BY DEF TrailInv, RowsAsWritten
<1>2. ~ Crossed(r) => WrittenSays(r) = AuditSays(r)
  BY UncrossedIsInOrder DEF WrittenSays, AuditSays
<1>3. AuditOf(r) # {} => Max(AuditOf(r)) \in AuditOf(r)
  BY DEF TrailInv, LastInv
<1>. QED  BY <1>1, <1>2, <1>3 DEF WrittenSays

\* However corrections, bulk actions and cascades cross, a row's figure is one
\* that its audit says was written; and the trail as it is read begins with it
\* as long as no two corrections of the row crossed.
THEOREM AuditEndsAtTheRow == ReviewSpec => []TrailEndsAtTheRow
<1>1. ReviewInit => TrailInv /\ StampInv
  <2>. SUFFICES ASSUME ReviewInit PROVE StampInv
    BY TrailStart
  <2>1. trail = <<>> /\ DOMAIN trail = {}
    BY DEF ReviewInit
  <2>2. \A q \in UserRequests : userRequest[q].stage = "new"
    BY DEF ReviewInit, NoRequest
  <2>. QED  BY <2>1, <2>2 DEF StampInv
<1>2. ReviewInv /\ TrailInv /\ [ReviewNext]_reviewVars => TrailInv'
  BY TrailStep
<1>3. ReviewInv /\ TrailInv /\ StampInv /\ [ReviewNext]_reviewVars => StampInv'
  BY StampStep
<1>4. TrailInv /\ StampInv => TrailEndsAtTheRow
  BY TrailIsRead
<1>. QED  BY <1>1, <1>2, <1>3, <1>4, AlwaysReview, PTL DEF ReviewSpec
=============================================================================
