------------------------------- MODULE Review -------------------------------
(***************************************************************************)
(* Who decides a transaction's category. The cascade that ends an import   *)
(* goes through the rows nothing has settled yet, one decision at a time,  *)
(* in one long transaction whose actor is "ai". Meanwhile the user         *)
(* corrects, approves and applies to similar rows. Every transaction is    *)
(* READ COMMITTED: it reads what is committed when it reads, waits for the *)
(* rows that others have updated, and judges them again after the wait.    *)
(***************************************************************************)
EXTENDS Integers, FiniteSets, FiniteSetsExt, Sequences, SequencesExt

CONSTANTS
    ReviewRows,     \* the rows of the statement
    Unknown,        \* those among them that have no merchant
    OtherScore,     \* row |-> the least of its three other confidences, in %
    Preset,        \* the rows a deterministic rule has categorised
    Categories,
    OldConfirmed,   \* category |-> older rows of the merchant verified in it
    Scores,         \* what the model may say of its own confidence, in %
    UserRequests,       \* the user's requests
    Figures,        \* what the user may set a field to
    MaxCascades     \* bound: attempts of the cascade

Nobody == "nobody"
Uncategorised == "uncategorised"
Original == "original"
Unchanged == "unchanged"

ASSUME ReviewAssumption ==
    /\ IsFiniteSet(ReviewRows)
    /\ Unknown \subseteq ReviewRows /\ Preset \subseteq ReviewRows
    /\ UserRequests \cap {"ai", "nobody"} = {}
    /\ OtherScore \in [ReviewRows -> 0 .. 100]
    /\ OldConfirmed \in [Categories -> Nat]
    /\ Scores \subseteq 0 .. 100
    /\ Uncategorised \notin Categories /\ Unchanged \notin Categories
    /\ Original \notin Figures /\ Unchanged \notin Figures
    /\ MaxCascades \in Nat

VARIABLES
    rows,       \* row |-> [category, source, figure, verified, status]
    draft,      \* row |-> what the transaction that holds it has written
    holder,     \* row |-> that transaction, or Nobody
    userRequest, \* request |-> what it does and how far it is
    cascade,    \* [stage, todo, decision] of the import's last transaction
    rules,      \* the user's rules: [category, priority, created]
    trail,      \* the audit rows, in the order of their commits: at is
                \* changed_at, ended (a history) when the commit was
    clock, cascades

reviewVars == <<rows, draft, holder, userRequest, cascade, rules, trail, clock,
                cascades>>

AutoApproveAt == 97
FlagAt == 90
HistoryThreshold == 3
LearnedPriority == 10
ManualPriority == 100

NoDecision == [category |-> Uncategorised, source |-> "none", confidence |-> 0]
NotHeld == [category |-> Uncategorised, source |-> "fallback_other",
            figure |-> Original, verified |-> FALSE, status |-> "review_required"]
NoRequest == [op |-> "none", stage |-> "new", targets |-> {},
              category |-> Unchanged, figure |-> Unchanged, verify |-> FALSE,
              read |-> Original, created |-> 0]
NoCascade == [stage |-> "waiting", todo |-> <<>>, decision |-> NoDecision]

\* The status a row gets from its weakest dimension.
StatusOf(least) == CASE least >= AutoApproveAt -> "auto_approved"
                     [] least >= FlagAt -> "flagged"
                     [] OTHER -> "review_required"

Least(a, b) == IF a <= b THEN a ELSE b

-----------------------------------------------------------------------------
\* The rows as the ledger left them: what no rule of the parser knew is in
\* the fallback category.
ReviewInit ==
    /\ \E known \in [Preset -> Categories] :
         rows = [r \in ReviewRows |->
                   IF r \in Preset
                   THEN [category |-> known[r], source |-> "deterministic_rule",
                         figure |-> Original, verified |-> FALSE,
                         status |-> StatusOf(OtherScore[r])]
                   ELSE [category |-> Uncategorised, source |-> "fallback_other",
                         figure |-> Original, verified |-> FALSE,
                         status |-> "review_required"]]
    /\ draft = [r \in ReviewRows |-> NotHeld]
    /\ holder = [r \in ReviewRows |-> Nobody]
    /\ userRequest = [q \in UserRequests |-> NoRequest]
    /\ cascade = NoCascade
    /\ rules = {}
    /\ trail = <<>>
    /\ clock = 0
    /\ cascades = 0

Ai == "ai"

Seen(p, r) == IF holder[r] = p THEN draft[r] ELSE rows[r]

Free(p, r) == holder[r] \in {Nobody, p}

-----------------------------------------------------------------------------
(* The user's requests                                                     *)

\* correct: the row is read, and what differs from it will be written. The
\* figure is one that every document prints: to set it to null differs from
\* what is read, and takes the row back to what the document says.
BeginCorrect(q) ==
    /\ userRequest[q].stage = "new"
    /\ \E r \in ReviewRows, c \in Categories \cup {Unchanged},
          f \in Figures \cup {Original, Unchanged}, v \in BOOLEAN :
         /\ f # Original => f # rows[r].figure
         /\ c # Unchanged \/ f # Unchanged
         /\ userRequest' = [userRequest EXCEPT ![q] =
                          [op |-> "correct", stage |-> "writing",
                           targets |-> {r}, category |-> c, figure |-> f,
                           verify |-> v, read |-> rows[r].figure,
                           created |-> clock]]
    /\ clock' = clock + 1
    /\ UNCHANGED <<rows, draft, holder, cascade, rules, trail, cascades>>

\* approve: any selection of rows, whatever they say.
BeginApprove(q) ==
    /\ userRequest[q].stage = "new"
    /\ \E chosen \in SUBSET ReviewRows \ {{}} :
         userRequest' = [userRequest EXCEPT ![q] =
                       [NoRequest EXCEPT !.op = "approve", !.stage = "writing",
                                         !.targets = chosen, !.verify = TRUE,
                                         !.created = clock]]
    /\ clock' = clock + 1
    /\ UNCHANGED <<rows, draft, holder, cascade, rules, trail, cascades>>

\* apply_to_similar: the other rows of the merchant that nobody verified.
BeginSimilar(q) ==
    /\ userRequest[q].stage = "new"
    /\ \E r \in ReviewRows \ Unknown, c \in Categories :
         userRequest' = [userRequest EXCEPT ![q] =
                       [NoRequest EXCEPT
                          !.op = "similar", !.stage = "writing", !.category = c,
                          !.targets = {s \in ReviewRows \ (Unknown \cup {r}) :
                                         ~ rows[s].verified},
                          !.created = clock]]
    /\ clock' = clock + 1
    /\ UNCHANGED <<rows, draft, holder, cascade, rules, trail, cascades>>

Corrected(row, req) ==
    [row EXCEPT !.category = IF req.category = Unchanged THEN @ ELSE req.category,
                !.source = IF req.category = Unchanged THEN @ ELSE "user_rule",
                !.figure = IF req.figure = Unchanged THEN @ ELSE req.figure,
                !.verified = @ \/ req.verify,
                !.status = IF req.verify THEN "resolved" ELSE @]

\* Mutant: an approved row keeps its review status.
ApprovedOnly(row) == [row EXCEPT !.verified = TRUE]

Approved(row) == [row EXCEPT !.verified = TRUE, !.status = "resolved"]

\* Mutant: a bulk action takes the verified rows along.
RetaggedAll(row, c) == [row EXCEPT !.category = c, !.source = "user_rule"]

\* The condition of the UPDATE is judged again once the row is free.
Retagged(row, c) ==
    IF row.verified THEN row
    ELSE [row EXCEPT !.category = c, !.source = "user_rule"]

Edited(row, req) == CASE req.op = "correct" -> Corrected(row, req)
                      [] req.op = "approve" -> Approved(row)
                      [] req.op = "similar" -> Retagged(row, req.category)

\* The UPDATE takes its rows one after the other.
Edit(q) ==
    /\ userRequest[q].stage = "writing"
    /\ \E r \in userRequest[q].targets :
         /\ Free(q, r)
         /\ holder' = [holder EXCEPT ![r] = q]
         /\ draft' = [draft EXCEPT ![r] = Edited(rows[r], userRequest[q])]
         /\ userRequest' = [userRequest EXCEPT ![q].targets = @ \ {r}]
    /\ UNCHANGED <<rows, cascade, rules, trail, clock, cascades>>

HeldBy(p) == {r \in ReviewRows : holder[r] = p}

Settle(p) ==
    /\ rows' = [r \in ReviewRows |-> IF holder[r] = p THEN draft[r] ELSE rows[r]]
    /\ holder' = [r \in ReviewRows |-> IF holder[r] = p THEN Nobody ELSE holder[r]]
    /\ draft' = [r \in ReviewRows |-> IF holder[r] = p THEN NotHeld ELSE draft[r]]

\* Mutant: only what is not verified at once is audited.
AuditRowsUnverified(q) ==
    IF userRequest[q].figure = Unchanged \/ userRequest[q].verify THEN {}
    ELSE {[row |-> r, old |-> userRequest[q].read, new |-> userRequest[q].figure,
           at |-> userRequest[q].created, ended |-> clock] : r \in HeldBy(q)}

\* The audit row of a corrected field: what was read, what was written, and
\* now(), which is when the transaction began.
AuditRows(q) ==
    IF userRequest[q].figure = Unchanged THEN {}
    ELSE {[row |-> r, old |-> userRequest[q].read, new |-> userRequest[q].figure,
           at |-> userRequest[q].created, ended |-> clock] : r \in HeldBy(q)}

\* learn_from_correction: ON CONFLICT DO NOTHING never meets a conflict, for
\* the unique constraint has a column that is always NULL here.
Learned(q) ==
    IF userRequest[q].op = "correct" /\ userRequest[q].category # Unchanged
       /\ HeldBy(q) \cap Unknown = {}
    THEN {[category |-> userRequest[q].category, priority |-> LearnedPriority,
           created |-> userRequest[q].created]}
    ELSE {}

CommitRequest(q) ==
    /\ userRequest[q].stage = "writing"
    /\ userRequest[q].targets = {}
    /\ Settle(q)
    /\ rules' = rules \cup Learned(q)
    /\ trail' = trail \o SetToSeq(AuditRows(q))
    /\ userRequest' = [userRequest EXCEPT ![q] = [NoRequest EXCEPT !.stage = "done"]]
    /\ UNCHANGED <<cascade, clock, cascades>>

Release(p) ==
    /\ holder' = [r \in ReviewRows |-> IF holder[r] = p THEN Nobody ELSE holder[r]]
    /\ draft' = [r \in ReviewRows |-> IF holder[r] = p THEN NotHeld ELSE draft[r]]

AbortRequest(q) ==
    /\ userRequest[q].stage = "writing"
    /\ Release(q)
    /\ userRequest' = [userRequest EXCEPT ![q] = [NoRequest EXCEPT !.stage = "done"]]
    /\ UNCHANGED <<rows, cascade, rules, trail, clock, cascades>>

-----------------------------------------------------------------------------
(* The user's rules, edited on their own                                   *)

\* The source says the rule outranks everything; its priority is the default.
CreateRule(q) ==
    /\ userRequest[q].stage = "new"
    /\ \E c \in Categories :
         rules' = rules \cup {[category |-> c, priority |-> ManualPriority,
                               created |-> clock]}
    /\ userRequest' = [userRequest EXCEPT ![q] = [NoRequest EXCEPT !.stage = "done"]]
    /\ clock' = clock + 1
    /\ UNCHANGED <<rows, draft, holder, cascade, trail, cascades>>

DropRule(q) ==
    /\ userRequest[q].stage = "new"
    /\ \E rule \in rules : rules' = rules \ {rule}
    /\ userRequest' = [userRequest EXCEPT ![q] = [NoRequest EXCEPT !.stage = "done"]]
    /\ UNCHANGED <<rows, draft, holder, cascade, trail, clock, cascades>>

-----------------------------------------------------------------------------
(* The cascade                                                             *)

Unsettled == {r \in ReviewRows : /\ ~ rows[r].verified
                               /\ rows[r].source = "fallback_other"}

CascadeStart ==
    /\ cascade.stage = "waiting"
    /\ cascades < MaxCascades
    /\ \E order \in SetToSeqs(Unsettled) :
         cascade' = [stage |-> "deciding", todo |-> order, decision |-> NoDecision]
    /\ cascades' = cascades + 1
    /\ UNCHANGED <<rows, draft, holder, userRequest, rules, trail, clock>>

\* _apply_user_rule: the smallest priority number, the newest among equals.
Ruling == {rule \in rules :
             \A other \in rules :
                 \/ rule.priority < other.priority
                 \/ rule.priority = other.priority /\ rule.created >= other.created}

\* _historical_pattern, over the whole ledger.
Confirmed(c) ==
    OldConfirmed[c]
      + Cardinality({r \in ReviewRows \ Unknown : /\ Seen(Ai, r).verified
                                                  /\ Seen(Ai, r).category = c})

Habitual == {c \in Categories : /\ Confirmed(c) >= HistoryThreshold
                                /\ \A d \in Categories : Confirmed(d) <= Confirmed(c)}

\* Mutant: the model's confidence counts as it says.
CappedNot(score) == score

\* A model's confidence in itself is evidence, not proof.
Capped(score) == Least(score, 92)

Decide(decision) ==
    /\ cascade.stage = "deciding"
    /\ cascade.todo # <<>>
    /\ cascade' = [cascade EXCEPT !.stage = "decided", !.decision = decision]
    /\ UNCHANGED <<rows, draft, holder, userRequest, rules, trail, clock, cascades>>

HasMerchant(r) == r \notin Unknown

DecideByRule ==
    /\ cascade.todo # <<>> /\ HasMerchant(Head(cascade.todo))
    /\ \E rule \in Ruling :
         Decide([category |-> rule.category, source |-> "user_rule",
                 confidence |-> 100])

DecideByHistory ==
    /\ cascade.todo # <<>> /\ HasMerchant(Head(cascade.todo))
    /\ Ruling = {}
    /\ \E c \in Habitual :
         Decide([category |-> c, source |-> "historical_pattern", confidence |-> 90])

\* The gateway answers, in its own time, with a category of the list.
DecideByModel ==
    /\ cascade.todo # <<>>
    /\ HasMerchant(Head(cascade.todo)) => Ruling = {} /\ Habitual = {}
    /\ \E c \in Categories, score \in Scores :
         Decide([category |-> c, source |-> "ai_model",
                 confidence |-> Capped(score)])

\* No model to ask, a call the gateway blocks, or an answer it rejects.
DecideNothing ==
    /\ cascade.stage = "deciding"
    /\ cascade.todo # <<>>
    /\ HasMerchant(Head(cascade.todo)) => Ruling = {} /\ Habitual = {}
    /\ cascade' = [cascade EXCEPT !.todo = Tail(@)]
    /\ UNCHANGED <<rows, draft, holder, userRequest, rules, trail, clock, cascades>>

Categorised(row, r, decision) ==
    [row EXCEPT !.category = decision.category,
                !.source = decision.source,
                !.status = StatusOf(Least(decision.confidence, OtherScore[r]))]

\* Mutant: _write_category leaves the check to the caller.
MayWriteAny(row) == TRUE

\* _write_category names the rows that are not verified.
MayWrite(row) == ~ row.verified

\* protect_verified_transactions: the trigger that refuses an "ai" write.
TriggerRefuses(row) == row.verified

WriteCategory ==
    /\ cascade.stage = "decided"
    /\ LET r == Head(cascade.todo)
           now == Seen(Ai, r)
       IN  /\ Free(Ai, r)
           /\ IF ~ MayWrite(now)
              THEN /\ cascade' = [cascade EXCEPT !.stage = "deciding",
                                                 !.todo = Tail(@)]
                   /\ UNCHANGED <<draft, holder>>
              ELSE IF TriggerRefuses(now)
              THEN /\ cascade' = [NoCascade EXCEPT !.stage = "refused"]
                   /\ Release(Ai)
              ELSE /\ cascade' = [cascade EXCEPT !.stage = "deciding",
                                                 !.todo = Tail(@)]
                   /\ draft' = [draft EXCEPT ![r] =
                                  Categorised(now, r, cascade.decision)]
                   /\ holder' = [holder EXCEPT ![r] = Ai]
    /\ UNCHANGED <<rows, userRequest, rules, trail, clock, cascades>>

CascadeCommit ==
    /\ cascade.stage = "deciding"
    /\ cascade.todo = <<>>
    /\ Settle(Ai)
    /\ cascade' = [NoCascade EXCEPT !.stage = "done"]
    /\ UNCHANGED <<userRequest, rules, trail, clock, cascades>>

\* The worker is lost, or the time limit ends the task: it is tried again.
CascadeAbort ==
    /\ cascade.stage \in {"deciding", "decided"}
    /\ Release(Ai)
    /\ cascade' = NoCascade
    /\ UNCHANGED <<rows, userRequest, rules, trail, clock, cascades>>

-----------------------------------------------------------------------------
\* Transactions that wait for each other: PostgreSQL rolls one of them back,
\* which is AbortRequest or CascadeAbort; both may happen at any time.
ReviewNext ==
    \/ \E q \in UserRequests :
         \/ BeginCorrect(q)
         \/ BeginApprove(q)
         \/ BeginSimilar(q)
         \/ Edit(q)
         \/ CommitRequest(q)
         \/ AbortRequest(q)
         \/ CreateRule(q)
         \/ DropRule(q)
    \/ CascadeStart
    \/ DecideByRule
    \/ DecideByHistory
    \/ DecideByModel
    \/ DecideNothing
    \/ WriteCategory
    \/ CascadeCommit
    \/ CascadeAbort

ReviewSpec == ReviewInit /\ [][ReviewNext]_reviewVars

-----------------------------------------------------------------------------
(* Properties                                                              *)

RowType == [category : Categories \cup {Uncategorised},
            source : {"fallback_other", "deterministic_rule", "user_rule",
                      "historical_pattern", "ai_model"},
            figure : Figures \cup {Original},
            verified : BOOLEAN,
            status : {"auto_approved", "flagged", "review_required", "resolved"}]

\* The rows keep their types, and a row has left the review queue for good
\* exactly when somebody has verified it: whoever writes the status of a row
\* knows whether it is verified.
ReviewTypeOK ==
    /\ rows \in [ReviewRows -> RowType]
    /\ draft \in [ReviewRows -> RowType]
    /\ holder \in [ReviewRows -> UserRequests \cup {Ai, Nobody}]
    /\ \A r \in ReviewRows : rows[r].verified <=> rows[r].status = "resolved"

\* What a person has verified changes only when a person corrects that row:
\* neither the cascade, whose list of rows is older than the decision, nor a
\* bulk action changes its category.
HumanDecisionStands ==
    [][\A r \in ReviewRows :
         rows[r].verified =>
             /\ rows'[r].verified
             /\ \/ rows'[r].category = rows[r].category
                \/ \E q \in UserRequests : holder[r] = q /\ userRequest[q].op = "correct"]_reviewVars

\* The trigger that guards verified rows never fires: a cascade that meets a
\* row verified since it made its list passes it by, and the categories of
\* the other rows are kept.
CascadeIsNeverRefused == cascade.stage # "refused"

\* No category leaves the review queue on the model's own word, however sure
\* the model says it is and however good the rest of the row.
AiNeverApprovesItself ==
    \A r \in ReviewRows :
        rows[r].source = "ai_model" => rows[r].status # "auto_approved"

\* Where in the trail the audit rows of a row are, and what the newest one
\* says: the trail is read by changed_at.
AuditOf(r) == {n \in DOMAIN trail : trail[n].row = r}

Newest(r) == CHOOSE n \in AuditOf(r) : \A m \in AuditOf(r) : trail[m].at <= trail[n].at

AuditSays(r) == IF AuditOf(r) = {} THEN Original ELSE trail[Newest(r)].new

\* Two corrections of a row crossed: one began before the other was over.
Crossed(r) == \E m, n \in AuditOf(r) : m < n /\ trail[n].at < trail[m].ended

\* A figure of a row is always one that its audit says was written, or the
\* document's when there is none; and the trail, read newest first, begins
\* with what the row says, unless corrections of that row have crossed: the
\* one that began first may then write last.
TrailEndsAtTheRow ==
    \A r \in ReviewRows :
        /\ ~ Crossed(r) => rows[r].figure = AuditSays(r)
        /\ AuditOf(r) # {} => \E n \in AuditOf(r) : rows[r].figure = trail[n].new

\* A merchant has one learned rule, the one of the last correction.
NoContradictoryRules ==
    \A one, other \in rules :
        (one.priority = LearnedPriority /\ other.priority = LearnedPriority)
            => one.category = other.category

\* What the head of services/categorization.py promises: a user's decision is
\* permanent, the model cannot overrule a person. It holds of the rows that
\* are verified; a correction made with verify = false, and apply_to_similar,
\* decide the category of rows that stay unverified, and the cascade, whose
\* list is older, writes its own over it.
AiNeverOverridesAHuman ==
    [][\A r \in ReviewRows :
         rows[r].source = "user_rule" => rows'[r].source # "ai_model"]_reviewVars

\* The audit of a row is one story: each entry starts where the last ended.
AuditTellsTheStory ==
    \A r \in ReviewRows :
        \A m, n \in AuditOf(r) :
            (m < n /\ AuditOf(r) \cap (m + 1) .. (n - 1) = {}) => trail[n].old = trail[m].new

=============================================================================
