------------------------------ MODULE Matching ------------------------------
(***************************************************************************)
(* Matching a task with agents (internal/matching) and sealing the result: *)
(* hard filter, recall by three channels, reciprocal rank fusion, rule      *)
(* score and model delta, qualification, FairShuffle, and the revision of   *)
(* match_snapshots a matching operation creates from its frozen draft.      *)
(*                                                                         *)
(* Agents are numbers, ordered as the code orders agent ids. Every list of  *)
(* the code is sorted by a total order before it is cut, so a list is here  *)
(* the set of its members and a cut keeps the members few others precede.   *)
(* The gates of the filter that compare names (status, approval, category,  *)
(* language, capability, protocol, vector version, payout address) are one  *)
(* Boolean, fits. The seeded draws are any draws: the seed is an HMAC.      *)
(***************************************************************************)
EXTENDS Clock, FiniteSets, Sequences

CONSTANTS Agent,                \* agent ids, numbers
          Profile(_),           \* the rows of agents an agent may have
          Publisher,            \* the publisher of the task
          Budget, Deadline,     \* of the task's specification
          Dense, Delta,         \* answers of the vector search and of the model
          Judgement,            \* of administrators: fits and reputation
          Op,                   \* matching operations
          HealthFreshness, MaxRecallPerChannel, MaxScoredCandidates,
          MaxQualifiedPool, QualificationFloor, MaximumScoreGap, MaxModelDelta,
          SelectionLimit, ProviderCap, ExplorationExposureLimit,
          ExplorationSampleLimit,
          Changing              \* bound: the agents whose rows change meanwhile

\* The limits the code fixes: a model moves a score by less than the gap.
ASSUME MatchingLimits ==
    /\ {MaxModelDelta, MaximumScoreGap, QualificationFloor} \subseteq Nat
    /\ MaxModelDelta =< MaximumScoreGap
    /\ QualificationFloor + MaxModelDelta =< 100

\* Agents are numbered in the order of their ids.
ASSUME MatchingTypes ==
    /\ IsFiniteSet(Agent) /\ Agent = 1..Cardinality(Agent)
    /\ {Budget, Deadline, HealthFreshness, MaxRecallPerChannel, MaxScoredCandidates,
        MaxQualifiedPool, SelectionLimit, ProviderCap, ExplorationExposureLimit,
        ExplorationSampleLimit} \subseteq Nat
    /\ Dense \cup Delta \subseteq [Agent -> Int]
    /\ Judgement \subseteq [fits : BOOLEAN, reputation : [1..5 -> Nat]]
    /\ Changing \subseteq Agent

\* The columns of a row of agents that the scores read.
Candidate == [fits : BOOLEAN, provider : {p.provider : p \in UNION {Profile(a) : a \in Agent}},
             reputation : [1..5 -> Nat], lexical : Nat,
             checked : Int, valid : Int, active : Nat, max : Nat, duration : Int, price : Nat,
             samples : Nat, exposed : Nat]
ASSUME ProfileTypes == \A a \in Agent : Profile(a) \subseteq Candidate

VARIABLES agents,       \* [Agent -> row]
          exposure,     \* matching_exposure_count of agents
          evaluated,    \* [Op -> the evaluated_at of its row, or None]
          draft,        \* [Op -> its frozen draft, or None]
          snapshots     \* match_snapshots of the task, in order of revision
matchingVars == <<agents, exposure, now, evaluated, draft, snapshots>>

None == -1
Channel == {"dense", "lexical", "exact"}
Unavailable == [a \in Agent |-> None]

MatchingInit ==
    /\ agents \in {f \in [Agent -> UNION {Profile(a) : a \in Agent}] : \A a \in Agent : f[a] \in Profile(a)}
    /\ exposure = [a \in Agent |-> agents[a].exposed]
    /\ now = 0
    /\ evaluated = [o \in Op |-> None]
    /\ draft = [o \in Op |-> <<>>]
    /\ snapshots = <<>>

-----------------------------------------------------------------------------
(* The first k members of a list sorted by before. *)
FirstOf(S, k, before(_, _)) == {a \in S : Cardinality({b \in S : before(b, a)}) < k}

Clamp(v, low, high) == IF v < low THEN low ELSE IF v > high THEN high ELSE v

HardFilter(at) ==
    {a \in Agent : LET c == agents[a] IN
        /\ c.fits /\ c.provider # Publisher
        /\ c.checked >= at - HealthFreshness /\ c.valid > at
        /\ c.active < c.max
        /\ c.duration > 0 /\ at + c.duration =< Deadline
        /\ c.price =< Budget}

(* A channel's hits with their relevance; one the vector search reports for an *)
(* agent that is not eligible, or out of range, is dropped.                    *)
LexicalRecall(S) == [a \in {b \in S : agents[b].lexical > 0} |-> agents[a].lexical]
ExactRecall(S) == [a \in S |-> 10000]
NormalizeHits(S, hits) == [a \in {b \in S : hits[b] \in 0..10000} |-> hits[a]]

HitBefore(hits, a, b) == hits[a] > hits[b] \/ (hits[a] = hits[b] /\ a < b)

Limited(hits) ==
    LET before(a, b) == HitBefore(hits, a, b)
    IN  [a \in FirstOf(DOMAIN hits, MaxRecallPerChannel, before) |-> hits[a]]

Recall(S, dense) ==
    [c \in Channel |->
        Limited(CASE c = "dense" -> NormalizeHits(S, dense)
                  [] c = "lexical" -> LexicalRecall(S)
                  [] c = "exact" -> ExactRecall(S))]

ReciprocalRank(hits, a) ==
    IF a \in DOMAIN hits
    THEN 1000000 \div (61 + Cardinality({b \in DOMAIN hits : HitBefore(hits, b, a)}))
    ELSE 0

ReciprocalRankScore(evidence, a) ==
    ReciprocalRank(evidence["dense"], a) + ReciprocalRank(evidence["lexical"], a)
        + ReciprocalRank(evidence["exact"], a)

FusedAgentIDs(evidence) ==
    LET score == [a \in UNION {DOMAIN evidence[c] : c \in Channel} |-> ReciprocalRankScore(evidence, a)]
        before(a, b) == HitBefore(score, a, b)
    IN  FirstOf(DOMAIN score, MaxScoredCandidates, before)

-----------------------------------------------------------------------------
(* Scores out of 100. *)
WeightedRelevance(hits, a, maximum) ==
    IF a \in DOMAIN hits THEN (hits[a] * maximum) \div 10000 ELSE 0

ReputationScore(r) ==
    (r[1] * 5) \div 100 + (r[2] * 5) \div 100 + (r[3] * 5) \div 100
        + (r[4] * 5) \div 100 + (r[5] * 5) \div 100

RatioScore(n, d) == IF d =< 0 \/ n =< 0 THEN 0 ELSE (Clamp(n, 0, d) * 5 + d \div 2) \div d

PriceHeadroomScore(price) ==
    IF price > Budget THEN 0 ELSE IF Budget = 0 THEN 5 ELSE ((Budget - price) * 5) \div Budget

TimeHeadroomScore(duration, available) ==
    IF duration =< 0 \/ duration > available THEN 0 ELSE RatioScore(available - duration, available)

RuleScore(a, evidence, at) ==
    LET c == agents[a]
    IN  WeightedRelevance(evidence["dense"], a, 25) + WeightedRelevance(evidence["lexical"], a, 15)
            + WeightedRelevance(evidence["exact"], a, 20) + ReputationScore(c.reputation)
            + PriceHeadroomScore(c.price) + TimeHeadroomScore(c.duration, Deadline - at)
            + RatioScore(c.max - c.active, c.max)

UnclampedDelta(rule, delta) == Clamp(rule + delta, 0, 100)
ApplyModelDelta(rule, delta) == Clamp(rule + Clamp(delta, -MaxModelDelta, MaxModelDelta), 0, 100)

-----------------------------------------------------------------------------
(* Qualification. A scored list is the pair of functions rule and rank on it. *)
ScoredBefore(d, a, b) ==
    \/ d.rank[a] > d.rank[b]
    \/ d.rank[a] = d.rank[b] /\ d.rule[a] > d.rule[b]
    \/ d.rank[a] = d.rank[b] /\ d.rule[a] = d.rule[b] /\ a < b

Meets(d, a) == d.rule[a] >= QualificationFloor /\ d.rank[a] >= QualificationFloor

(* best is the score of the first of the list, whoever that is. *)
WithinGap(d) == {a \in d.scored : Meets(d, a) /\ \A b \in d.scored : d.rank[a] >= d.rank[b] - MaximumScoreGap}

Qualify(d) ==
    LET before(a, b) == ScoredBefore(d, a, b)
    IN  FirstOf(WithinGap(d), MaxQualifiedPool, before)

(* What a snapshot is identified by: the instant and every row the result rests on. *)
EffectiveInput(at) == <<at, agents, exposure>>

Match(at, dense, delta) ==
    LET eligible == HardFilter(at)
        evidence == Recall(eligible, dense)
        scored == FusedAgentIDs(evidence)
        rule == [a \in scored |-> RuleScore(a, evidence, at)]
        rank == [a \in scored |-> ApplyModelDelta(rule[a], delta[a])]
        d == [scored |-> scored, rule |-> rule, rank |-> rank]
    IN  [key |-> EffectiveInput(at), scored |-> scored, rule |-> rule, rank |-> rank,
         qualified |-> Qualify(d), excluded |-> Agent \ eligible,
         exploring |-> {a \in scored : \/ exposure[a] < ExplorationExposureLimit
                                       \/ agents[a].samples < ExplorationSampleLimit}]

-----------------------------------------------------------------------------
(* FairShuffle: a draw for each position, at most ProviderCap of a provider. *)
SelectionWeight(rank) == IF rank < QualificationFloor THEN 1 ELSE rank - QualificationFloor + 1

Weight(d, S) ==
    LET upTo[n \in 0..Cardinality(Agent)] ==
            IF n = 0 THEN 0
            ELSE upTo[n - 1] + IF n \in S THEN SelectionWeight(d.rank[n]) ELSE 0
    IN  upTo[Cardinality(Agent)]

WeightedDraw(d, S, draw) ==
    CHOOSE a \in S : /\ draw < Weight(d, {b \in S : b =< a})
                     /\ draw >= Weight(d, {b \in S : b < a})

Chosen(sel) == {sel[i].agent : i \in DOMAIN sel}

SharedProvider(d, sel) ==
    {a \in d.qualified \ Chosen(sel) :
        Cardinality({b \in Chosen(sel) : agents[b].provider = agents[a].provider}) =< ProviderCap}
ProviderEligible(d, sel) ==
    {a \in d.qualified \ Chosen(sel) :
        Cardinality({b \in Chosen(sel) : agents[b].provider = agents[a].provider}) < ProviderCap}

(* The selections that can follow sel; sel itself when nobody is left. *)
Drawn(d, sel, triggered) ==
    LET available == ProviderEligible(d, sel)
        explores == Len(sel) = 2 /\ triggered /\ available \cap d.exploring # {}
        pool == IF explores THEN available \cap d.exploring ELSE available
        picked == {WeightedDraw(d, pool, draw) : draw \in 0..(Weight(d, pool) - 1)}
    IN  IF available = {} THEN {sel}
        ELSE {Append(sel, [agent |-> a, weight |-> SelectionWeight(d.rank[a]),
                           total |-> Weight(d, pool), exploration |-> explores]) : a \in picked}

FairShuffle(d, triggered) ==
    LET upTo[n \in 0..SelectionLimit] ==
            IF n = 0 THEN {<<>>} ELSE UNION {Drawn(d, sel, triggered) : sel \in upTo[n - 1]}
    IN  upTo[SelectionLimit]

ValidateShuffleInput(d) ==
    /\ Cardinality(d.qualified) =< MaxQualifiedPool
    /\ \A a \in d.qualified :
          Meets(d, a) /\ \A b \in d.qualified : d.rank[a] >= d.rank[b] - MaximumScoreGap

ValidateSnapshotDraft(d) ==
    /\ Cardinality(d.scored) =< MaxScoredCandidates
    /\ Cardinality(d.qualified) =< MaxQualifiedPool
    /\ d.qualified = Qualify(d)
    /\ d.qualified \subseteq d.scored
    /\ d.scored \cap d.excluded = {}

ValidateSnapshot(d, sel) ==
    \A i \in DOMAIN sel : /\ sel[i].agent \in d.qualified
                          /\ i =< 3
                          /\ sel[i].exploration => i = 3

-----------------------------------------------------------------------------
(* StartMatching: the operation's row fixes the instant, its draft the result. *)
Begin(o) ==
    /\ evaluated[o] = None /\ now < Deadline
    /\ evaluated' = [evaluated EXCEPT ![o] = now]
    /\ UNCHANGED <<agents, exposure, now, draft, snapshots>>

(* A retry after a crash evaluates the rows as they are now at the row's instant. *)
FreezeDraft(o) ==
    /\ evaluated[o] # None /\ draft[o] = <<>>
    /\ \E dense \in Dense, delta \in Delta :
          draft' = [draft EXCEPT ![o] = <<Match(evaluated[o], dense, delta)>>]
    /\ UNCHANGED <<agents, exposure, now, evaluated, snapshots>>

KnownDraft(d) == \E i \in DOMAIN snapshots : snapshots[i].key = d.key

(* A revision and the exposure of the agents it shows are one transaction under *)
(* the task's lock; a known identity returns the snapshot that has it.          *)
CreateRevision(o) ==
    /\ draft[o] # <<>>
    /\ LET d == draft[o][1] IN
        /\ ValidateSnapshotDraft(d) /\ ~ KnownDraft(d)
        /\ ValidateShuffleInput(d)
        /\ \E triggered \in BOOLEAN : \E sel \in FairShuffle(d, triggered) :
              /\ ValidateSnapshot(d, sel)
              /\ snapshots' = Append(snapshots, [key |-> d.key, by |-> o, sel |-> sel])
              /\ exposure' = [a \in Agent |-> exposure[a] + IF a \in Chosen(sel) THEN 1 ELSE 0]
    /\ UNCHANGED <<agents, now, evaluated, draft>>

(* Work elsewhere takes and gives back capacity. *)
LoadChanges(a) ==
    /\ \E n \in 0..agents[a].max :
          n # agents[a].active /\ agents' = [agents EXCEPT ![a].active = n]
    /\ UNCHANGED <<exposure, now, evaluated, draft, snapshots>>

(* An administrator's judgement of an agent: approval, risk and reputation. *)
UpdateMatchingAuthority(a) ==
    /\ \E j \in Judgement :
          agents' = [agents EXCEPT ![a].fits = j.fits, ![a].reputation = j.reputation]
    /\ UNCHANGED <<exposure, now, evaluated, draft, snapshots>>

TimePasses ==
    /\ now < MaxTime /\ now' = now + 1
    /\ UNCHANGED <<agents, exposure, evaluated, draft, snapshots>>

MatchingNext ==
    \/ \E o \in Op : Begin(o) \/ FreezeDraft(o) \/ CreateRevision(o)
    \/ \E a \in Changing : LoadChanges(a) \/ UpdateMatchingAuthority(a)
    \/ TimePasses
MatchingSpec == MatchingInit /\ [][MatchingNext]_matchingVars

-----------------------------------------------------------------------------
Drafts == {draft[o][1] : o \in {p \in Op : draft[p] # <<>>}}

(* The gap is measured from the first of the list, which may itself fail the   *)
(* floor of rule scores and stay out: it must never keep out an agent that is  *)
(* within the gap of everyone who does qualify (qualify of service.go).        *)
QualifiedIsFair ==
    \A d \in Drafts : \A a \in d.scored :
        (/\ Meets(d, a)
         /\ \A b \in d.scored : Meets(d, b) => d.rank[a] >= d.rank[b] - MaximumScoreGap)
            => a \in WithinGap(d)

(* A frozen draft is what every retry of its operation uses: one that the       *)
(* validations of CreateRevision and FairShuffle refused could never be sealed, *)
(* and the operation would fail for ever.                                       *)
DraftsAreSealable ==
    \A d \in Drafts : ValidateSnapshotDraft(d) /\ ValidateShuffleInput(d)

(* A snapshot shows as many agents as the pool's providers allow, no provider   *)
(* above its share, and none twice, whatever is drawn and wherever it explores.  *)
PanelIsFull ==
    \A i \in DOMAIN snapshots :
        LET s == snapshots[i]
            d == draft[s.by][1]
            provider(a) == s.key[2][a].provider
            share(p) == LET n == Cardinality({a \in d.qualified : provider(a) = p})
                        IN  IF n < ProviderCap THEN n ELSE ProviderCap
            places == {t \in {provider(a) : a \in d.qualified} \X (1..ProviderCap) : t[2] =< share(t[1])}
        IN  /\ Cardinality(Chosen(s.sel)) = Len(s.sel)
            /\ Len(s.sel) = IF Cardinality(places) < SelectionLimit THEN Cardinality(places) ELSE SelectionLimit
            /\ \A a \in Chosen(s.sel) :
                  Cardinality({b \in Chosen(s.sel) : provider(b) = provider(a)}) =< ProviderCap

(* Exposure, which takes an agent out of exploration, counts the snapshots that *)
(* show it: retries of an operation, and operations of one identity, count one. *)
ExposureExact ==
    /\ \A i, j \in DOMAIN snapshots : snapshots[i].key = snapshots[j].key => i = j
    /\ \A a \in Agent : exposure[a] =
          agents[a].exposed + Cardinality({i \in DOMAIN snapshots : a \in Chosen(snapshots[i].sel)})

(* What is frozen can be sealed, and what is sealed is a full panel and is     *)
(* counted as shown once (FreezeDraft, CreateRevision, FairShuffle).           *)
SnapshotsHold == DraftsAreSealable /\ PanelIsFull /\ ExposureExact
=============================================================================
