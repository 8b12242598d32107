---------------------------- MODULE UseCaseTable ----------------------------
(***************************************************************************)
(* What the two pipelines of use_case_service.py put into the use-case     *)
(* table of a project, one action per stage.  The monolithic one builds a  *)
(* floor of rows from the stored BRD/PRD (use_cases/completion.py) and     *)
(* lets the provider add detail; the split one takes modules and actors    *)
(* from the provider and selects rows among the candidates it proposes.    *)
(* Both add relationships, judge the table with use_cases/rules.py and lay *)
(* the diagram out (diagram_layout/layout.mjs).                            *)
(*                                                                         *)
(* A line of a document is what its parser makes of it, a name is a value, *)
(* a citation is what it mentions.  The provider's answers are drawn from  *)
(* small casts; they name rows and actors by their position, and one that  *)
(* is no position is an id that does not exist.                            *)
(* How the stages of two requests interleave is in UseCaseRun.             *)
(***************************************************************************)
EXTENDS Integers, Sequences, FiniteSets, SequencesExt, FiniteSetsExt

CONSTANTS
    Sources,        \* stored documents: capabilities, requirement lines, roster
    SlugOf,         \* role -> the slug its actor id is made of
    GenericRole,    \* "Stakeholder"
    NoRole,         \* a cell that names no role
    Evidence,       \* the evidence lines of the stored BRD/PRD
    DefaultCap,     \* "BC-01"
    NoCap,          \* a line without a capability
    Objective,      \* the family of a feature that lists no requirement
    FamilyOf,       \* requirement code -> family
    NameOf,         \* requirement code or feature -> title of its row
    BatchDrafts,    \* answers for one module of the monolithic pipeline
    GroupDrafts,    \* answers of the module extraction
    Shortlists,     \* candidates proposed for one module
    LinkDrafts,     \* relationships proposed
    Budget,         \* _MAX_GENERATED_USE_CASES
    ShortMin, ShortMax  \* bounds of a shortlist

IsSequence(s) == s \in Seq(ToSet(s))

\* What a parser or a schema makes of a document or an answer: lists, and the
\* priority of a candidate.
ASSUME TableConstants ==
    /\ Budget \in Nat \ {0} /\ ShortMin \in Nat \ {0} /\ ShortMax \in Nat \ {0}
    /\ ShortMin <= ShortMax
    /\ \A src \in Sources :
         /\ IsSequence(src.caps) /\ IsSequence(src.lines) /\ IsSequence(src.register)
         /\ \A i \in DOMAIN src.caps : IsSequence(src.caps[i].segment)
    /\ \A drafts \in BatchDrafts \cup Shortlists \cup LinkDrafts : IsSequence(drafts)
    /\ \A draft \in GroupDrafts :
         /\ IsSequence(draft.actors) /\ IsSequence(draft.groups)
         /\ \A i \in DOMAIN draft.groups : IsSequence(draft.groups[i].segment)
    /\ \A drafts \in Shortlists : \A i \in DOMAIN drafts :
         /\ drafts[i].priority \in {"required", "recommended", "optional"}
         /\ IsSequence(drafts[i].refs)

VARIABLES
    source,     \* the stored documents
    stage,      \* the last stage done
    table,      \* modules, actors, rows and relationships
    floor,      \* the table the source alone gives
    enriched,   \* rows rebuilt from the drafts of the batches so far
    shortlist,  \* per module asked so far, its candidates (or its batch)
    diagram     \* the actors dragged by hand, and per actor its side

vars == <<source, stage, table, floor, enriched, shortlist, diagram>>

\* S in the order R: x comes after as many as are below it.
InOrder(S, R) ==
    [n \in 1..Cardinality(S) |-> CHOOSE x \in S : Cardinality({y \in S : <<y, x>> \in R}) = n]

\* A set of positions as a sequence, and the members of s at these positions.
Positions(S) == InOrder(S, {p \in S \X S : p[1] <= p[2]})
Picked(s, S) == LET at == Positions(S) IN [n \in DOMAIN at |-> s[at[n]]]

Where(s, P(_)) == Picked(s, {i \in DOMAIN s : P(s[i])})
FirstEach(s, key(_)) ==
    Picked(s, {i \in DOMAIN s : \A j \in 1..(i - 1) : key(s[j]) # key(s[i])})
Dedup(s) == FirstEach(s, LAMBDA x : x)
Mapped(f(_), s) == [i \in DOMAIN s |-> f(s[i])]

\* The last index of s that satisfies P, or 0.
LastWith(s, P(_)) == Max({0} \cup {i \in DOMAIN s : P(s[i])})

\* s, or t when s is empty: a second source counts only without the first.
OrElse(s, t) == IF s # <<>> THEN s ELSE t

-----------------------------------------------------------------------------
(* The documents (completion.py) *)

\* _clean_actor_role: cells that name no role (a heading word, an identifier)
\* are dropped.
Cleaned(cells) == Where(cells, LAMBDA r : r # NoRole)

\* _roles_from_stakeholders: the roles of the register's roster tables.
Roster(src) ==
    Dedup(Cleaned(Mapped(LAMBDA line : line.role, Where(src.register, LAMBDA line : line.roster))))

\* _parse_capability_tables: one capability per id, the first.
TableCapabilities(src) ==
    Mapped(LAMBDA c : [id |-> c.id, segment |-> Cleaned(c.segment)],
           FirstEach(Where(src.caps, LAMBDA c : c.table), LAMBDA c : c.id))

\* _parse_capabilities: those of the tables; only without any, the headings,
\* each with the roles below it, without repeats.
Capabilities(src) ==
    OrElse(TableCapabilities(src),
           Mapped(LAMBDA c : [id |-> c.id, segment |-> Dedup(Cleaned(c.segment))], src.caps))

\* _capability_for_requirement: the capability the code hints at when the
\* source has it, else the first one.
CapabilityFor(line, caps) ==
    IF \E i \in DOMAIN caps : caps[i].id = line.cap THEN line.cap
    ELSE IF caps = <<>> THEN DefaultCap ELSE caps[1].id

\* Requirements filed under their families; a family is named by its first.
Filed(reqs) ==
    LET codes(r) == {reqs[j].code : j \in {j \in DOMAIN reqs :
                         reqs[j].cap = r.cap /\ reqs[j].family = r.family}}
    IN  Mapped(LAMBDA r : [cap |-> r.cap, family |-> r.family,
                           name |-> NameOf[r.code], codes |-> codes(r)],
               FirstEach(reqs, LAMBDA r : <<r.cap, r.family>>))

\* _parse_requirement_tables: one family per requirement of a table.
TableFamilies(src, caps) ==
    Filed(Mapped(LAMBDA line : [cap |-> CapabilityFor(line, caps), family |-> line.code,
                                code |-> line.code],
                 Where(src.lines, LAMBDA line : line.form = "table")))

\* The heading a line is below, or 0.
Heading(lines, i) == Max({0} \cup {j \in 1..(i - 1) : lines[j].form = "feature"})

\* The older documents, 444-518: a requirement belongs to the capability it
\* names, else to the feature it is below.
Required(lines, i) ==
    [cap |-> IF lines[i].cap # NoCap THEN lines[i].cap
             ELSE IF Heading(lines, i) # 0 THEN lines[Heading(lines, i)].id ELSE DefaultCap,
     family |-> FamilyOf[lines[i].code], code |-> lines[i].code]

\* 519-534: a feature without a requirement below its last heading becomes
\* one inferred family, unless there is one of that name.
Bare(lines, families) ==
    LET coded == {i \in DOMAIN lines : lines[i].form # "feature"}
        last(f) == LastWith(lines, LAMBDA x : x.form = "feature" /\ x.id = f)
        opened == FirstEach(Where(lines, LAMBDA x : x.form = "feature"), LAMBDA x : x.id)
    IN  Where(opened, LAMBDA x :
            /\ \A i \in coded : Heading(lines, i) # last(x.id)
            /\ \A i \in DOMAIN families :
                  families[i].cap # x.id \/ families[i].family # Objective)

ProseFamilies(src) ==
    LET coded == {i \in DOMAIN src.lines : src.lines[i].form # "feature"}
        families == Filed(Mapped(LAMBDA i : Required(src.lines, i), Positions(coded)))
    IN  families \o Mapped(LAMBDA x : [cap |-> x.id, family |-> Objective,
                                      name |-> NameOf[x.id], codes |-> {}],
                          Bare(src.lines, families))

\* _parse_requirement_families: prose counts only where no table does.
Families(src) ==
    OrElse(TableFamilies(src, Capabilities(src)), ProseFamilies(src))

-----------------------------------------------------------------------------
(* The floor (completion.py) *)

\* 83-89: requirements without any capability share one.
CapsOf(caps, families) ==
    IF caps = <<>> /\ families # <<>>
    THEN <<[id |-> DefaultCap, segment |-> <<>>]>> ELSE caps

ActorId(role) == <<SlugOf[role], 1>>

\* 103-131: the roles of the capabilities; without any, the roster of the
\* stakeholder register; requirements without either get the generic role.
\* Roles with one slug are one actor, named by the first.
FloorRoles(caps, families, roster) ==
    LET segments == FlattenSeq(Mapped(LAMBDA c : c.segment, caps))
        generic == IF families # <<>> THEN <<GenericRole>> ELSE <<>>
    IN  FirstEach(OrElse(segments, OrElse(roster, generic)), LAMBDA r : SlugOf[r])

\* 140-177: the row of a family, under its capability or the first one; the
\* first role of the segment initiates it and the others support it.
FloorRow(caps, everyone, f) ==
    LET home == Max({1, LastWith(caps, LAMBDA c : c.id = f.cap)})
        roles == OrElse(caps[home].segment, <<everyone[1]>>)
    IN  [id |-> <<f.cap, f.family>>, name |-> f.name, module |-> <<"SUB", home>>,
         primary |-> ActorId(roles[1]),
         secondary |-> {ActorId(roles[i]) : i \in 2..Len(roles)} \ {ActorId(roles[1])},
         codes |-> f.codes]

\* _build_source_model, 103-190: the capabilities are the modules, the roles
\* the actors, the families the rows.
FloorTable(caps, everyone, families) ==
    [modules |-> [i \in DOMAIN caps |-> <<"SUB", i>>],
     actors |-> Mapped(LAMBDA r : [id |-> ActorId(r), name |-> r], everyone),
     rows |-> Mapped(LAMBDA f : FloorRow(caps, everyone, f), families),
     relations |-> <<>>]

\* _build_source_model.
Floor(src) ==
    LET families == Families(src)
        caps == CapsOf(Capabilities(src), families)
    IN  FloorTable(caps, FloorRoles(caps, families, Roster(src)), families)

ActorIds(t) == {t.actors[i].id : i \in DOMAIN t.actors}
RowIds(t) == {t.rows[i].id : i \in DOMAIN t.rows}
RowsOf(t, module) == Where(t.rows, LAMBDA row : row.module = module)

\* 351-353: the modules worth a call.
Batches(t) == Where(t.modules, LAMBDA m : RowsOf(t, m) # <<>>)

-----------------------------------------------------------------------------
(* The provider's details *)

\* A floor row as its draft rewrites it, 2304-2331.
Detailed(t, target, draft) ==
    [target EXCEPT !.primary = IF draft.actor \in DOMAIN t.actors THEN t.actors[draft.actor].id ELSE @,
                   !.secondary = {},
                   !.codes = IF draft.codes # {} THEN draft.codes ELSE @]

\* _candidate_rows_from_drafts: a draft finds its row in the module by tag,
\* else by name; the first usable draft of a row counts.
CandidateRows(t, module, drafts) ==
    LET mine == RowsOf(t, module)
        named(d) == LastWith(mine, LAMBDA row : row.name = d.name)
        target(d) == IF d.tag \in DOMAIN mine THEN d.tag ELSE named(d)
        usable == Where(drafts, LAMBDA d : d.valid /\ target(d) # 0)
    IN  Mapped(LAMBDA d : Detailed(t, mine[target(d)], d),
               FirstEach(usable, LAMBDA d : mine[target(d)].id))

\* Mutant of Improved: a draft's requirement links replace those of the source.
ImprovedReplaces(row, candidate) ==
    [row EXCEPT !.primary = candidate.primary, !.secondary = candidate.secondary,
                !.codes = candidate.codes]

\* A row with the details of its candidate: links are added, never removed.
Improved(row, candidate) ==
    [row EXCEPT !.primary = candidate.primary, !.secondary = candidate.secondary,
                !.codes = @ \cup candidate.codes]

\* _merge_candidate_details, 232-270: every row of the floor stays.
Merged(t, candidates) ==
    LET at(row) == LastWith(candidates, LAMBDA c : c.id = row.id)
    IN  [t EXCEPT !.rows = Mapped(LAMBDA row : IF at(row) = 0 THEN row
                                               ELSE Improved(row, candidates[at(row)]), @)]

-----------------------------------------------------------------------------
(* Selection among candidates *)

\* _next_id, _next_use_case_id: the first id of a base that is free is numbered
\* after those before it.
Numbered(bases) ==
    [i \in DOMAIN bases |-> <<bases[i], Cardinality({j \in 1..i : bases[j] = bases[i]})>>]

\* generate_groups, 632-668: the actors and modules of the answer, and an
\* actor for every role of a segment nobody has the name of.  Without any
\* module, the modules and the actors of the floor.
Grouped(src, draft) ==
    LET roles == Dedup(FlattenSeq(Mapped(LAMBDA g : g.segment, draft.groups)))
        names == draft.actors \o Where(roles, LAMBDA r : ~Contains(draft.actors, r))
        ids == Numbered(Mapped(LAMBDA r : SlugOf[r], names))
    IN  IF draft.groups = <<>> THEN [Floor(src) EXCEPT !.rows = <<>>]
        ELSE [modules |-> Numbered(Mapped(LAMBDA g : g.name, draft.groups)),
              actors |-> [i \in DOMAIN names |-> [id |-> ids[i], name |-> names[i]]],
              rows |-> <<>>, relations |-> <<>>]

\* _candidate_limit: about twice the budget over all modules.
CandidateLimit(t) ==
    LET n == Max({1, Len(t.modules)})
    IN  Max({ShortMin, Min({ShortMax, (2 * Budget + n - 1) \div n})})

\* canonical_evidence_refs, 550-595: a label that is an evidence id, else the
\* first code in it that the evidence knows, else a locator it contains; of
\* several lines, the one of the most precise kind.
Resolved(label) ==
    LET ids == {e.id : e \in Evidence}
        coded(code) == {e \in Evidence : e.entity = code}
        known == Where(label.codes, LAMBDA code : coded(code) # {})
        located == {e \in Evidence : e.locator = label.locator}
        precise(S) == {(CHOOSE e \in S : \A x \in S : e.precision <= x.precision).id}
    IN  IF label.id \in ids THEN {label.id}
        ELSE IF known # <<>> THEN precise(coded(known[1]))
        ELSE IF located # {} THEN precise(located) ELSE {}

Citations(c) == UNION {Resolved(c.refs[i]) : i \in DOMAIN c.refs}

\* 134-138: priority, then explicit evidence, then citations.
Score(c) ==
    [required |-> 30, recommended |-> 20, optional |-> 10][c.priority]
        + (IF c.explicit THEN 5 ELSE 0) + Min({Cardinality(Citations(c)), 3})

\* 147: the order candidates are taken in.
Better(c, d) ==
    \/ Score(c) > Score(d)
    \/ Score(c) = Score(d) /\ c.rank < d.rank
    \/ Score(c) = Score(d) /\ c.rank = d.rank /\ c.order < d.order

\* The candidates of every module.
Proposed(t, lists) ==
    UNION {{[name |-> lists[i][k].name, actor |-> lists[i][k].actor,
             priority |-> lists[i][k].priority, explicit |-> lists[i][k].explicit,
             refs |-> lists[i][k].refs, module |-> t.modules[i], order |-> i, rank |-> k] :
            k \in DOMAIN lists[i]} : i \in DOMAIN lists}

\* 123-145: the candidates that cite the source and have a known actor, one
\* per name, the better one and on a tie the earlier.
Filtered(t, lists) ==
    LET usable == {c \in Proposed(t, lists) :
                     Citations(c) # {} /\ c.actor \in DOMAIN t.actors}
        earlier(c, d) == c.order < d.order \/ (c.order = d.order /\ c.rank < d.rank)
    IN  {c \in usable : \A d \in usable :
           d.name = c.name /\ d # c =>
               Score(c) > Score(d) \/ (Score(c) = Score(d) /\ earlier(c, d))}

\* What a pass covers once: an actor, a module, or only the candidate itself.
Key(c, by) ==
    CASE by = "actor" -> <<c.actor>> [] by = "module" -> <<c.order>>
      [] OTHER -> <<c.order, c.rank>>

\* One pass over the pool: the best candidate whose key is not covered yet,
\* again and again, within the budget.
Pass(pool, chosen, covered, by) ==
    LET open(C) == {c \in pool \ C : /\ Key(c, by) \notin covered
                                    /\ \A d \in C \ chosen : Key(d, by) # Key(c, by)}
        best(A) == CHOOSE c \in A : \A d \in A \ {c} : Better(c, d)
        next(C) == IF Cardinality(C) >= Budget \/ open(C) = {} THEN C ELSE C \cup {best(open(C))}
        taken[n \in 0..Budget] == IF n = 0 THEN chosen ELSE next(taken[n - 1])
    IN  taken[Budget]

\* Mutant of Fill: a pass forgets what the passes before it covered.
FillForgets(pool, chosen, by) == Pass(pool, chosen, {}, by)

\* fill.
Fill(pool, chosen, by) == Pass(pool, chosen, {Key(c, by) : c \in chosen}, by)

\* _select_candidates: one per actor, one per module, the best of the rest;
\* then in the order of the modules.
Selected(t, lists) ==
    LET pool == Filtered(t, lists)
        byActor == Fill(pool, {}, "actor")
        byModule == Fill(pool, byActor, "module")
        full == Fill(pool, byModule, "any")
        upTo(c, d) == c = d \/ c.order < d.order \/ (c.order = d.order /\ Better(c, d))
    IN  InOrder(full, {p \in full \X full : upTo(p[1], p[2])})

\* _drop_actors_without_use_cases.
WithoutIdleActors(t) ==
    LET used == UNION {{t.rows[i].primary} \cup t.rows[i].secondary : i \in DOMAIN t.rows}
    IN  [t EXCEPT !.actors = Where(@, LAMBDA a : a.id \in used)]

-----------------------------------------------------------------------------
(* Relationships *)

\* 1665-1684: what one proposed relationship must be to be recorded.
Recordable(t, d) ==
    /\ {d.from, d.to} \subseteq DOMAIN t.rows
    /\ d.from # d.to
    /\ d.kind = "extend" => d.condition
    /\ d.cited

\* The recordable ones, and of those the first of each pair of rows.
Good(t, drafts) == Where(drafts, LAMBDA d : Recordable(t, d))
Accepted(t, drafts) == FirstEach(Good(t, drafts), LAMBDA d : {d.from, d.to})

\* An include is kept when at least two of these share its target.
Shared(d, among) ==
    d.kind = "include" =>
        Cardinality({i \in DOMAIN among : among[i].kind = "include" /\ among[i].to = d.to}) >= 2

Recorded(t, d) ==
    [from |-> t.rows[d.from].id, to |-> t.rows[d.to].id, kind |-> d.kind, condition |-> d.condition]

\* Mutant of Related: includes are counted before the pairs are judged.
RelatedCountsAll(t, drafts) ==
    LET kept == Where(Accepted(t, drafts), LAMBDA d : Shared(d, Good(t, drafts)))
    IN  [t EXCEPT !.relations = Mapped(LAMBDA d : Recorded(t, d), kept)]

\* _apply_relationship_drafts.
Related(t, drafts) ==
    LET kept == Where(Accepted(t, drafts), LAMBDA d : Shared(d, Accepted(t, drafts)))
    IN  [t EXCEPT !.relations = Mapped(LAMBDA d : Recorded(t, d), kept)]

-----------------------------------------------------------------------------
(* What rules.py finds wrong with a table *)

\* _validate_use_case: the module and the actors of a row.
RowIssues(t, row) ==
    {c \in {"UNKNOWN_MODULE", "UNKNOWN_ACTOR", "DUPLICATE_ACTOR_ROLE"} :
        \/ c = "UNKNOWN_MODULE" /\ row.module \notin ToSet(t.modules)
        \/ c = "UNKNOWN_ACTOR" /\ ~({row.primary} \cup row.secondary \subseteq ActorIds(t))
        \/ c = "DUPLICATE_ACTOR_ROLE" /\ row.primary \in row.secondary}

\* _validate_relation: its ends and its condition.
RelationIssues(t, rel) ==
    IF rel.from = rel.to THEN {"SELF_RELATIONSHIP"}
    ELSE {c \in {"RELATION_ENDPOINTS", "EXTEND_CONDITION_REQUIRED"} :
            \/ c = "RELATION_ENDPOINTS" /\ ~({rel.from, rel.to} \subseteq RowIds(t))
            \/ c = "EXTEND_CONDITION_REQUIRED" /\ rel.kind = "extend" /\ ~rel.condition}

Includes(t) == Where(t.relations, LAMBDA r : r.kind = "include")

\* _has_cycle: some includes lead from a row back to itself.
IncludeCycle(t) ==
    \E S \in SUBSET RowIds(t) :
        S # {} /\ \A x \in S : \E i \in DOMAIN Includes(t) :
                      Includes(t)[i].from = x /\ Includes(t)[i].to \in S

\* _validate_actor_coverage.
IdleActors(t) ==
    {a \in ActorIds(t) : \A i \in DOMAIN t.rows : a \notin {t.rows[i].primary} \cup t.rows[i].secondary}

\* 161-197: the checks on the relationships and the table as a whole.
WholeIssues(t) ==
    LET same(i, j) == /\ t.relations[i].kind = t.relations[j].kind
                      /\ t.relations[i].from = t.relations[j].from
                      /\ t.relations[i].to = t.relations[j].to
        sharing(r) == {i \in DOMAIN Includes(t) : Includes(t)[i].to = r.to}
    IN  {c \in {"DUPLICATE_RELATIONSHIP", "INCLUDE_NOT_SHARED", "INCLUDE_CYCLE",
                "ACTOR_WITHOUT_USE_CASE", "NO_USE_CASES"} :
        \/ c = "DUPLICATE_RELATIONSHIP"
            /\ \E i, j \in DOMAIN t.relations : i # j /\ same(i, j)
        \/ c = "INCLUDE_NOT_SHARED"
            /\ \E i \in DOMAIN Includes(t) : Cardinality(sharing(Includes(t)[i])) < 2
        \/ c = "INCLUDE_CYCLE" /\ IncludeCycle(t)
        \/ c = "ACTOR_WITHOUT_USE_CASE" /\ IdleActors(t) # {}
        \/ c = "NO_USE_CASES" /\ t.rows = <<>>}

\* validate_use_case_model, the codes about structure.
Issues(t) ==
    (UNION {RowIssues(t, t.rows[i]) : i \in DOMAIN t.rows})
        \cup (UNION {RelationIssues(t, t.relations[i]) : i \in DOMAIN t.relations})
        \cup WholeIssues(t)

-----------------------------------------------------------------------------
(* The diagram's actors (layout.mjs) *)

\* The lines from use cases to the actors of A.
Drawn(t, A) ==
    {l \in (DOMAIN t.rows) \X {"primary", "secondary"} \X A :
        IF l[2] = "primary" THEN t.rows[l[1]].primary = l[3] ELSE l[3] \in t.rows[l[1]].secondary}

Weight(t, a) == Cardinality(Drawn(t, {a}))
SideWeight(t, side, s) == Cardinality(Drawn(t, {a \in DOMAIN side : side[a] = s}))

\* Mutant of Lighter: the weight of the actors placed so far is not counted.
LighterOfPinned(t, pinned, side) ==
    IF SideWeight(t, pinned, "left") <= SideWeight(t, pinned, "right") THEN "left" ELSE "right"

\* The side the next actor goes to: the lighter one so far.
Lighter(t, pinned, side) ==
    IF SideWeight(t, side, "left") <= SideWeight(t, side, "right") THEN "left" ELSE "right"

\* The next actor to place (of several, the code takes the first by name).
Heaviest(t, A) == CHOOSE a \in A : \A b \in A : Weight(t, b) <= Weight(t, a)

Put(side, a, s) == [x \in DOMAIN side \cup {a} |-> IF x = a THEN s ELSE side[x]]

\* actorSides: the actors dragged by hand stay on their side; the others,
\* heaviest first, go to the side that is lighter by then.
ActorSides(t, pinned) ==
    LET free == ActorIds(t) \ DOMAIN pinned
        next(side) == Put(side, Heaviest(t, free \ DOMAIN side), Lighter(t, pinned, side))
        sides[n \in 0..Cardinality(free)] == IF n = 0 THEN pinned ELSE next(sides[n - 1])
    IN  sides[Cardinality(free)]

-----------------------------------------------------------------------------
Empty == [modules |-> <<>>, actors |-> <<>>, rows |-> <<>>, relations |-> <<>>]

Init ==
    /\ source \in Sources
    /\ stage = "stored"
    /\ table = Empty /\ floor = Floor(source)
    /\ enriched = <<>> /\ shortlist = <<>> /\ diagram = [pinned |-> <<>>, side |-> <<>>]

\* generate, 340-350: the floor, complete_use_case_table(source), is the plan
\* of the batches.
BuildFloor ==
    /\ stage = "stored"
    /\ stage' = "batches" /\ table' = floor
    /\ UNCHANGED <<source, floor, enriched, shortlist, diagram>>

\* generate_module, 356-411: one call per module that has rows, in turn.  A
\* call that fails or times out yields no draft.
EnrichBatch ==
    /\ stage = "batches" /\ Len(shortlist) < Len(Batches(floor))
    /\ \E drafts \in BatchDrafts :
         LET module == Batches(floor)[Len(shortlist) + 1]
         IN  enriched' = enriched \o CandidateRows(floor, module, drafts)
    /\ shortlist' = Append(shortlist, <<>>)
    /\ UNCHANGED <<source, stage, table, floor, diagram>>

\* complete_use_case_table with the rows of the batches, 421-430.
CompleteTable ==
    /\ stage = "batches" /\ Len(shortlist) = Len(Batches(floor))
    /\ stage' = "table" /\ table' = Merged(Floor(source), enriched)
    /\ UNCHANGED <<source, floor, enriched, shortlist, diagram>>

\* generate_groups: the provider's modules and actors.
GenerateGroups ==
    /\ stage = "stored"
    /\ \E draft \in GroupDrafts : table' = Grouped(source, draft)
    /\ stage' = "groups"
    /\ UNCHANGED <<source, floor, enriched, shortlist, diagram>>

\* generate_module_candidates, its drafts[:limit]; none when the call failed.
ProposeCandidates ==
    /\ stage = "groups" /\ Len(shortlist) < Len(table.modules)
    /\ \E drafts \in Shortlists :
         shortlist' = Append(shortlist, SubSeq(drafts, 1, Min({Len(drafts), CandidateLimit(table)})))
    /\ UNCHANGED <<source, stage, table, floor, enriched, diagram>>

\* select_use_cases: the rows of the selected candidates, then the actors
\* nobody needs any more go.
SelectRows ==
    /\ stage = "groups" /\ Len(shortlist) = Len(table.modules)
    /\ enriched' = Selected(table, shortlist)
    /\ LET ids == Numbered(Mapped(LAMBDA c : c.module, enriched'))
           row(n) == [id |-> ids[n], name |-> enriched'[n].name, module |-> enriched'[n].module,
                      primary |-> table.actors[enriched'[n].actor].id,
                      secondary |-> {}, codes |-> {}]
       IN  table' = WithoutIdleActors([table EXCEPT !.rows = [n \in DOMAIN enriched' |-> row(n)],
                                                    !.relations = <<>>])
    /\ stage' = "selected"
    /\ UNCHANGED <<source, floor, shortlist, diagram>>

\* The relationships of the whole table: _resolve_relationships_with_client,
\* which drops idle actors last, and generate_relations.
Relate ==
    /\ stage = "selected" \/ (stage = "table" /\ table.rows # <<>>)
    /\ \E drafts \in LinkDrafts :
         table' = IF stage = "table" THEN WithoutIdleActors(Related(table, drafts))
                  ELSE Related(table, drafts)
    /\ stage' = "related"
    /\ UNCHANGED <<source, floor, enriched, shortlist, diagram>>

\* The call for the relationships fails, or there is no row to relate.
RelateFails ==
    /\ stage \in {"table", "selected"}
    /\ stage' = "unrelated"
    /\ UNCHANGED <<source, table, floor, enriched, shortlist, diagram>>

\* _attach_diagram_layout, with an actor the user has dragged to a side.
LayOut ==
    /\ stage \in {"related", "unrelated"}
    /\ \E pinned \in {<<>>} \cup {Put(<<>>, a, s) : a \in ActorIds(table), s \in {"left", "right"}} :
         diagram' = [pinned |-> pinned, side |-> ActorSides(table, pinned)]
    /\ stage' = "laid"
    /\ UNCHANGED <<source, table, floor, enriched, shortlist>>

Next ==
    \/ BuildFloor \/ EnrichBatch \/ CompleteTable
    \/ GenerateGroups \/ ProposeCandidates \/ SelectRows
    \/ Relate \/ RelateFails \/ LayOut

Spec == Init /\ [][Next]_vars

-----------------------------------------------------------------------------
(* Properties *)

\* The codes of a source's table lines or, when it has no table, of its prose
\* lines.
StatedCodes(src) ==
    LET lines == ToSet(src.lines)
        tabled == {x \in lines : x.form = "table"}
    IN  {x.code : x \in (IF tabled # {} THEN tabled ELSE {x \in lines : x.form = "prose"})}

\* complete_use_case_table, 66-71: whatever the provider answers, the table of
\* the monolithic pipeline keeps a row for every requirement the source
\* states, its rows have distinct ids, and each has a known module and actor.
FloorIsKept ==
    stage \in {"batches", "table"} =>
        /\ \A c \in StatedCodes(source) : \E i \in DOMAIN table.rows : c \in table.rows[i].codes
        /\ \A i, j \in DOMAIN table.rows : table.rows[i].id = table.rows[j].id => i = j
        /\ \A i \in DOMAIN table.rows :
             RowIssues(table, table.rows[i]) \cap {"UNKNOWN_MODULE", "UNKNOWN_ACTOR"} = {}

\* What the pipelines hand over passes their own validator (rules.py): after
\* the relationships, no answer of the provider leaves a dangling end, a role
\* held twice, an include that is not shared or an actor without a use case.
\* Only an empty table and a cycle of includes can be wrong with it.
TableIsSound ==
    stage = "related" => Issues(table) \subseteq {"NO_USE_CASES", "INCLUDE_CYCLE"}

\* _select_candidates, 113-116: the budget is used up as far as names allow;
\* no actor is left out for the second row of another, no module for a second
\* row of both its actor and its module; an actor gets its best candidates,
\* and a better candidate gives way only to the best of an actor or a module.
SelectionCovers ==
    [][stage = "groups" /\ stage' = "selected" =>
        LET pool == Filtered(table, shortlist)
            names == {c.name : c \in pool}
            chosen == ToSet(enriched')
            best(d, S) == \A x \in S : Score(x) <= Score(d)
            ofActor(c) == {x \in pool : x.actor = c.actor}
            ofModule(c) == {x \in pool : x.order = c.order}
        IN
        /\ Len(table'.rows) = Min({Budget, Cardinality(names)})
        /\ Cardinality({c.name : c \in chosen}) = Len(table'.rows)
        /\ {c.actor : c \in chosen} # {c.actor : c \in pool} =>
             \A c, d \in chosen : c.actor = d.actor => c = d
        /\ {c.order : c \in chosen} # {c.order : c \in pool} =>
             \A c, d \in chosen : c.actor = d.actor /\ c.order = d.order => c = d
        /\ \A c \in pool \ chosen, d \in chosen :
             Score(c) > Score(d) => best(d, ofActor(d)) \/ best(d, ofModule(d))]_vars

\* layout.mjs, 185-219: the two columns of actors differ by no more than the
\* heaviest actor the layout could place, or by what the dragged actors leave
\* when all the others stand opposite.
SidesBalanced ==
    stage = "laid" =>
        LET left == SideWeight(table, diagram.side, "left")
            right == SideWeight(table, diagram.side, "right")
            free == ActorIds(table) \ DOMAIN diagram.pinned
            gap(a, b) == Max({a - b, b - a})
            dragged == gap(SideWeight(table, diagram.pinned, "left"),
                           SideWeight(table, diagram.pinned, "right"))
            placed == Cardinality(Drawn(table, free))
        IN  /\ DOMAIN diagram.side = ActorIds(table)
            /\ gap(left, right) <= Max({0, dragged - placed} \cup {Weight(table, a) : a \in free})

=============================================================================
