---------------------------- MODULE BuyerIdentity ----------------------------
(***************************************************************************)
(* Which company a found, reviewed or imported candidate is: services/     *)
(* evidence_service.py and research_candidate_review.py (discovery, page   *)
(* review and repair), services/buyer_import.py with api/routes/           *)
(* buyer_imports.py and db/buyer_imports.py (files of candidates).         *)
(*                                                                         *)
(* A run writes all the hits of one search in one transaction under the    *)
(* lock of its row; transactions of different runs interleave statement    *)
(* by statement and see only what is committed. The unique index on the    *)
(* registry id makes an insert wait for another one under way. Imports of  *)
(* a workspace are serialized by an advisory lock, but not with runs.      *)
(*                                                                         *)
(* A company is identified by the row that first wrote it, <<writer, i>>.  *)
(* Left out: which sources a claim may cite, assessments (BuyerAssessment).    *)
(***************************************************************************)
EXTENDS Integers, FiniteSets, Sequences

CONSTANTS Runs, Hits,          \* Hits[r]: the candidates of run r, as found
          Pages,               \* raws of the page runner: written unmapped
          Imports, Files,      \* a file is a sequence of rows [name, domain]
          Home, Projects,      \* the project of each run, page and import
          MaxAttempts, MaxReviews

VARIABLES companies, mapped, buyers, evidence, counted, tx, imports, importing,
          attempts, reviews

identityVars == <<companies, mapped, buyers, evidence, counted, tx, imports, importing,
                  attempts, reviews>>

None == "none"
Idle == [open |-> FALSE, at |-> 0, stage |-> "read", known |-> FALSE, made |-> {},
         chosen |-> <<None, 0>>, maps |-> << >>]
Raws == {<<r, i>> : r \in Runs, i \in 1..2} \cup {<<p, 1>> : p \in Pages}

Company(id, hit) == [id |-> id, registry |-> hit.registry, domain |-> hit.domain, name |-> hit.name]

------------------------------------------------------------------------------
(* persist_candidate_evidence, one hit after the other                     *)

Visible(r) == companies \cup tx[r].made
Hit(r) == Hits[r][tx[r].at]
Raw(r) == <<r, tx[r].at>>
Registered(r) == {c \in Visible(r) : Hit(r).registry # None /\ c.registry = Hit(r).registry}
IsOpen(r) == tx[r].open /\ tx[r].at <= Len(Hits[r])

BeginRun(r) ==
    /\ ~tx[r].open /\ attempts < MaxAttempts
    /\ attempts' = attempts + 1
    /\ tx' = [tx EXCEPT ![r] = [Idle EXCEPT !.open = TRUE, !.at = 1]]
    /\ UNCHANGED <<companies, mapped, buyers, evidence, counted, imports, importing, reviews>>

\* The raw is inserted or found; a mapped one keeps its company.
ReadRegistry(r) ==
    /\ IsOpen(r) /\ tx[r].stage = "read"
    /\ IF Raw(r) \in DOMAIN mapped THEN tx' = [tx EXCEPT ![r].at = @ + 1]
       ELSE tx' = [tx EXCEPT ![r] = [@ EXCEPT !.stage = "insert", !.known = Registered(r) # {}]]
    /\ UNCHANGED <<companies, mapped, buyers, evidence, counted, imports, importing, attempts, reviews>>

\* Mutant: an insert does not wait for the one under way.
IndexIsFree_Unchecked(r) == tx[r].open

\* ON CONFLICT DO NOTHING waits for the transaction that holds the same key.
IndexIsFree(r) ==
    \A other \in Runs \ {r} : \A c \in tx[other].made :
        c.registry = None \/ c.registry # Hit(r).registry

InsertCompany(r) ==
    /\ IsOpen(r) /\ tx[r].stage = "insert" /\ IndexIsFree(r)
    /\ IF Registered(r) = {}
       THEN tx' = [tx EXCEPT ![r] = [@ EXCEPT !.stage = "decide", !.chosen = Raw(r),
                                             !.made = tx[r].made \cup {Company(Raw(r), Hit(r))}]]
       ELSE tx' = [tx EXCEPT ![r] = [@ EXCEPT !.stage = "decide",
                                             !.chosen = (CHOOSE c \in Registered(r) : TRUE).id]]
    /\ UNCHANGED <<companies, mapped, buyers, evidence, counted, imports, importing, attempts, reviews>>

\* Names and domains never merge; a shared domain asks for a person.
Decision(r) ==
    IF Hit(r).registry = None \/ \E c \in Visible(r) : c.domain = Hit(r).domain /\ c.id # tx[r].chosen
    THEN "needs_review"
    ELSE IF tx[r].known THEN "exact_registry" ELSE "created"

DecideMapping(r) ==
    /\ IsOpen(r) /\ tx[r].stage = "decide"
    /\ tx' = [tx EXCEPT ![r] = [@ EXCEPT !.stage = "read", !.at = tx[r].at + 1,
                  !.maps = [raw \in DOMAIN tx[r].maps \cup {Raw(r)} |->
                                IF raw = Raw(r) THEN <<[company |-> tx[r].chosen, state |-> Decision(r)]>>
                                ELSE tx[r].maps[raw]]]]
    /\ UNCHANGED <<companies, mapped, buyers, evidence, counted, imports, importing, attempts, reviews>>

Current(maps, raw) == maps[raw][Len(maps[raw])].company

\* The count of companies of a run may only grow: finalize_discovery raises
\* otherwise, as it does after a repair that joined two of them.
CommitRun(r) ==
    LET all == [raw \in DOMAIN mapped \cup DOMAIN tx[r].maps |->
                    IF raw \in DOMAIN mapped THEN mapped[raw] ELSE tx[r].maps[raw]]
        own == {raw \in DOMAIN all : raw[1] = r}
        unique == Cardinality({Current(all, raw) : raw \in own})
    IN
    /\ tx[r].open /\ tx[r].at > Len(Hits[r]) /\ unique >= counted[r]
    /\ companies' = companies \cup tx[r].made
    /\ mapped' = all
    /\ buyers' = buyers \cup {<<Home[r], Current(all, raw)>> : raw \in own}
    /\ evidence' = evidence \cup {<<raw, Current(all, raw)>> : raw \in own}
    /\ counted' = [counted EXCEPT ![r] = unique]
    /\ tx' = [tx EXCEPT ![r] = Idle]
    /\ UNCHANGED <<imports, importing, attempts, reviews>>

\* The worker dies, or PostgreSQL breaks a cycle of waits: nothing is kept.
RollBackRun(r) ==
    /\ tx[r].open
    /\ tx' = [tx EXCEPT ![r] = Idle]
    /\ UNCHANGED <<companies, mapped, buyers, evidence, counted, imports, importing, attempts, reviews>>

------------------------------------------------------------------------------
(* What a person decides about one candidate                               *)

Reviewed(raw, id, state) ==
    mapped' = [x \in DOMAIN mapped \cup {raw} |->
                   IF x # raw THEN mapped[x]
                   ELSE (IF raw \in DOMAIN mapped THEN mapped[raw] ELSE << >>)
                            \o <<[company |-> id, state |-> state]>>]

\* A repeated review with the same material answers what was decided before.
ReviewPage(p, id) ==
    /\ <<p, 1>> \notin DOMAIN mapped
    /\ Reviewed(<<p, 1>>, id, "reviewed_page")
    /\ buyers' = buyers \cup {<<Home[p], id>>}
    /\ evidence' = evidence \cup {<<<<p, 1>>, id>>}
    /\ UNCHANGED <<companies, counted, tx, imports, importing, attempts, reviews>>

\* The old alias is superseded, the evidence that names it stays. Only tests
\* call this function so far.
RepairMapping(raw, id) ==
    /\ reviews < MaxReviews /\ raw \in DOMAIN mapped /\ Current(mapped, raw) # id
    /\ raw[1] \in Runs => ~tx[raw[1]].open
    /\ reviews' = reviews + 1
    /\ Reviewed(raw, id, "reviewed_split")
    /\ UNCHANGED <<companies, buyers, evidence, counted, tx, imports, importing, attempts>>

------------------------------------------------------------------------------
(* Files of candidates                                                     *)

Keys(x) == {<<"name", x.name>>} \cup (IF x.domain = None THEN {} ELSE {<<"domain", x.domain>>})
Meet(x, y) == Keys(x) \cap Keys(y) # {}

\* Row i against the companies and against the rows found before it: the
\* identities it may have, and "invalid" when they are several or a company
\* that is no buyer of the project.
Identified(project, rows, found, i) ==
    LET known == {c.id : c \in {c \in companies : Meet(c, rows[i])}}
        seen == {found[j].is : j \in {j \in 1..(i - 1) : found[j].status # "invalid" /\ Meet(rows[j], rows[i])}}
        all == known \cup seen
        only == CHOOSE x \in all : TRUE
    IN  IF all = {} THEN [status |-> "ready", is |-> <<"row", i>>]
        ELSE IF Cardinality(all) > 1 \/ (only[1] # "row" /\ <<project, only>> \notin buyers)
             THEN [status |-> "invalid", is |-> <<"row", i>>]
        ELSE [status |-> "duplicate", is |-> only]

Classified(project, rows) ==
    LET row[i \in DOMAIN rows] == Identified(project, rows, row, i)
    IN  row

CanImport(rows) ==
    /\ \A i \in DOMAIN rows : rows[i].status # "invalid"
    /\ \E i \in DOMAIN rows : rows[i].status = "ready"

Staged(k) == imports[k].status # None

PreviewImport(k, file) ==
    /\ ~Staged(k)
    /\ imports' = [imports EXCEPT ![k] = [file |-> file, rows |-> Classified(Home[k], file), status |-> "previewed"]]
    /\ UNCHANGED <<companies, mapped, buyers, evidence, counted, tx, importing, attempts, reviews>>

\* Two hours later the preview is of no use any more.
PreviewExpires(k) ==
    /\ imports[k].status = "previewed" /\ importing # k
    /\ imports' = [imports EXCEPT ![k].status = "expired"]
    /\ UNCHANGED <<companies, mapped, buyers, evidence, counted, tx, importing, attempts, reviews>>

\* Each row is what it is found to be now.
Matched(k) ==
    \A i \in DOMAIN imports[k].file :
        imports[k].rows[i] = Identified(Home[k], imports[k].file, imports[k].rows, i)

\* confirm_import up to its writes: what the preview said must still be so,
\* under the lock that no other import of the workspace holds.
ConfirmImport(k) ==
    /\ imports[k].status = "previewed" /\ CanImport(imports[k].rows)
    /\ importing = None /\ Matched(k)
    /\ importing' = k
    /\ UNCHANGED <<companies, mapped, buyers, evidence, counted, tx, imports, attempts, reviews>>

Ready(k) == {i \in DOMAIN imports[k].file : imports[k].rows[i].status = "ready"}

CommitImport(k) ==
    LET row(i) == [registry |-> None, domain |-> imports[k].file[i].domain, name |-> imports[k].file[i].name] IN
    /\ importing = k
    /\ importing' = None
    /\ imports' = [imports EXCEPT ![k].status = "completed"]
    /\ companies' = companies \cup {Company(<<k, i>>, row(i)) : i \in Ready(k)}
    /\ buyers' = buyers \cup {<<Home[k], <<k, i>>>> : i \in Ready(k)}
    /\ UNCHANGED <<mapped, evidence, counted, tx, attempts, reviews>>

RollBackImport(k) ==
    /\ importing = k /\ importing' = None
    /\ UNCHANGED <<companies, mapped, buyers, evidence, counted, tx, imports, attempts, reviews>>

------------------------------------------------------------------------------
IdentityInit ==
    /\ companies = {} /\ mapped = << >> /\ buyers = {} /\ evidence = {}
    /\ counted = [r \in Runs |-> 0] /\ tx = [r \in Runs |-> Idle]
    /\ imports = [k \in Imports |-> [file |-> << >>, rows |-> << >>, status |-> None]]
    /\ importing = None /\ attempts = 0 /\ reviews = 0

IdentityNext ==
    \/ \E r \in Runs : \/ BeginRun(r) \/ ReadRegistry(r) \/ InsertCompany(r) \/ DecideMapping(r)
                       \/ CommitRun(r) \/ RollBackRun(r)
    \/ \E c \in companies : \/ \E p \in Pages : ReviewPage(p, c.id)
                            \/ \E raw \in DOMAIN mapped : RepairMapping(raw, c.id)
    \/ \E k \in Imports : \/ \E file \in Files : PreviewImport(k, file)
                          \/ PreviewExpires(k) \/ ConfirmImport(k) \/ CommitImport(k) \/ RollBackImport(k)

------------------------------------------------------------------------------
IdentityTypeOK ==
    /\ DOMAIN mapped \subseteq Raws
    /\ \A c \in companies : c.id[1] \in Runs \cup Imports
    /\ buyers \subseteq Projects \X {c.id : c \in companies}
    /\ importing \in Imports \cup {None}

\* A candidate with a registry id belongs to the one company that has it,
\* whichever of two overlapping runs came first or was rolled back, until a
\* person says otherwise; its evidence names a company that exists
\* (persist_candidate_evidence, repair_candidate_mapping).
RegistryNamesTheCompany ==
    /\ \A c, d \in companies : c.registry = d.registry => c.id = d.id \/ c.registry = None
    /\ \A raw \in DOMAIN mapped : raw[1] \in Runs /\ Len(mapped[raw]) = 1
           /\ Hits[raw[1]][raw[2]].registry # None =>
              \E c \in companies : c.id = Current(mapped, raw) /\ c.registry = Hits[raw[1]][raw[2]].registry
    /\ \A e \in evidence : \E c \in companies : c.id = e[2]

\* No two companies that files brought in share a name or a domain, however
\* previews and confirmations of several files overlap (buyer_import).
ImportsAreDistinct ==
    \A c, d \in companies : c.id[1] \in Imports /\ d.id[1] \in Imports /\ c.id # d.id => ~Meet(c, d)

\* A candidate's company is what the registry, a person or a file that was
\* matched under the lock made it (RegistryNamesTheCompany, ImportsAreDistinct).
IdentityIsKept == RegistryNamesTheCompany /\ ImportsAreDistinct
==============================================================================
