--------------------------- MODULE EvidenceGraph ---------------------------
(***************************************************************************)
(* The entities, the evidence and the relationships of one scan job, and   *)
(* the threads that store them (storage/db.py, worker.py).                 *)
(*                                                                         *)
(* A stage opens a database session, stores its findings and a piece of    *)
(* evidence, and then upserts entities and relationships one by one.  An   *)
(* upsert selects a row in one statement, and inserts or updates it in     *)
(* another; there is no unique index on the canonical identifier.  A       *)
(* session keeps the objects it has loaded, and may give back an old copy  *)
(* of a row when it selects it again.  A request for the graph of a job    *)
(* that has findings but no entities yet synthesizes them by the same      *)
(* upserts.                                                                *)
(***************************************************************************)
EXTENDS Naturals, Sequences, FiniteSets

CONSTANTS
    Stages,     \* stages of the run that store entities
    Readers,    \* requests for the graph
    Cids,       \* canonical identifiers
    MaxRows,    \* bound: rows of each table
    MaxUpserts, \* bound: upserts of one session
    MaxSessions \* bound: stages and readers that come into play

ASSUME GraphAssumption ==
    /\ MaxRows \in Nat /\ MaxUpserts \in Nat /\ MaxSessions \in Nat
    /\ Stages \cap Readers = {}

VARIABLES
    entities,       \* rows of the entities table: [cid, properties]
    relationships,  \* rows of the relationships table: [source, target, supporting]
    evidence,       \* sessions whose piece of evidence is stored
    session,        \* what each stage or reader is doing
    claimed,        \* history: the upserts that have been committed
    raced           \* history: identifiers that two open sessions have upserted

graphVars == <<entities, relationships, evidence, session, claimed, raced>>

Sessions == Stages \cup Readers
Rows == 1..MaxRows

\* Each session contributes one property and one piece of evidence, named after it.
EntityType == [cid : Cids, properties : SUBSET Sessions]
RelationshipType == [source : Rows, target : Rows, supporting : SUBSET Stages]

\* row = 0: the select found nothing; copy holds the objects loaded by the session.
SessionType ==
    [at : {"new", "findings", "open", "entity", "relationship", "closed"},
     upserts : 0..MaxUpserts,
     copy : SUBSET [row : Rows, properties : SUBSET Sessions],
     cid : Cids \cup {"none"}, row : 0..MaxRows, properties : SUBSET Sessions,
     source : 0..MaxRows, target : 0..MaxRows]

GraphTypeOK ==
    /\ entities \in Seq(EntityType) /\ Len(entities) <= MaxRows
    /\ relationships \in Seq(RelationshipType) /\ Len(relationships) <= MaxRows
    /\ evidence \subseteq Stages
    /\ session \in [Sessions -> SessionType]
    /\ raced \subseteq Cids

Closed == [at |-> "new", upserts |-> 0, copy |-> {}, cid |-> "none", row |-> 0,
           properties |-> {}, source |-> 0, target |-> 0]

GraphInit ==
    /\ entities = <<>>
    /\ relationships = <<>>
    /\ evidence = {}
    /\ session = [s \in Sessions |-> Closed]
    /\ claimed = {}
    /\ raced = {}

-----------------------------------------------------------------------------
RowsOf(c) == {k \in DOMAIN entities : entities[k].cid = c}
Open(s) == session[s].at \in {"open", "entity", "relationship"}

\* Rows the session holds, and the identifiers it has upserted.
Held(s) == {x.row : x \in session[s].copy}
Touched(s) == {entities[k].cid : k \in Held(s)}
                 \cup (IF session[s].at = "entity" THEN {session[s].cid} ELSE {})

Begun == {s \in Sessions : session[s].at # "new"}
MayBegin(s) == session[s].at = "new" /\ Cardinality(Begun) < MaxSessions

\* add_findings_batch and add_observation come first ...
StoreFindings(s) ==
    /\ s \in Stages
    /\ MayBegin(s)
    /\ session' = [session EXCEPT ![s].at = "findings"]
    /\ UNCHANGED <<entities, relationships, evidence, claimed, raced>>

\* ... then add_evidence.
AddEvidence(s) ==
    /\ session[s].at = "findings"
    /\ evidence' = evidence \cup {s}
    /\ session' = [session EXCEPT ![s].at = "open"]
    /\ UNCHANGED <<entities, relationships, claimed, raced>>

\* get_investigation_graph finds findings and no entity, and synthesizes entities.
Synthesize(s) ==
    /\ s \in Readers
    /\ MayBegin(s)
    /\ entities = <<>>
    /\ Begun \cap Stages # {}
    /\ session' = [session EXCEPT ![s].at = "open"]
    /\ UNCHANGED <<entities, relationships, evidence, claimed, raced>>

\* Mutant: the select does not look for the row.
EntitySelect_Blind(s, c) ==
    /\ session[s].at = "open"
    /\ session[s].upserts < MaxUpserts
    /\ raced' = IF \E t \in Sessions \ {s} : Open(t) /\ c \in Touched(t) THEN raced \cup {c} ELSE raced
    /\ session' = [session EXCEPT ![s].at = "entity", ![s].cid = c, ![s].row = 0, ![s].properties = {}]
    /\ UNCHANGED <<entities, relationships, evidence, claimed>>

\* upsert_entity selects by the canonical identifier; any of the rows may come first.  A row the
\* session has loaded before comes with the properties of that time, or, if the object is gone,
\* with those of now.
EntitySelect(s, c) ==
    /\ session[s].at = "open"
    /\ session[s].upserts < MaxUpserts
    /\ raced' = IF \E t \in Sessions \ {s} : Open(t) /\ c \in Touched(t) THEN raced \cup {c} ELSE raced
    /\ \E k \in IF RowsOf(c) = {} THEN {0} ELSE RowsOf(c) :
       \E p \in IF k = 0 THEN {{}}
                ELSE {entities[k].properties} \cup {x.properties : x \in {y \in session[s].copy : y.row = k}} :
          session' = [session EXCEPT ![s].at = "entity", ![s].cid = c, ![s].row = k, ![s].properties = p]
    /\ UNCHANGED <<entities, relationships, evidence, claimed>>

\* The row and the copy of it that the session keeps after the commit.
Keeping(s, k, p) == {x \in session[s].copy : x.row # k} \cup {[row |-> k, properties |-> p]}
Return(s, k, p) ==
    session' = [session EXCEPT ![s].at = "open", ![s].upserts = @ + 1, ![s].cid = "none",
                               ![s].row = 0, ![s].properties = {},
                               ![s].source = 0, ![s].target = 0, ![s].copy = Keeping(s, k, p)]

\* Mutant: the properties of the upsert replace those of the row.
EntityCommit_Replace(s) ==
    /\ session[s].at = "entity"
    /\ IF session[s].row = 0
       THEN /\ Len(entities) < MaxRows
            /\ entities' = Append(entities, [cid |-> session[s].cid, properties |-> {s}])
            /\ Return(s, Len(entities) + 1, {s})
       ELSE /\ entities' = [entities EXCEPT ![session[s].row].properties = {s}]
            /\ Return(s, session[s].row, {s})
    /\ claimed' = claimed \cup {[cid |-> session[s].cid, by |-> s]}
    /\ UNCHANGED <<relationships, evidence, raced>>

\* The commit inserts a row, or writes the merged column as a whole if it differs from what was
\* loaded; the row is then read again.
EntityCommit(s) ==
    /\ session[s].at = "entity"
    /\ LET merged == session[s].properties \cup {s}
           k == session[s].row IN
       IF k = 0
       THEN /\ Len(entities) < MaxRows
            /\ entities' = Append(entities, [cid |-> session[s].cid, properties |-> merged])
            /\ Return(s, Len(entities) + 1, merged)
       ELSE /\ entities' = IF merged = session[s].properties THEN entities
                           ELSE [entities EXCEPT ![k].properties = merged]
            /\ Return(s, k, entities'[k].properties)
    /\ claimed' = claimed \cup {[cid |-> session[s].cid, by |-> s]}
    /\ UNCHANGED <<relationships, evidence, raced>>

EdgesOf(a, b) == {k \in DOMAIN relationships : relationships[k].source = a /\ relationships[k].target = b}

\* upsert_relationship selects by the two rows the session holds.
RelationshipSelect(s, a, b) ==
    /\ session[s].at = "open"
    /\ session[s].upserts < MaxUpserts
    /\ a \in Held(s) /\ b \in Held(s)
    /\ \E k \in IF EdgesOf(a, b) = {} THEN {0} ELSE EdgesOf(a, b) :
          session' = [session EXCEPT ![s].at = "relationship", ![s].row = k,
                        ![s].source = a, ![s].target = b,
                        ![s].properties = IF k = 0 THEN {} ELSE relationships[k].supporting]
    /\ UNCHANGED <<entities, relationships, evidence, claimed, raced>>

\* The stages cite their evidence; a reader has none.
Cited(s) == {s} \cap Stages

\* Mutant: the evidence of the upsert replaces what the row cites.
RelationshipCommit_Replace(s) ==
    /\ session[s].at = "relationship"
    /\ IF session[s].row = 0
       THEN /\ Len(relationships) < MaxRows
            /\ relationships' = Append(relationships,
                 [source |-> session[s].source, target |-> session[s].target, supporting |-> Cited(s)])
       ELSE relationships' = [relationships EXCEPT ![session[s].row].supporting = Cited(s)]
    /\ session' = [session EXCEPT ![s].at = "open", ![s].upserts = @ + 1, ![s].row = 0,
                                  ![s].properties = {}, ![s].source = 0, ![s].target = 0]
    /\ claimed' = claimed \cup {[source |-> session[s].source, target |-> session[s].target, by |-> s]}
    /\ UNCHANGED <<entities, evidence, raced>>

RelationshipCommit(s) ==
    /\ session[s].at = "relationship"
    /\ LET merged == session[s].properties \cup Cited(s) IN
       IF session[s].row = 0
       THEN /\ Len(relationships) < MaxRows
            /\ relationships' = Append(relationships,
                 [source |-> session[s].source, target |-> session[s].target, supporting |-> merged])
       ELSE relationships' = [relationships EXCEPT ![session[s].row].supporting = merged]
    /\ session' = [session EXCEPT ![s].at = "open", ![s].upserts = @ + 1, ![s].row = 0,
                                  ![s].properties = {}, ![s].source = 0, ![s].target = 0]
    /\ claimed' = claimed \cup {[source |-> session[s].source, target |-> session[s].target, by |-> s]}
    /\ UNCHANGED <<entities, evidence, raced>>

\* get_db_session closes the session and its objects are gone.
CloseSession(s) ==
    /\ session[s].at = "open"
    /\ session' = [session EXCEPT ![s] = [Closed EXCEPT !.at = "closed"]]
    /\ UNCHANGED <<entities, relationships, evidence, claimed, raced>>

-----------------------------------------------------------------------------
GraphNext == \E s \in Sessions :
    \/ StoreFindings(s)
    \/ AddEvidence(s)
    \/ Synthesize(s)
    \/ \E c \in Cids : EntitySelect(s, c)
    \/ EntityCommit(s)
    \/ \E a, b \in Rows : RelationshipSelect(s, a, b)
    \/ RelationshipCommit(s)
    \/ CloseSession(s)

GraphSpec == GraphInit /\ [][GraphNext]_graphVars

-----------------------------------------------------------------------------
(* Properties *)

\* An entity gets a second row only when sessions that upsert it overlap; sessions that follow
\* one another, of any stages and readers, always meet in one row.
DuplicatesOnlyByOverlap == \A c \in Cids \ raced : Cardinality(RowsOf(c)) <= 1

\* What a session has merged into an entity stays in its row, unless sessions overlapped on it.
PropertiesKept == \A x \in claimed : "cid" \in DOMAIN x /\ x.cid \notin raced
                     => \E k \in RowsOf(x.cid) : x.by \in entities[k].properties

\* A relationship accumulates the evidence of all who have claimed it, in one row, and cites
\* only evidence that is stored, unless sessions overlapped on the entity it starts from.
EvidenceAccumulates ==
    /\ \A k \in DOMAIN relationships : relationships[k].supporting \subseteq evidence
    /\ \A x \in claimed : "source" \in DOMAIN x /\ entities[x.source].cid \notin raced
          => \E k \in DOMAIN relationships : EdgesOf(x.source, x.target) = {k}
                                             /\ Cited(x.by) \subseteq relationships[k].supporting
=============================================================================
