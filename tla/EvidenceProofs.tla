--------------------------- MODULE EvidenceProofs ---------------------------
(***************************************************************************)
(* Entities are duplicated, and merged properties and evidence are lost,   *)
(* only where sessions overlap on an identifier: for every number of       *)
(* stages, readers, identifiers, rows and upserts.                         *)
(***************************************************************************)
EXTENDS EvidenceGraph, FiniteSetTheorems, TLAPS

-----------------------------------------------------------------------------
(* The inductive invariant.                                                *)

EntityClaim == [cid : Cids, by : Sessions]
EdgeClaim == [source : Rows, target : Rows, by : Sessions]

Typed == GraphTypeOK /\ claimed \subseteq EntityClaim \cup EdgeClaim

\* What a session holds are rows; the row it has selected is one of what it looks for; and a stage
\* that upserts has stored its evidence.
SessionSound(s) ==
    /\ ~Open(s) => session[s].copy = {}
    /\ session[s].at = "findings" => s \in Stages
    /\ Held(s) \subseteq DOMAIN entities
    /\ Open(s) => Cited(s) \subseteq evidence
    /\ session[s].at \in {"entity", "relationship"} => session[s].upserts < MaxUpserts
    /\ session[s].at = "entity" =>
         session[s].cid \in Cids /\ session[s].row \in {0} \cup RowsOf(session[s].cid)
    /\ session[s].at = "relationship" =>
         /\ session[s].source \in Held(s) /\ session[s].target \in Held(s)
         /\ session[s].row \in {0} \cup EdgesOf(session[s].source, session[s].target)
         /\ session[s].properties \subseteq evidence

\* What a session knows of an identifier on which no other has overlapped with it is still so.
KnowsRows(s) ==
    /\ session[s].at = "entity" /\ session[s].cid \notin raced =>
         IF session[s].row = 0 THEN RowsOf(session[s].cid) = {}
         ELSE session[s].properties = entities[session[s].row].properties
    /\ \A x \in session[s].copy :
         entities[x.row].cid \notin raced => x.properties = entities[x.row].properties
KnowsEdges(s) ==
    session[s].at = "relationship" /\ entities[session[s].source].cid \notin raced =>
      IF session[s].row = 0 THEN EdgesOf(session[s].source, session[s].target) = {}
      ELSE session[s].properties = relationships[session[s].row].supporting

\* Two open sessions that have touched an identifier have raced on it.
OverlapIsRace ==
    \A s, t \in Sessions : s # t /\ Open(s) /\ Open(t) => Touched(s) \cap Touched(t) \subseteq raced

\* Without a race an identifier has one row, and two entities have one relationship.
OneRow == \A j, k \in DOMAIN entities :
    entities[j].cid = entities[k].cid /\ entities[j].cid \notin raced => j = k
OneEdge == \A j, k \in DOMAIN relationships :
    /\ relationships[j].source = relationships[k].source
    /\ relationships[j].target = relationships[k].target
    /\ entities[relationships[j].source].cid \notin raced
    => j = k

\* Relationships start from rows and cite stored evidence, and what was claimed of two entities that
\* nobody has raced on is in a relationship of theirs.
EdgesSound == \A k \in DOMAIN relationships :
    relationships[k].source \in DOMAIN entities /\ relationships[k].supporting \subseteq evidence
EdgesKept == \A x \in claimed : "source" \in DOMAIN x =>
    /\ x.source \in DOMAIN entities
    /\ entities[x.source].cid \notin raced =>
         \E k \in EdgesOf(x.source, x.target) : Cited(x.by) \subseteq relationships[k].supporting

GraphInv ==
    /\ Typed
    /\ \A s \in Sessions : SessionSound(s) /\ KnowsRows(s) /\ KnowsEdges(s)
    /\ OverlapIsRace /\ OneRow /\ OneEdge /\ EdgesSound /\ PropertiesKept /\ EdgesKept

-----------------------------------------------------------------------------
(* The parts of the state.                                                 *)

\* The tables are functions from the numbers of their rows.
LEMMA TablesAre ==
  ASSUME Typed
  PROVE  /\ entities \in [1..Len(entities) -> EntityType] /\ DOMAIN entities = 1..Len(entities)
         /\ relationships \in [1..Len(relationships) -> RelationshipType]
         /\ DOMAIN relationships = 1..Len(relationships)
         /\ Len(entities) \in 0..MaxRows /\ Len(relationships) \in 0..MaxRows
         /\ DOMAIN entities \subseteq Rows /\ DOMAIN relationships \subseteq Rows
         /\ 0 \notin DOMAIN entities /\ 0 \notin DOMAIN relationships
         /\ MaxRows \in Nat /\ MaxUpserts \in Nat
<1>1. entities \in Seq(EntityType) /\ relationships \in Seq(RelationshipType)
  BY DEF Typed, GraphTypeOK
<1>2. MaxRows \in Nat /\ MaxUpserts \in Nat
  BY GraphAssumption
<1>3. Len(entities) \in Nat /\ Len(relationships) \in Nat
      /\ Len(entities) <= MaxRows /\ Len(relationships) <= MaxRows
  BY <1>1 DEF Typed, GraphTypeOK
<1> QED
  BY <1>1, <1>2, <1>3 DEF Rows

\* A session is of its type, field by field.
LEMMA SessionIs ==
  ASSUME Typed, NEW s \in Sessions
  PROVE  /\ session[s] \in SessionType
         /\ session[s].at \in {"new", "findings", "open", "entity", "relationship", "closed"}
         /\ session[s].upserts \in 0..MaxUpserts
         /\ session[s].copy \subseteq [row : Rows, properties : SUBSET Sessions]
         /\ session[s].cid \in Cids \cup {"none"} /\ session[s].row \in 0..MaxRows
         /\ session[s].properties \subseteq Sessions
         /\ session[s].source \in 0..MaxRows /\ session[s].target \in 0..MaxRows
<1>1. session[s] \in SessionType
  BY DEF Typed, GraphTypeOK
<1> QED
  BY <1>1 DEF SessionType

\* Rows are added and never taken away, and keep what they are found by.
Grows ==
    /\ DOMAIN entities \subseteq DOMAIN entities'
    /\ \A k \in DOMAIN entities : entities'[k].cid = entities[k].cid
    /\ DOMAIN relationships \subseteq DOMAIN relationships'
    /\ \A k \in DOMAIN relationships : /\ relationships'[k].source = relationships[k].source
                                       /\ relationships'[k].target = relationships[k].target
    /\ evidence \subseteq evidence' /\ raced \subseteq raced'

\* A session that rests stays sound while others add rows, and touches what it did.
LEMMA SoundStays ==
  ASSUME Grows, NEW t \in Sessions, session'[t] = session[t], SessionSound(t)
  PROVE  /\ SessionSound(t)'
         /\ Held(t)' = Held(t) /\ Open(t)' = Open(t) /\ Touched(t)' = Touched(t)
<1>1. Held(t)' = Held(t) /\ Open(t)' = Open(t)
  BY DEF Held, Open
<1>2. Held(t) \subseteq DOMAIN entities
  BY DEF SessionSound
<1>3. Touched(t)' = Touched(t)
  BY <1>1, <1>2 DEF Touched, Grows
<1>4. /\ \A c : RowsOf(c) \subseteq RowsOf(c)'
      /\ \A a, b : EdgesOf(a, b) \subseteq EdgesOf(a, b)'
  BY DEF Grows, RowsOf, EdgesOf
<1>5. SessionSound(t)'
  BY <1>1, <1>4 DEF SessionSound, Grows, Cited
<1> QED
  BY <1>1, <1>3, <1>5

\* Sessions overlap on nothing new if one of them touches no more than before.
LEMMA OverlapStays ==
  ASSUME GraphInv, Grows, NEW s \in Sessions, \A t \in Sessions \ {s} : session'[t] = session[t],
         Open(s)' => \A c \in Touched(s)' :
            \/ c \in raced'
            \/ Open(s) /\ c \in Touched(s)
            \/ \A t \in Sessions \ {s} : ~ (Open(t) /\ c \in Touched(t))
  PROVE  OverlapIsRace'
<1>1. \A t \in Sessions \ {s} : Open(t)' = Open(t) /\ Touched(t)' = Touched(t)
  BY SoundStays DEF GraphInv
<1>2. \A t \in Sessions \ {s} : Open(s)' /\ Open(t)' => Touched(s)' \cap Touched(t)' \subseteq raced'
  BY <1>1 DEF GraphInv, OverlapIsRace, Grows
<1>3. ASSUME NEW t \in Sessions \ {s}, NEW u \in Sessions \ {s}, t # u, Open(t)', Open(u)'
      PROVE  Touched(t)' \cap Touched(u)' \subseteq raced'
  BY <1>1, <1>3 DEF GraphInv, OverlapIsRace, Grows
<1> QED
  BY <1>2, <1>3 DEF OverlapIsRace

-----------------------------------------------------------------------------
(* Steps that leave the tables alone.                                      *)

\* What the tables hold stays so, and what the other sessions know of them.
LEMMA TablesStay ==
  ASSUME GraphInv, UNCHANGED <<entities, relationships, claimed>>,
         evidence \subseteq evidence', raced \subseteq raced',
         NEW s \in Sessions, \A t \in Sessions \ {s} : session'[t] = session[t]
  PROVE  /\ Grows
         /\ OneRow' /\ OneEdge' /\ EdgesSound' /\ PropertiesKept' /\ EdgesKept'
         /\ \A t \in Sessions \ {s} : SessionSound(t)' /\ KnowsRows(t)' /\ KnowsEdges(t)'
<1>1. Grows
  BY DEF Grows
<1>2. OneRow' /\ OneEdge' /\ EdgesSound'
  BY DEF GraphInv, OneRow, OneEdge, EdgesSound
<1>3. \A c, a, b : RowsOf(c)' = RowsOf(c) /\ EdgesOf(a, b)' = EdgesOf(a, b)
  BY DEF RowsOf, EdgesOf
<1>4. PropertiesKept'
  BY <1>3 DEF GraphInv, PropertiesKept
<1>5. EdgesKept'
  BY <1>3 DEF GraphInv, EdgesKept, Cited
<1>6. ASSUME NEW t \in Sessions \ {s} PROVE SessionSound(t)' /\ KnowsRows(t)' /\ KnowsEdges(t)'
  <2>1. SessionSound(t)'
    BY <1>1, SoundStays DEF GraphInv
  <2>2. KnowsRows(t)'
    BY <1>3 DEF GraphInv, KnowsRows
  <2>3. KnowsEdges(t)'
    BY <1>3 DEF GraphInv, KnowsEdges
  <2> QED
    BY <2>1, <2>2, <2>3
<1> QED
  BY <1>1, <1>2, <1>4, <1>5, <1>6

\* Sessions that begin, and those that end, hold nothing.
LEMMA BeginEndKeep ==
  ASSUME GraphInv, NEW s \in Sessions,
         StoreFindings(s) \/ AddEvidence(s) \/ Synthesize(s) \/ CloseSession(s)
  PROVE  GraphInv'
<1>0. Typed /\ SessionSound(s) /\ session[s] \in SessionType
  BY SessionIs DEF GraphInv
<1>1. /\ UNCHANGED <<entities, relationships, claimed, raced>>
      /\ evidence \subseteq evidence' /\ evidence' \subseteq Stages
  BY <1>0 DEF StoreFindings, AddEvidence, Synthesize, CloseSession, Typed, GraphTypeOK, Sessions,
              SessionSound, Cited, GraphInv
<1>2. /\ session' = [session EXCEPT ![s] = session'[s]]
      /\ session'[s] \in SessionType
      /\ session'[s].copy = {}
      /\ session'[s].at \in {"findings", "open", "closed"}
      /\ session'[s].at = "open" => Cited(s) \subseteq evidence'
      /\ session'[s].at = "findings" => s \in Stages
  <2>1. session[s].at \in {"new", "findings"} => session[s].copy = {}
    BY <1>0 DEF SessionSound, Open
  <2>2. CASE StoreFindings(s)
    BY <1>0, <2>1, <2>2 DEF StoreFindings, MayBegin, Typed, GraphTypeOK, SessionType
  <2>3. CASE AddEvidence(s)
    BY <1>0, <2>1, <2>3 DEF AddEvidence, Typed, GraphTypeOK, SessionType, Cited
  <2>4. CASE Synthesize(s)
    <3>1. Cited(s) = {}
      BY <2>4, GraphAssumption DEF Synthesize, Cited
    <3> QED
      BY <1>0, <2>1, <2>4, <3>1 DEF Synthesize, MayBegin, Typed, GraphTypeOK, SessionType
  <2>5. CASE CloseSession(s)
    <3>1. [Closed EXCEPT !.at = "closed"] \in SessionType
      BY GraphAssumption DEF Closed, SessionType
    <3> QED
      BY <1>0, <2>5, <3>1 DEF CloseSession, Typed, GraphTypeOK, Closed
  <2> QED
    BY <2>2, <2>3, <2>4, <2>5
<1>3. Typed'
  BY <1>0, <1>1, <1>2 DEF Typed, GraphTypeOK
<1>4. \A t \in Sessions \ {s} : session'[t] = session[t]
  BY <1>0, <1>2 DEF Typed, GraphTypeOK
<1>5. /\ Grows /\ OneRow' /\ OneEdge' /\ EdgesSound' /\ PropertiesKept' /\ EdgesKept'
      /\ \A t \in Sessions \ {s} : SessionSound(t)' /\ KnowsRows(t)' /\ KnowsEdges(t)'
  BY <1>1, <1>4, TablesStay
<1>6. SessionSound(s)' /\ KnowsRows(s)' /\ KnowsEdges(s)'
  BY <1>2 DEF SessionSound, KnowsRows, KnowsEdges, Held, Open, Cited
<1>7. OverlapIsRace'
  <2>1. Touched(s)' = {}
    BY <1>2 DEF Touched, Held
  <2> QED
    BY <1>4, <1>5, <2>1, OverlapStays
<1> QED
  BY <1>3, <1>5, <1>6, <1>7 DEF GraphInv

\* What a session selects is what it looks for, and the selection shows a race with another.
LEMMA EntitySelectKeeps ==
  ASSUME GraphInv, NEW s \in Sessions, NEW c \in Cids, EntitySelect(s, c)
  PROVE  GraphInv'
<1>0. Typed /\ SessionSound(s) /\ KnowsRows(s) /\ session[s] \in SessionType
  BY SessionIs DEF GraphInv
<1>1. /\ UNCHANGED <<entities, relationships, claimed, evidence>>
      /\ session[s].at = "open" /\ session[s].upserts < MaxUpserts
      /\ raced' = IF \E t \in Sessions \ {s} : Open(t) /\ c \in Touched(t)
                  THEN raced \cup {c} ELSE raced
  BY DEF EntitySelect
<1> DEFINE Copies(k) == {x.properties : x \in {y \in session[s].copy : y.row = k}}
<1>2. PICK k \in IF RowsOf(c) = {} THEN {0} ELSE RowsOf(c) :
        \E p \in IF k = 0 THEN {{}} ELSE {entities[k].properties} \cup Copies(k) :
          session' = [session EXCEPT ![s].at = "entity", ![s].cid = c, ![s].row = k, ![s].properties = p]
  BY DEF EntitySelect
<1>2a. PICK p \in IF k = 0 THEN {{}} ELSE {entities[k].properties} \cup Copies(k) :
          session' = [session EXCEPT ![s].at = "entity", ![s].cid = c, ![s].row = k, ![s].properties = p]
  BY <1>2
<1>3. k \in {0} \cup RowsOf(c) /\ k \in 0..MaxRows /\ (k = 0 <=> RowsOf(c) = {})
  BY <1>0, TablesAre DEF RowsOf, Rows
<1>4. p \subseteq Sessions /\ (k # 0 /\ c \notin raced => p = entities[k].properties)
  <2>1. CASE k = 0
    BY <1>2a, <2>1
  <2>2. CASE k # 0
    <3>1. k \in DOMAIN entities /\ entities[k].cid = c
      BY <1>3, <2>2 DEF RowsOf
    <3>2. entities[k].properties \subseteq Sessions
      BY <1>0, <3>1, TablesAre DEF EntityType
    <3>3. \A x \in session[s].copy :
            /\ x.properties \subseteq Sessions
            /\ x.row = k /\ c \notin raced => x.properties = entities[k].properties
      BY <1>0, <3>1 DEF KnowsRows, SessionType
    <3> QED
      BY <1>2a, <2>2, <3>2, <3>3
  <2> QED
    BY <2>1, <2>2
<1>5. /\ session'[s].at = "entity" /\ session'[s].cid = c /\ session'[s].row = k
      /\ session'[s].properties = p /\ session'[s].copy = session[s].copy
      /\ session'[s].upserts = session[s].upserts
      /\ session'[s] \in SessionType
      /\ session' = [session EXCEPT ![s] = session'[s]]
  BY <1>0, <1>2a, <1>3, <1>4 DEF Typed, GraphTypeOK, SessionType
<1>6. raced \subseteq raced' /\ raced' \subseteq Cids
  BY <1>0, <1>1 DEF Typed, GraphTypeOK
<1>7. Typed'
  BY <1>0, <1>1, <1>5, <1>6 DEF Typed, GraphTypeOK
<1>8. \A t \in Sessions \ {s} : session'[t] = session[t]
  BY <1>0, <1>5 DEF Typed, GraphTypeOK
<1>9. /\ Grows /\ OneRow' /\ OneEdge' /\ EdgesSound' /\ PropertiesKept' /\ EdgesKept'
      /\ \A t \in Sessions \ {s} : SessionSound(t)' /\ KnowsRows(t)' /\ KnowsEdges(t)'
  BY <1>1, <1>6, <1>8, TablesStay
<1>10. RowsOf(c)' = RowsOf(c) /\ Held(s)' = Held(s)
  BY <1>1, <1>5 DEF RowsOf, Held
<1>11. SessionSound(s)'
  BY <1>0, <1>1, <1>3, <1>5, <1>10 DEF SessionSound, Open, Cited
<1>12. KnowsRows(s)' /\ KnowsEdges(s)'
  <2>1. KnowsEdges(s)'
    BY <1>5 DEF KnowsEdges
  <2>2. \A x \in session[s].copy :
          entities[x.row].cid \notin raced' => x.properties = entities[x.row].properties
    BY <1>0, <1>6 DEF KnowsRows
  <2> QED
    BY <1>1, <1>3, <1>4, <1>5, <1>6, <1>10, <2>1, <2>2 DEF KnowsRows
<1>13. OverlapIsRace'
  <2>1. Touched(s)' = Touched(s) \cup {c} /\ Open(s)
    BY <1>1, <1>5, <1>10 DEF Touched, Open
  <2> QED
    BY <1>1, <1>8, <1>9, <2>1, OverlapStays
<1> QED
  BY <1>7, <1>9, <1>11, <1>12, <1>13 DEF GraphInv

\* A relationship is looked for between two entities that the session holds.
LEMMA RelationshipSelectKeeps ==
  ASSUME GraphInv, NEW s \in Sessions, NEW a \in Rows, NEW b \in Rows, RelationshipSelect(s, a, b)
  PROVE  GraphInv'
<1>0. Typed /\ SessionSound(s) /\ KnowsRows(s) /\ session[s] \in SessionType
  BY SessionIs DEF GraphInv
<1>1. /\ UNCHANGED <<entities, relationships, claimed, evidence, raced>>
      /\ session[s].at = "open" /\ session[s].upserts < MaxUpserts
      /\ a \in Held(s) /\ b \in Held(s)
  BY DEF RelationshipSelect
<1>2. PICK k \in IF EdgesOf(a, b) = {} THEN {0} ELSE EdgesOf(a, b) :
        session' = [session EXCEPT ![s].at = "relationship", ![s].row = k,
                      ![s].source = a, ![s].target = b,
                      ![s].properties = IF k = 0 THEN {} ELSE relationships[k].supporting]
  BY DEF RelationshipSelect
<1>3. k \in {0} \cup EdgesOf(a, b) /\ k \in 0..MaxRows /\ (k = 0 <=> EdgesOf(a, b) = {})
      /\ a \in 0..MaxRows /\ b \in 0..MaxRows
  BY <1>0, TablesAre DEF EdgesOf, Rows
<1> DEFINE p == IF k = 0 THEN {} ELSE relationships[k].supporting
<1>4. p \subseteq evidence /\ p \subseteq Sessions
  <2>1. k # 0 => relationships[k].supporting \subseteq evidence
    BY <1>3 DEF GraphInv, EdgesSound, EdgesOf
  <2>2. evidence \subseteq Sessions
    BY <1>0 DEF Typed, GraphTypeOK, Sessions
  <2> QED
    BY <2>1, <2>2
<1> HIDE DEF p
<1>5. /\ session'[s].at = "relationship" /\ session'[s].row = k
      /\ session'[s].source = a /\ session'[s].target = b
      /\ session'[s].properties = p /\ session'[s].copy = session[s].copy
      /\ session'[s].upserts = session[s].upserts
      /\ session'[s] \in SessionType
      /\ session' = [session EXCEPT ![s] = session'[s]]
  <2>1. session' = [session EXCEPT ![s].at = "relationship", ![s].row = k,
                      ![s].source = a, ![s].target = b, ![s].properties = p]
    BY <1>2 DEF p
  <2> QED
    BY <1>0, <1>3, <1>4, <2>1 DEF Typed, GraphTypeOK, SessionType
<1>6. Typed'
  BY <1>0, <1>1, <1>5 DEF Typed, GraphTypeOK
<1>7. \A t \in Sessions \ {s} : session'[t] = session[t]
  BY <1>0, <1>5 DEF Typed, GraphTypeOK
<1>8. /\ Grows /\ OneRow' /\ OneEdge' /\ EdgesSound' /\ PropertiesKept' /\ EdgesKept'
      /\ \A t \in Sessions \ {s} : SessionSound(t)' /\ KnowsRows(t)' /\ KnowsEdges(t)'
  BY <1>1, <1>7, TablesStay
<1>9. EdgesOf(a, b)' = EdgesOf(a, b) /\ Held(s)' = Held(s)
  BY <1>1, <1>5 DEF EdgesOf, Held
<1>10. SessionSound(s)'
  BY <1>0, <1>1, <1>3, <1>4, <1>5, <1>9 DEF SessionSound, Open, Cited
<1>11. KnowsRows(s)'
  BY <1>0, <1>1, <1>5 DEF KnowsRows
<1>12. KnowsEdges(s)'
  BY <1>1, <1>3, <1>5, <1>9 DEF KnowsEdges, p
<1>13. OverlapIsRace'
  <2>1. Touched(s)' = Touched(s) /\ Open(s)
    BY <1>1, <1>5, <1>9 DEF Touched, Open
  <2> QED
    BY <1>7, <1>8, <2>1, OverlapStays
<1> QED
  BY <1>6, <1>8, <1>10, <1>11, <1>12, <1>13 DEF GraphInv

-----------------------------------------------------------------------------
(* The commit of an entity.                                                *)

\* A new row goes to the end of a table, and a row is changed in its place.
LEMMA TableSteps ==
  ASSUME NEW T, NEW table \in Seq(T), NEW row \in T
  PROVE  /\ Append(table, row) \in Seq(T)
         /\ Len(Append(table, row)) = Len(table) + 1
         /\ DOMAIN Append(table, row) = DOMAIN table \cup {Len(table) + 1}
         /\ \A k \in DOMAIN table : Append(table, row)[k] = table[k]
         /\ Append(table, row)[Len(table) + 1] = row
         /\ \A k \in DOMAIN table :
              /\ [table EXCEPT ![k] = row] \in Seq(T)
              /\ Len([table EXCEPT ![k] = row]) = Len(table)
              /\ DOMAIN [table EXCEPT ![k] = row] = DOMAIN table
<1>1. Len(table) \in Nat /\ DOMAIN table = 1..Len(table)
  OBVIOUS
<1>2. /\ Append(table, row) \in Seq(T)
      /\ Len(Append(table, row)) = Len(table) + 1
      /\ \A k \in 1..Len(table) : Append(table, row)[k] = table[k]
      /\ Append(table, row)[Len(table) + 1] = row
  OBVIOUS
<1>3. DOMAIN Append(table, row) = 1..Len(table) + 1
  BY <1>2
<1>4. 1..Len(table) + 1 = 1..Len(table) \cup {Len(table) + 1}
  BY <1>1
<1>5. ASSUME NEW k \in DOMAIN table
      PROVE  /\ [table EXCEPT ![k] = row] \in Seq(T)
             /\ Len([table EXCEPT ![k] = row]) = Len(table)
             /\ DOMAIN [table EXCEPT ![k] = row] = DOMAIN table
  BY <1>1
<1> QED
  BY <1>1, <1>2, <1>3, <1>4, <1>5

\* What the commit of an entity does, in row n: a new one, or the one that was selected.
EntityWritten(s, c, n) ==
    /\ entities' \in Seq(EntityType) /\ Len(entities') <= MaxRows
    /\ n \in Rows /\ DOMAIN entities' = DOMAIN entities \cup {n}
    /\ \A k \in DOMAIN entities : k # n => entities'[k] = entities[k]
    /\ entities'[n].cid = c /\ (n \in DOMAIN entities => entities[n].cid = c)
    /\ c \notin raced =>
         /\ RowsOf(c) \subseteq {n}
         /\ n \in DOMAIN entities => entities[n].properties \subseteq entities'[n].properties
         /\ s \in entities'[n].properties
    /\ session' = [session EXCEPT ![s] = session'[s]] /\ session'[s] \in SessionType
    /\ session'[s].at = "open"
    /\ session'[s].copy = {x \in session[s].copy : x.row # n}
                             \cup {[row |-> n, properties |-> entities'[n].properties]}
    /\ claimed' = claimed \cup {[cid |-> c, by |-> s]}
    /\ UNCHANGED <<relationships, evidence, raced>>

LEMMA CommitWrites ==
  ASSUME GraphInv, NEW s \in Sessions, EntityCommit(s)
  PROVE  \E n \in Rows : EntityWritten(s, session[s].cid, n)
<1>0. /\ Typed /\ SessionSound(s) /\ KnowsRows(s) /\ OneRow
      /\ session[s] \in SessionType /\ session \in [Sessions -> SessionType]
      /\ session[s].upserts \in Nat /\ MaxUpserts \in Nat
      /\ session[s].copy \subseteq [row : Rows, properties : SUBSET Sessions]
  BY SessionIs, TablesAre DEF GraphInv, Typed, GraphTypeOK
<1> DEFINE merged == session[s].properties \cup {s}
           k == session[s].row
           c == session[s].cid
<1>1. /\ session[s].at = "entity" /\ session[s].upserts < MaxUpserts
      /\ c \in Cids /\ k \in {0} \cup RowsOf(c) /\ merged \subseteq Sessions
      /\ claimed' = claimed \cup {[cid |-> c, by |-> s]}
      /\ UNCHANGED <<relationships, evidence, raced>>
  BY <1>0, SessionIs DEF EntityCommit, SessionSound
<1>2. entities \in Seq(EntityType) /\ Len(entities) \in Nat /\ Len(entities) <= MaxRows
  BY <1>0 DEF Typed, GraphTypeOK
<1>3. ASSUME NEW n \in Rows, NEW p \in SUBSET Sessions, Return(s, n, p)
      PROVE  /\ session' = [session EXCEPT ![s] = session'[s]] /\ session'[s] \in SessionType
             /\ session'[s].at = "open"
             /\ session'[s].copy = {x \in session[s].copy : x.row # n} \cup {[row |-> n, properties |-> p]}
  <2> DEFINE kept == Keeping(s, n, p)
  <2>1. kept \subseteq [row : Rows, properties : SUBSET Sessions]
    BY <1>0 DEF Keeping
  <2>2. session' = [session EXCEPT ![s].at = "open", ![s].upserts = @ + 1, ![s].cid = "none",
                               ![s].row = 0, ![s].properties = {},
                               ![s].source = 0, ![s].target = 0, ![s].copy = kept]
    BY <1>3 DEF Return
  <2> HIDE DEF kept
  <2>3. session[s].upserts + 1 \in 0..MaxUpserts /\ 0 \in 0..MaxRows
    BY <1>0, <1>1, GraphAssumption
  <2>4. /\ session' = [session EXCEPT ![s] = session'[s]] /\ session'[s] \in SessionType
        /\ session'[s].at = "open" /\ session'[s].copy = kept
    BY <1>0, <2>1, <2>2, <2>3 DEF SessionType
  <2> QED
    BY <2>4 DEF kept, Keeping
<1>4. CASE k = 0
  <2> DEFINE new == [cid |-> c, properties |-> merged]
             n == Len(entities) + 1
  <2>1. /\ Len(entities) < MaxRows /\ entities' = Append(entities, new) /\ Return(s, n, merged)
    BY <1>4 DEF EntityCommit
  <2>2. new \in EntityType /\ new.cid = c /\ new.properties = merged
    BY <1>1 DEF EntityType
  <2> HIDE DEF new
  <2>3. /\ entities' \in Seq(EntityType) /\ Len(entities') = n /\ entities'[n] = new
        /\ DOMAIN entities' = DOMAIN entities \cup {n}
        /\ \A j \in DOMAIN entities : entities'[j] = entities[j]
    BY <1>2, <2>1, <2>2, TableSteps
  <2>4. n \in Rows /\ n \notin DOMAIN entities /\ n <= MaxRows
    BY <1>0, <1>2, <2>1, TablesAre DEF Rows
  <2> HIDE DEF n
  <2>5. c \notin raced => RowsOf(c) = {}
    BY <1>0, <1>1, <1>4 DEF KnowsRows
  <2>6. /\ session' = [session EXCEPT ![s] = session'[s]] /\ session'[s] \in SessionType
        /\ session'[s].at = "open"
        /\ session'[s].copy = {x \in session[s].copy : x.row # n} \cup {[row |-> n, properties |-> merged]}
    BY <1>1, <1>3, <2>1, <2>4
  <2>7. EntityWritten(s, c, n)
    BY <1>1, <2>2, <2>3, <2>4, <2>5, <2>6 DEF EntityWritten
  <2> QED
    BY <2>4, <2>7
<1>5. CASE k # 0
  <2>1. /\ entities' = IF merged = session[s].properties THEN entities
                       ELSE [entities EXCEPT ![k].properties = merged]
        /\ Return(s, k, entities'[k].properties)
    BY <1>5 DEF EntityCommit
  <2>2. k \in DOMAIN entities /\ entities[k].cid = c /\ k \in Rows
    BY <1>0, <1>1, <1>5, TablesAre DEF RowsOf
  <2>3. entities[k] \in EntityType
    BY <1>2, <2>2
  <2> DEFINE new == IF merged = session[s].properties THEN entities[k]
                    ELSE [entities[k] EXCEPT !.properties = merged]
  <2>4. /\ new \in EntityType /\ new.cid = c /\ new.properties \subseteq Sessions
        /\ new.properties = IF merged = session[s].properties THEN entities[k].properties ELSE merged
    BY <1>1, <2>2, <2>3 DEF EntityType
  <2>5. entities' = [entities EXCEPT ![k] = new]
    <3>1. CASE merged = session[s].properties
      <4>1. entities' = entities /\ new = entities[k]
        BY <2>1, <3>1
      <4>2. entities \in [1..Len(entities) -> EntityType]
        BY <1>2
      <4> QED
        BY <4>1, <4>2
    <3>2. CASE merged # session[s].properties
      BY <2>1, <3>2
    <3> QED
      BY <3>1, <3>2
  <2> HIDE DEF new
  <2>6. /\ entities' \in Seq(EntityType) /\ Len(entities') = Len(entities)
        /\ DOMAIN entities' = DOMAIN entities /\ entities'[k] = new
        /\ \A j \in DOMAIN entities : j # k => entities'[j] = entities[j]
    BY <1>2, <2>2, <2>4, <2>5, TableSteps
  <2>7. c \notin raced =>
          /\ RowsOf(c) \subseteq {k}
          /\ entities[k].properties \subseteq new.properties /\ s \in new.properties
    <3>1. c \notin raced => session[s].properties = entities[k].properties
      BY <1>0, <1>1, <1>5 DEF KnowsRows
    <3>2. c \notin raced => RowsOf(c) \subseteq {k}
      BY <1>0, <2>2 DEF OneRow, RowsOf
    <3> QED
      BY <2>4, <3>1, <3>2
  <2>8. /\ session' = [session EXCEPT ![s] = session'[s]] /\ session'[s] \in SessionType
        /\ session'[s].at = "open"
        /\ session'[s].copy = {x \in session[s].copy : x.row # k}
                                \cup {[row |-> k, properties |-> entities'[k].properties]}
    BY <1>3, <2>1, <2>2, <2>4, <2>6
  <2> HIDE DEF k, c, merged
  <2>9. EntityWritten(s, c, k)
    BY <1>1, <1>2, <2>2, <2>4, <2>6, <2>7, <2>8 DEF EntityWritten
  <2> QED
    BY <2>2, <2>9 DEF c
<1> QED
  BY <1>4, <1>5

\* A committed entity: only its own identifier is touched, and only by this session if nobody races.
LEMMA EntityCommitKeeps ==
  ASSUME GraphInv, NEW s \in Sessions, EntityCommit(s)
  PROVE  GraphInv'
<1>0. PICK c : c = session[s].cid
  OBVIOUS
<1>1. PICK n \in Rows : EntityWritten(s, c, n)
  BY <1>0, CommitWrites
<1>2. /\ Typed /\ SessionSound(s) /\ session[s] \in SessionType
      /\ session[s].at = "entity" /\ c \in Cids
  BY <1>0, SessionIs DEF GraphInv, EntityCommit, SessionSound
<1>3. Open(s) /\ c \in Touched(s)
  BY <1>0, <1>2 DEF Open, Touched
<1>4. \A t \in Sessions \ {s} : session'[t] = session[t]
  BY <1>1, <1>2 DEF EntityWritten, Typed, GraphTypeOK
<1>5. Grows
  BY <1>1 DEF Grows, EntityWritten
<1>6. Typed'
  <2>1. [cid |-> c, by |-> s] \in EntityClaim
    BY <1>2 DEF EntityClaim
  <2> QED
    BY <1>1, <1>2, <2>1 DEF EntityWritten, Typed, GraphTypeOK
<1>7. ASSUME NEW d, d # c PROVE RowsOf(d)' = RowsOf(d) /\ n \notin RowsOf(d)
  BY <1>1, <1>7 DEF EntityWritten, RowsOf
<1>8. \A a, b : EdgesOf(a, b)' = EdgesOf(a, b)
  BY <1>1 DEF EntityWritten, EdgesOf
<1>9. \A t \in Sessions \ {s} : Open(t) /\ c \in Touched(t) => c \in raced
  BY <1>3 DEF GraphInv, OverlapIsRace
<1>10. ASSUME NEW t \in Sessions \ {s} PROVE SessionSound(t)' /\ KnowsRows(t)' /\ KnowsEdges(t)'
  <2>0. /\ SessionSound(t) /\ KnowsRows(t) /\ KnowsEdges(t) /\ session'[t] = session[t]
        /\ raced' = raced
    BY <1>1, <1>4 DEF GraphInv, EntityWritten
  <2>1. SessionSound(t)'
    BY <1>5, <2>0, SoundStays
  <2>2. ASSUME session[t].at = "entity", session[t].cid \notin raced
        PROVE  IF session[t].row = 0 THEN RowsOf(session[t].cid)' = {}
               ELSE session[t].properties = entities'[session[t].row].properties
    <3>0. PICK d : d = session[t].cid
      OBVIOUS
    <3>1. d # c
      BY <1>9, <2>2, <3>0 DEF Open, Touched
    <3>2. /\ RowsOf(session[t].cid)' = RowsOf(session[t].cid)
          /\ n \notin RowsOf(session[t].cid)
      BY <1>7, <2>0, <3>0, <3>1
    <3>3. session[t].row # 0 => session[t].row \in RowsOf(session[t].cid)
      BY <2>0, <2>2 DEF SessionSound
    <3>4. session[t].row # 0 => session[t].row \in DOMAIN entities /\ session[t].row # n
      BY <3>2, <3>3 DEF RowsOf
    <3>5. session[t].row # 0 => entities'[session[t].row] = entities[session[t].row]
      BY <1>1, <3>4 DEF EntityWritten
    <3> QED
      BY <2>0, <2>2, <3>2, <3>5 DEF KnowsRows
  <2>3. ASSUME NEW x \in session[t].copy, entities'[x.row].cid \notin raced
        PROVE  x.properties = entities'[x.row].properties
    <3>1. Open(t) /\ x.row \in Held(t) /\ x.row \in DOMAIN entities
      BY <2>0 DEF SessionSound, Held
    <3>2. entities[x.row].cid \in Touched(t) /\ entities'[x.row].cid = entities[x.row].cid
      BY <1>5, <3>1 DEF Touched, Grows
    <3>3. x.row # n
      BY <1>1, <1>9, <2>3, <3>1, <3>2 DEF EntityWritten
    <3>4. entities'[x.row] = entities[x.row]
      BY <1>1, <3>1, <3>3 DEF EntityWritten
    <3> QED
      BY <2>0, <2>3, <3>4 DEF KnowsRows
  <2>4. KnowsRows(t)'
    BY <2>0, <2>2, <2>3 DEF KnowsRows
  <2>5. KnowsEdges(t)'
    <3>1. session[t].at = "relationship" => session[t].source \in DOMAIN entities
      BY <2>0 DEF SessionSound
    <3>2. relationships' = relationships
      BY <1>1 DEF EntityWritten
    <3> QED
      BY <1>5, <1>8, <2>0, <3>1, <3>2 DEF KnowsEdges, Grows
  <2> QED
    BY <2>1, <2>4, <2>5
<1>11. Held(s)' \subseteq Held(s) \cup {n}
  BY <1>1 DEF EntityWritten, Held
<1>12. SessionSound(s)' /\ KnowsRows(s)' /\ KnowsEdges(s)'
  <2>1. SessionSound(s)'
    BY <1>1, <1>2, <1>3, <1>11 DEF EntityWritten, SessionSound, Open, Cited
  <2>2. ASSUME NEW x \in session'[s].copy, entities'[x.row].cid \notin raced'
        PROVE  x.properties = entities'[x.row].properties
    <3>1. CASE x \in session[s].copy /\ x.row # n
      <4>1. x.row \in DOMAIN entities
        BY <1>2, <3>1 DEF SessionSound, Held
      <4> QED
        BY <1>1, <2>2, <3>1, <4>1 DEF EntityWritten, GraphInv, KnowsRows
    <3>2. CASE x = [row |-> n, properties |-> entities'[n].properties]
      BY <3>2
    <3> QED
      BY <1>1, <2>2, <3>1, <3>2 DEF EntityWritten
  <2>3. KnowsRows(s)' /\ KnowsEdges(s)'
    BY <1>1, <2>2 DEF EntityWritten, KnowsRows, KnowsEdges
  <2> QED
    BY <2>1, <2>3
<1>13. OverlapIsRace'
  <2>1. ASSUME NEW d \in Touched(s)' PROVE d \in Touched(s)
    <3>1. PICK j \in Held(s) \cup {n} : d = entities'[j].cid
      BY <1>1, <1>11, <2>1 DEF Touched, EntityWritten
    <3>2. CASE j = n
      BY <1>1, <1>3, <3>1, <3>2 DEF EntityWritten
    <3>3. CASE j \in Held(s)
      <4>1. entities'[j].cid = entities[j].cid
        BY <1>2, <1>5, <3>3 DEF SessionSound, Grows
      <4> QED
        BY <3>1, <3>3, <4>1 DEF Touched
    <3> QED
      BY <3>2, <3>3
  <2> QED
    BY <1>3, <1>4, <1>5, <2>1, OverlapStays
<1>14. OneRow'
  <2> SUFFICES ASSUME NEW j \in DOMAIN entities', NEW k \in DOMAIN entities',
                      entities'[j].cid = entities'[k].cid, entities'[j].cid \notin raced'
               PROVE  j = k
    BY DEF OneRow
  <2>0. raced' = raced /\ j \in DOMAIN entities \cup {n} /\ k \in DOMAIN entities \cup {n}
    BY <1>1 DEF EntityWritten
  <2>1. CASE entities'[j].cid = c
    <3>1. \A i \in DOMAIN entities : entities'[i].cid = c => i \in RowsOf(c)
      BY <1>5 DEF Grows, RowsOf
    <3>2. RowsOf(c) \subseteq {n}
      BY <1>1, <2>0, <2>1 DEF EntityWritten
    <3> QED
      BY <2>0, <2>1, <3>1, <3>2
  <2>2. CASE entities'[j].cid # c
    <3>1. j \in DOMAIN entities /\ k \in DOMAIN entities
      BY <1>1, <2>0, <2>2 DEF EntityWritten
    <3> QED
      BY <1>5, <2>0, <3>1 DEF GraphInv, OneRow, Grows
  <2> QED
    BY <2>1, <2>2
<1>15. OneEdge' /\ EdgesSound'
  <2>1. UNCHANGED <<relationships, evidence, raced>>
    BY <1>1 DEF EntityWritten
  <2>2. \A k \in DOMAIN relationships :
          /\ relationships[k].source \in DOMAIN entities
          /\ entities'[relationships[k].source].cid = entities[relationships[k].source].cid
    BY <1>5 DEF GraphInv, EdgesSound, Grows
  <2>3. OneEdge'
    BY <2>1, <2>2 DEF GraphInv, OneEdge
  <2>4. EdgesSound'
    BY <1>5, <2>1, <2>2 DEF GraphInv, EdgesSound, Grows
  <2> QED
    BY <2>3, <2>4
<1>16. claimed' = claimed \cup {[cid |-> c, by |-> s]} /\ raced' = raced
  BY <1>1 DEF EntityWritten
<1>17. PropertiesKept'
  <2> SUFFICES ASSUME NEW x \in claimed', "cid" \in DOMAIN x, x.cid \notin raced
               PROVE  \E k \in RowsOf(x.cid)' : x.by \in entities'[k].properties
    BY <1>16 DEF PropertiesKept
  <2>1. n \in RowsOf(c)'
    BY <1>1 DEF EntityWritten, RowsOf
  <2>2. CASE x = [cid |-> c, by |-> s]
    <3>1. x.cid = c /\ x.by = s
      BY <2>2
    <3>2. s \in entities'[n].properties
      BY <1>1, <3>1 DEF EntityWritten
    <3> QED
      BY <2>1, <3>1, <3>2
  <2>3. CASE x \in claimed
    <3>1. PICK k \in RowsOf(x.cid) : x.by \in entities[k].properties
      BY <2>3 DEF GraphInv, PropertiesKept
    <3>2. CASE x.cid = c
      <4>1. k = n /\ n \in DOMAIN entities
        BY <1>1, <3>1, <3>2 DEF EntityWritten, RowsOf
      <4>2. entities[n].properties \subseteq entities'[n].properties
        BY <1>1, <3>2, <4>1 DEF EntityWritten
      <4> QED
        BY <2>1, <3>1, <3>2, <4>1, <4>2
    <3>3. CASE x.cid # c
      <4>1. RowsOf(x.cid)' = RowsOf(x.cid) /\ n \notin RowsOf(x.cid)
        BY <1>7, <3>3
      <4>2. entities'[k] = entities[k]
        BY <1>1, <3>1, <4>1 DEF EntityWritten, RowsOf
      <4> QED
        BY <3>1, <4>1, <4>2
    <3> QED
      BY <3>2, <3>3
  <2> QED
    BY <1>16, <2>2, <2>3
<1>18. EdgesKept'
  <2> SUFFICES ASSUME NEW x \in claimed', "source" \in DOMAIN x
               PROVE  /\ x.source \in DOMAIN entities'
                      /\ entities'[x.source].cid \notin raced =>
                           \E k \in EdgesOf(x.source, x.target) :
                              Cited(x.by) \subseteq relationships[k].supporting
    BY <1>1, <1>8, <1>16 DEF EdgesKept, EntityWritten, Cited
  <2>1. x # [cid |-> c, by |-> s]
    OBVIOUS
  <2>2. x \in claimed
    BY <1>16, <2>1
  <2> QED
    BY <1>5, <2>2 DEF GraphInv, EdgesKept, Grows
<1> QED
  BY <1>6, <1>10, <1>12, <1>13, <1>14, <1>15, <1>17, <1>18 DEF GraphInv

-----------------------------------------------------------------------------
(* The commit of a relationship.                                           *)

\* What the commit of a relationship does, in row n: a new one, or the one that was selected.
RelationshipWritten(s, a, b, n) ==
    /\ relationships' \in Seq(RelationshipType) /\ Len(relationships') <= MaxRows
    /\ n \in Rows /\ DOMAIN relationships' = DOMAIN relationships \cup {n}
    /\ \A k \in DOMAIN relationships : k # n => relationships'[k] = relationships[k]
    /\ relationships'[n].source = a /\ relationships'[n].target = b
    /\ n \in DOMAIN relationships => relationships[n].source = a /\ relationships[n].target = b
    /\ relationships'[n].supporting \subseteq evidence
    /\ Cited(s) \subseteq relationships'[n].supporting
    /\ entities[a].cid \notin raced =>
         /\ EdgesOf(a, b) \subseteq {n}
         /\ n \in DOMAIN relationships =>
              relationships[n].supporting \subseteq relationships'[n].supporting
    /\ session' = [session EXCEPT ![s] = session'[s]] /\ session'[s] \in SessionType
    /\ session'[s].at = "open" /\ session'[s].copy = session[s].copy
    /\ claimed' = claimed \cup {[source |-> a, target |-> b, by |-> s]}
    /\ UNCHANGED <<entities, evidence, raced>>

LEMMA RelationshipCommitWrites ==
  ASSUME GraphInv, NEW s \in Sessions, RelationshipCommit(s)
  PROVE  \E n \in Rows : RelationshipWritten(s, session[s].source, session[s].target, n)
<1>0. /\ Typed /\ SessionSound(s) /\ KnowsEdges(s) /\ OneEdge
      /\ session[s] \in SessionType /\ session \in [Sessions -> SessionType]
      /\ session[s].upserts \in Nat /\ MaxUpserts \in Nat
  BY SessionIs, TablesAre DEF GraphInv, Typed, GraphTypeOK
<1> DEFINE merged == session[s].properties \cup Cited(s)
           k == session[s].row
           a == session[s].source
           b == session[s].target
<1>1. /\ session[s].at = "relationship" /\ session[s].upserts < MaxUpserts
      /\ a \in DOMAIN entities /\ b \in DOMAIN entities /\ a \in Rows /\ b \in Rows
      /\ k \in {0} \cup EdgesOf(a, b)
      /\ claimed' = claimed \cup {[source |-> a, target |-> b, by |-> s]}
      /\ UNCHANGED <<entities, evidence, raced>>
  BY <1>0, TablesAre DEF RelationshipCommit, SessionSound
<1>2. merged \subseteq evidence /\ merged \subseteq Stages /\ Cited(s) \subseteq merged
  BY <1>0, <1>1 DEF SessionSound, Open, Typed, GraphTypeOK
<1>3. /\ relationships \in Seq(RelationshipType) /\ Len(relationships) \in Nat
      /\ Len(relationships) <= MaxRows
  BY <1>0 DEF Typed, GraphTypeOK
<1>4. /\ session' = [session EXCEPT ![s] = session'[s]] /\ session'[s] \in SessionType
      /\ session'[s].at = "open" /\ session'[s].copy = session[s].copy
  <2>1. session' = [session EXCEPT ![s].at = "open", ![s].upserts = @ + 1, ![s].row = 0,
                                   ![s].properties = {}, ![s].source = 0, ![s].target = 0]
    BY DEF RelationshipCommit
  <2>2. session[s].upserts + 1 \in 0..MaxUpserts /\ 0 \in 0..MaxRows
    BY <1>0, <1>1, GraphAssumption
  <2> QED
    BY <1>0, <2>1, <2>2 DEF SessionType
<1>5. CASE k = 0
  <2> DEFINE new == [source |-> a, target |-> b, supporting |-> merged]
             n == Len(relationships) + 1
  <2>1. Len(relationships) < MaxRows /\ relationships' = Append(relationships, new)
    BY <1>5 DEF RelationshipCommit
  <2>2. /\ new \in RelationshipType
        /\ new.source = a /\ new.target = b /\ new.supporting = merged
    BY <1>1, <1>2 DEF RelationshipType
  <2> HIDE DEF new
  <2>3. /\ relationships' \in Seq(RelationshipType) /\ Len(relationships') = n
        /\ relationships'[n] = new
        /\ DOMAIN relationships' = DOMAIN relationships \cup {n}
        /\ \A j \in DOMAIN relationships : relationships'[j] = relationships[j]
    BY <1>3, <2>1, <2>2, TableSteps
  <2>4. n \in Rows /\ n \notin DOMAIN relationships /\ n <= MaxRows
    BY <1>0, <1>3, <2>1, TablesAre DEF Rows
  <2> HIDE DEF n
  <2>5. entities[a].cid \notin raced => EdgesOf(a, b) = {}
    BY <1>0, <1>1, <1>5 DEF KnowsEdges
  <2> HIDE DEF a, b, k, merged
  <2>6. RelationshipWritten(s, a, b, n)
    BY <1>1, <1>2, <1>4, <2>2, <2>3, <2>4, <2>5 DEF RelationshipWritten
  <2> QED
    BY <2>4, <2>6 DEF a, b
<1>6. CASE k # 0
  <2>1. relationships' = [relationships EXCEPT ![k].supporting = merged]
    BY <1>6 DEF RelationshipCommit
  <2>2. /\ k \in DOMAIN relationships /\ k \in Rows
        /\ relationships[k].source = a /\ relationships[k].target = b
    BY <1>0, <1>1, <1>6, TablesAre DEF EdgesOf
  <2>3. relationships[k] \in RelationshipType
    BY <1>3, <2>2
  <2> DEFINE new == [relationships[k] EXCEPT !.supporting = merged]
  <2>4. /\ new \in RelationshipType
        /\ new.source = a /\ new.target = b /\ new.supporting = merged
    BY <1>2, <2>2, <2>3 DEF RelationshipType
  <2>5. relationships' = [relationships EXCEPT ![k] = new]
    BY <2>1
  <2> HIDE DEF new
  <2>6. /\ relationships' \in Seq(RelationshipType) /\ Len(relationships') = Len(relationships)
        /\ DOMAIN relationships' = DOMAIN relationships /\ relationships'[k] = new
        /\ \A j \in DOMAIN relationships : j # k => relationships'[j] = relationships[j]
    BY <1>3, <2>2, <2>4, <2>5, TableSteps
  <2>7. entities[a].cid \notin raced =>
          EdgesOf(a, b) \subseteq {k} /\ relationships[k].supporting \subseteq merged
    <3>1. entities[a].cid \notin raced => session[s].properties = relationships[k].supporting
      BY <1>0, <1>1, <1>6 DEF KnowsEdges
    <3>2. entities[a].cid \notin raced => EdgesOf(a, b) \subseteq {k}
      BY <1>0, <2>2 DEF OneEdge, EdgesOf
    <3> QED
      BY <3>1, <3>2
  <2> HIDE DEF a, b, k, merged
  <2>8. RelationshipWritten(s, a, b, k)
    BY <1>1, <1>2, <1>3, <1>4, <2>2, <2>4, <2>6, <2>7 DEF RelationshipWritten
  <2> QED
    BY <2>2, <2>8 DEF a, b
<1> QED
  BY <1>5, <1>6

\* A committed relationship: only those of its two entities are touched, and only by this session
\* if nobody races.
LEMMA RelationshipCommitKeeps ==
  ASSUME GraphInv, NEW s \in Sessions, RelationshipCommit(s)
  PROVE  GraphInv'
<1>0. PICK a : a = session[s].source
  OBVIOUS
<1>0a. PICK b : b = session[s].target
  OBVIOUS
<1>1. PICK n \in Rows : RelationshipWritten(s, a, b, n)
  BY <1>0, <1>0a, RelationshipCommitWrites
<1>2. /\ Typed /\ SessionSound(s) /\ KnowsRows(s) /\ session[s] \in SessionType
      /\ session[s].at = "relationship" /\ Open(s)
      /\ a \in Held(s) /\ b \in Held(s) /\ a \in DOMAIN entities /\ a \in Rows /\ b \in Rows
  BY <1>0, <1>0a, SessionIs, TablesAre DEF GraphInv, RelationshipCommit, SessionSound, Open
<1>3. entities[a].cid \in Touched(s)
  BY <1>2 DEF Touched
<1>4. \A t \in Sessions \ {s} : session'[t] = session[t]
  BY <1>1, <1>2 DEF RelationshipWritten, Typed, GraphTypeOK
<1>5. Grows
  BY <1>1 DEF Grows, RelationshipWritten
<1>6. Typed'
  <2>1. [source |-> a, target |-> b, by |-> s] \in EdgeClaim
    BY <1>2 DEF EdgeClaim
  <2> QED
    BY <1>1, <1>2, <2>1 DEF RelationshipWritten, Typed, GraphTypeOK
<1>7. ASSUME NEW d, NEW e, d # a \/ e # b
      PROVE  EdgesOf(d, e)' = EdgesOf(d, e) /\ n \notin EdgesOf(d, e)
  BY <1>1, <1>7 DEF RelationshipWritten, EdgesOf
<1>8. UNCHANGED <<entities, evidence, raced>> /\ \A d : RowsOf(d)' = RowsOf(d)
  BY <1>1 DEF RelationshipWritten, RowsOf
<1>9. \A t \in Sessions \ {s} : Open(t) /\ entities[a].cid \in Touched(t) => entities[a].cid \in raced
  BY <1>2, <1>3 DEF GraphInv, OverlapIsRace
<1>10. ASSUME NEW t \in Sessions \ {s} PROVE SessionSound(t)' /\ KnowsRows(t)' /\ KnowsEdges(t)'
  <2>0. /\ SessionSound(t) /\ KnowsRows(t) /\ KnowsEdges(t) /\ session'[t] = session[t]
    BY <1>4 DEF GraphInv
  <2>1. SessionSound(t)'
    BY <1>5, <2>0, SoundStays
  <2>2. KnowsRows(t)'
    BY <1>8, <2>0 DEF KnowsRows
  <2>3. ASSUME session[t].at = "relationship", entities[session[t].source].cid \notin raced
        PROVE  IF session[t].row = 0 THEN EdgesOf(session[t].source, session[t].target)' = {}
               ELSE session[t].properties = relationships'[session[t].row].supporting
    <3>0. PICK d : d = session[t].source
      OBVIOUS
    <3>0a. PICK e : e = session[t].target
      OBVIOUS
    <3>1. d # a
      <4>1. entities[d].cid \in Touched(t) /\ Open(t)
        BY <2>0, <2>3, <3>0 DEF SessionSound, Touched, Open
      <4> QED
        BY <1>9, <2>3, <3>0, <4>1
    <3>2. EdgesOf(d, e)' = EdgesOf(d, e) /\ n \notin EdgesOf(d, e)
      BY <1>7, <3>1
    <3>3. session[t].row # 0 => session[t].row \in EdgesOf(d, e)
      BY <2>0, <2>3, <3>0, <3>0a DEF SessionSound
    <3>4. session[t].row # 0 => relationships'[session[t].row] = relationships[session[t].row]
      BY <1>1, <3>2, <3>3 DEF RelationshipWritten, EdgesOf
    <3> QED
      BY <2>0, <2>3, <3>0, <3>0a, <3>2, <3>4 DEF KnowsEdges
  <2>4. KnowsEdges(t)'
    BY <1>8, <2>0, <2>3 DEF KnowsEdges
  <2> QED
    BY <2>1, <2>2, <2>4
<1>11. Held(s)' = Held(s) /\ Touched(s)' = Touched(s)
  BY <1>1, <1>2 DEF RelationshipWritten, Held, Touched
<1>12. SessionSound(s)' /\ KnowsRows(s)' /\ KnowsEdges(s)'
  <2>1. SessionSound(s)'
    BY <1>1, <1>2, <1>11 DEF RelationshipWritten, SessionSound, Open, Cited
  <2>2. KnowsRows(s)'
    BY <1>1, <1>2 DEF RelationshipWritten, KnowsRows
  <2>3. KnowsEdges(s)'
    BY <1>1 DEF RelationshipWritten, KnowsEdges
  <2> QED
    BY <2>1, <2>2, <2>3
<1>13. OverlapIsRace'
  BY <1>2, <1>4, <1>5, <1>11, OverlapStays
<1>14. OneRow' /\ PropertiesKept'
  <2>1. OneRow'
    BY <1>8 DEF GraphInv, OneRow
  <2>2. claimed' = claimed \cup {[source |-> a, target |-> b, by |-> s]}
    BY <1>1 DEF RelationshipWritten
  <2>3. "cid" \notin DOMAIN [source |-> a, target |-> b, by |-> s]
    OBVIOUS
  <2>4. ASSUME NEW x \in claimed', "cid" \in DOMAIN x PROVE x \in claimed
    BY <2>2, <2>3, <2>4
  <2>5. PropertiesKept'
    BY <1>8, <2>4 DEF GraphInv, PropertiesKept
  <2> QED
    BY <2>1, <2>5
<1>15. OneEdge'
  <2> SUFFICES ASSUME NEW j \in DOMAIN relationships', NEW k \in DOMAIN relationships',
                      relationships'[j].source = relationships'[k].source,
                      relationships'[j].target = relationships'[k].target,
                      entities[relationships'[j].source].cid \notin raced
               PROVE  j = k
    BY <1>8 DEF OneEdge
  <2>0. j \in DOMAIN relationships \cup {n} /\ k \in DOMAIN relationships \cup {n}
    BY <1>1 DEF RelationshipWritten
  <2>1. CASE relationships'[j].source = a /\ relationships'[j].target = b
    <3>1. \A i \in DOMAIN relationships :
            relationships'[i].source = a /\ relationships'[i].target = b => i \in EdgesOf(a, b)
      BY <1>5 DEF Grows, EdgesOf
    <3>2. EdgesOf(a, b) \subseteq {n}
      BY <1>1, <2>1 DEF RelationshipWritten
    <3> QED
      BY <2>0, <2>1, <3>1, <3>2
  <2>2. CASE ~ (relationships'[j].source = a /\ relationships'[j].target = b)
    <3>1. j # n /\ k # n
      BY <1>1, <2>2 DEF RelationshipWritten
    <3>2. j \in DOMAIN relationships /\ k \in DOMAIN relationships
      BY <2>0, <3>1
    <3>3. relationships'[j] = relationships[j] /\ relationships'[k] = relationships[k]
      BY <1>1, <3>1, <3>2 DEF RelationshipWritten
    <3> QED
      BY <3>2, <3>3 DEF GraphInv, OneEdge
  <2> QED
    BY <2>1, <2>2
<1>16. EdgesSound'
  <2> SUFFICES ASSUME NEW k \in DOMAIN relationships'
               PROVE  /\ relationships'[k].source \in DOMAIN entities
                      /\ relationships'[k].supporting \subseteq evidence
    BY <1>8 DEF EdgesSound
  <2>1. CASE k = n
    BY <1>1, <1>2, <2>1 DEF RelationshipWritten
  <2>2. CASE k # n
    <3>1. k \in DOMAIN relationships /\ relationships'[k] = relationships[k]
      BY <1>1, <2>2 DEF RelationshipWritten
    <3> QED
      BY <3>1 DEF GraphInv, EdgesSound
  <2> QED
    BY <2>1, <2>2
<1>17. EdgesKept'
  <2>0. claimed' = claimed \cup {[source |-> a, target |-> b, by |-> s]}
    BY <1>1 DEF RelationshipWritten
  <2> SUFFICES ASSUME NEW x \in claimed', "source" \in DOMAIN x
               PROVE  /\ x.source \in DOMAIN entities
                      /\ entities[x.source].cid \notin raced =>
                           \E k \in EdgesOf(x.source, x.target)' :
                              Cited(x.by) \subseteq relationships'[k].supporting
    BY <1>8 DEF EdgesKept, Cited
  <2>1. n \in EdgesOf(a, b)' /\ Cited(s) \subseteq relationships'[n].supporting
    BY <1>1 DEF RelationshipWritten, EdgesOf
  <2>2. CASE x = [source |-> a, target |-> b, by |-> s]
    <3>1. x.source = a /\ x.target = b /\ x.by = s
      BY <2>2
    <3> QED
      BY <1>2, <2>1, <3>1
  <2>3. CASE x \in claimed
    <3>0. x.source \in DOMAIN entities
      BY <2>3 DEF GraphInv, EdgesKept
    <3> SUFFICES ASSUME entities[x.source].cid \notin raced
                 PROVE  \E k \in EdgesOf(x.source, x.target)' :
                              Cited(x.by) \subseteq relationships'[k].supporting
      BY <3>0
    <3>1. PICK k \in EdgesOf(x.source, x.target) : Cited(x.by) \subseteq relationships[k].supporting
      BY <2>3 DEF GraphInv, EdgesKept
    <3>2. CASE x.source = a /\ x.target = b
      <4>1. k = n /\ n \in DOMAIN relationships
        BY <1>1, <3>1, <3>2 DEF RelationshipWritten, EdgesOf
      <4>2. relationships[n].supporting \subseteq relationships'[n].supporting
        BY <1>1, <3>2, <4>1 DEF RelationshipWritten
      <4> QED
        BY <2>1, <3>1, <3>2, <4>1, <4>2
    <3>3. CASE ~ (x.source = a /\ x.target = b)
      <4>1. /\ EdgesOf(x.source, x.target)' = EdgesOf(x.source, x.target)
            /\ n \notin EdgesOf(x.source, x.target)
        BY <1>7, <3>3
      <4>2. relationships'[k] = relationships[k]
        BY <1>1, <3>1, <4>1 DEF RelationshipWritten, EdgesOf
      <4> QED
        BY <3>1, <4>1, <4>2
    <3> QED
      BY <3>2, <3>3
  <2> QED
    BY <2>0, <2>2, <2>3
<1> QED
  BY <1>6, <1>10, <1>12, <1>13, <1>14, <1>15, <1>16, <1>17 DEF GraphInv

-----------------------------------------------------------------------------
(* The theorems.                                                           *)

LEMMA GraphInvStarts == GraphInit => GraphInv
<1> SUFFICES ASSUME GraphInit PROVE GraphInv
  OBVIOUS
<1>0. entities = <<>> /\ relationships = <<>> /\ DOMAIN entities = {} /\ DOMAIN relationships = {}
  BY DEF GraphInit
<1>1. Closed \in SessionType
  BY GraphAssumption DEF Closed, SessionType
<1>2. Typed
  <2>1. MaxRows \in Nat
    BY GraphAssumption
  <2>2. Len(entities) = 0 /\ Len(relationships) = 0
    BY <1>0
  <2>3. entities \in Seq(EntityType) /\ relationships \in Seq(RelationshipType)
    BY <1>0
  <2> QED
    BY <1>1, <2>1, <2>2, <2>3 DEF GraphInit, Typed, GraphTypeOK
<1>3. ASSUME NEW s \in Sessions
      PROVE  SessionSound(s) /\ KnowsRows(s) /\ KnowsEdges(s) /\ ~Open(s)
  <2>1. session[s].at = "new" /\ session[s].copy = {}
    BY DEF GraphInit, Closed
  <2> QED
    BY <2>1 DEF SessionSound, KnowsRows, KnowsEdges, Open, Held
<1>4. OverlapIsRace
  BY <1>3 DEF OverlapIsRace
<1>5. OneRow /\ OneEdge /\ EdgesSound
  BY <1>0 DEF OneRow, OneEdge, EdgesSound
<1>6. PropertiesKept /\ EdgesKept
  BY DEF GraphInit, PropertiesKept, EdgesKept
<1> QED
  BY <1>2, <1>3, <1>4, <1>5, <1>6 DEF GraphInv

LEMMA GraphInvHolds == GraphSpec => []GraphInv
<1>1. GraphInv /\ [GraphNext]_graphVars => GraphInv'
  <2> SUFFICES ASSUME GraphInv, [GraphNext]_graphVars PROVE GraphInv'
    OBVIOUS
  <2>1. CASE UNCHANGED graphVars
    BY <2>1 DEF graphVars, GraphInv, Typed, GraphTypeOK, SessionSound, KnowsRows, KnowsEdges,
                OverlapIsRace, OneRow, OneEdge, EdgesSound, PropertiesKept, EdgesKept, RowsOf,
                EdgesOf, Held, Open, Touched, Cited
  <2>2. CASE GraphNext
    <3>1. PICK s \in Sessions :
            \/ StoreFindings(s) \/ AddEvidence(s) \/ Synthesize(s) \/ CloseSession(s)
            \/ \E c \in Cids : EntitySelect(s, c)
            \/ EntityCommit(s)
            \/ \E a, b \in Rows : RelationshipSelect(s, a, b)
            \/ RelationshipCommit(s)
      BY <2>2 DEF GraphNext
    <3> QED
      BY <3>1, BeginEndKeep, EntitySelectKeeps, EntityCommitKeeps, RelationshipSelectKeeps,
         RelationshipCommitKeeps
  <2> QED
    BY <2>1, <2>2
<1> QED
  BY <1>1, GraphInvStarts, PTL DEF GraphSpec

\* However many stages and readers upsert it, an entity has a second row only if two sessions that
\* upserted it were open at once.
THEOREM DuplicatesNeedOverlap == GraphSpec => []DuplicatesOnlyByOverlap
<1>1. GraphInv => DuplicatesOnlyByOverlap
  <2> SUFFICES ASSUME GraphInv, NEW c \in Cids \ raced PROVE Cardinality(RowsOf(c)) <= 1
    BY DEF DuplicatesOnlyByOverlap
  <2>1. \A j, k \in RowsOf(c) : j = k
    BY DEF GraphInv, OneRow, RowsOf
  <2>2. CASE RowsOf(c) = {}
    BY <2>2, FS_EmptySet
  <2>3. CASE RowsOf(c) # {}
    <3>1. PICK k \in RowsOf(c) : RowsOf(c) = {k}
      BY <2>1, <2>3
    <3> QED
      BY <3>1, FS_Singleton
  <2> QED
    BY <2>2, <2>3
<1> QED
  BY <1>1, GraphInvHolds, PTL

\* What a committed upsert merged into an entity is in its row for ever, unless two sessions that
\* upserted the entity were open at once.
THEOREM MergedPropertiesStay == GraphSpec => []PropertiesKept
<1>1. GraphInv => PropertiesKept
  BY DEF GraphInv
<1> QED
  BY <1>1, GraphInvHolds, PTL

\* All evidence that upserts of a relationship cited is cited by its only row, and all of it is
\* stored, unless two sessions that upserted the entity it starts from were open at once.
THEOREM EvidenceIsAccumulated == GraphSpec => []EvidenceAccumulates
<1>1. GraphInv => EvidenceAccumulates
  <2> SUFFICES ASSUME GraphInv PROVE EvidenceAccumulates
    OBVIOUS
  <2>1. \A k \in DOMAIN relationships : relationships[k].supporting \subseteq evidence
    BY DEF GraphInv, EdgesSound
  <2>2. ASSUME NEW x \in claimed, "source" \in DOMAIN x, entities[x.source].cid \notin raced
        PROVE  \E k \in DOMAIN relationships : EdgesOf(x.source, x.target) = {k}
                                               /\ Cited(x.by) \subseteq relationships[k].supporting
    <3>1. PICK k \in EdgesOf(x.source, x.target) : Cited(x.by) \subseteq relationships[k].supporting
      BY <2>2 DEF GraphInv, EdgesKept
    <3>2. EdgesOf(x.source, x.target) = {k} /\ k \in DOMAIN relationships
      BY <2>2, <3>1 DEF GraphInv, OneEdge, EdgesOf
    <3> QED
      BY <3>1, <3>2
  <2> QED
    BY <2>1, <2>2 DEF EvidenceAccumulates
<1> QED
  BY <1>1, GraphInvHolds, PTL
=============================================================================
