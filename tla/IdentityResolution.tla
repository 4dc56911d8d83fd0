------------------------- MODULE IdentityResolution -------------------------
(***************************************************************************)
(* The merging of observed people into persons                             *)
(* (core/identity/resolution.py).  A candidate is a record                 *)
(*                                                                         *)
(*   [name, email, username, org, kind]                                    *)
(*                                                                         *)
(* whose name is a sequence of words and whose organization a set of       *)
(* words, so that containment of texts is containment of sets; NoText and  *)
(* {} stand for missing values, "owned" tells whether the address has the  *)
(* name of the target in it, and "kind" what the words of the name have    *)
(* shown the candidate to be.                                              *)
(***************************************************************************)
EXTENDS Lists, FiniteSets

NoText == "no text"
NoEmail == [box |-> NoText, owned |-> FALSE]

\* The weights in hundredths.
WeightVeryStrong == 90
WeightStrong == 70
WeightMedium == 45
MergeThreshold == 60

\* classify_entity_type, in the order of its checks, on what the words, the address of the profile
\* and the text of the name are found to contain.
EntityKind(traits) ==
    CASE "unnamed" \in traits -> "system_bot"
      [] "directory" \in traits -> "corporate_directory"
      [] "legal_form" \in traits /\ traits \cap {"region", "industry"} # {} -> "subsidiary_brand"
      [] "legal_form" \in traits -> "corporate_directory"
      [] {"region", "short"} \subseteq traits -> "regional_account"
      [] "placeholder" \in traits \/ "abbreviation" \in traits -> "system_bot"
      [] OTHER -> "human"

\* _names_compatible: the same words, or the same first and last of at least two.
NamesCompatible(a, b) ==
    /\ a # <<>> /\ b # <<>>
    /\ \/ a = b
       \/ Len(a) >= 2 /\ Len(b) >= 2 /\ Head(a) = Head(b) /\ a[Len(a)] = b[Len(b)]

\* One organization's text contains the other's.
Related(a, b) == a \subseteq b \/ b \subseteq a

SharesEmployer(cand, person) == cand.org # {} /\ \E org \in person.organizations : Related(cand.org, org)

Points(holds, weight) == IF holds THEN weight ELSE 0

\* The score of a candidate for a person, signal by signal.
Score(cand, person) ==
    LET compatible == NamesCompatible(person.name, cand.name)
        known == cand.username # NoText /\ cand.username \in person.usernames
        verified == cand.org # {} /\ \E org \in person.organizations : cand.org \subseteq org
    IN Points(cand.email # NoEmail /\ cand.email \in person.emails, WeightVeryStrong)
       + Points(cand.email.owned /\ compatible, WeightVeryStrong)
       + Points(compatible, WeightMedium)
       + Points(known, IF verified THEN WeightStrong ELSE WeightMedium)
       + Points(SharesEmployer(cand, person), WeightMedium)

\* An employer that none of the person's resembles, other than the target.
Contradicts(cand, person, target) ==
    /\ cand.org # {} /\ person.organizations # {}
    /\ ~SharesEmployer(cand, person)
    /\ cand.org # target

\* The first person with the highest score, 0 if none scores.
BestPerson(cand, persons) ==
    LET best == {n \in DOMAIN persons :
                   \A k \in DOMAIN persons : Score(cand, persons[k]) <= Score(cand, persons[n])}
        scoring == {n \in best : Score(cand, persons[n]) > 0}
    IN IF scoring = {} THEN 0 ELSE CHOOSE n \in scoring : \A k \in scoring : n <= k

Given(value, missing) == {value} \ {missing}

NewPerson(cand, k, status) ==
    [name |-> cand.name, emails |-> Given(cand.email, NoEmail), usernames |-> Given(cand.username, NoText),
     organizations |-> Given(cand.org, {}), evidence |-> <<k>>, status |-> status]

\* The signals of a candidate join those of the person; the name by which it is found stays the first one.
Merged(person, cand, k) ==
    [person EXCEPT !.emails = @ \cup Given(cand.email, NoEmail),
                   !.usernames = @ \cup Given(cand.username, NoText),
                   !.organizations = @ \cup Given(cand.org, {}),
                   !.evidence = Append(@, k), !.status = "resolved"]

\* Mutant: a compatible name alone merges.
PersonsAfter_NameAlone(persons, cand, k, target) ==
    LET n == BestPerson(cand, persons) IN
    IF n = 0 THEN Append(persons, NewPerson(cand, k, "resolved"))
    ELSE IF Contradicts(cand, persons[n], target) THEN Append(persons, NewPerson(cand, k, "possible_match"))
    ELSE [persons EXCEPT ![n] = Merged(@, cand, k)]

\* One candidate of resolve_identities: merged into the best person, kept apart as a possible match of
\* one it contradicts, or a person of its own.
PersonsAfter(persons, cand, k, target) ==
    LET n == BestPerson(cand, persons) IN
    IF n = 0 THEN Append(persons, NewPerson(cand, k, "resolved"))
    ELSE IF Contradicts(cand, persons[n], target) THEN Append(persons, NewPerson(cand, k, "possible_match"))
    ELSE IF Score(cand, persons[n]) >= MergeThreshold THEN [persons EXCEPT ![n] = Merged(@, cand, k)]
    ELSE Append(persons, NewPerson(cand, k, "resolved"))

\* resolve_identities, after each number of the candidates.
PersonsOf(cands, target) ==
    LET persons[k \in 0..Len(cands)] ==
          IF k = 0 THEN <<>> ELSE PersonsAfter(persons[k - 1], cands[k], k, target)
    IN persons
ResolveIdentities(cands, target) == PersonsOf(cands, target)[Len(cands)]

Humans(cands) == Among(cands, {c \in Members(cands) : EntityKind(c.kind) = "human"})

\* resolve_identities_and_footprint: who is human is resolved, anything else is set aside.
ResolveWithFootprint(cands, target) ==
    [resolved_persons |-> ResolveIdentities(Humans(cands), target),
     unresolved_footprint |-> Among(cands, {c \in Members(cands) : EntityKind(c.kind) # "human"})]

-----------------------------------------------------------------------------
(* Properties *)

\* Two of name, username and employer tie a candidate to the earlier ones of a person, or one address
\* does, or an address of the target with the name.
TiedTo(cand, first, earlier) ==
    LET same_name == NamesCompatible(first.name, cand.name)
        same_user == cand.username # NoText /\ \E c \in earlier : c.username = cand.username
        same_employer == \E c \in earlier : cand.org # {} /\ c.org # {} /\ Related(cand.org, c.org)
    IN \/ cand.email # NoEmail /\ \E c \in earlier : c.email = cand.email
       \/ cand.email.owned /\ same_name
       \/ same_name /\ same_user
       \/ same_name /\ same_employer
       \/ same_user /\ same_employer

\* Nobody's evidence is lost or counted twice; no person is put together from a name alone, from a
\* user name alone, or from a shared employer alone; and no employer joins a person who has only
\* unrelated ones, unless it is the target.
Sound(cands, target) ==
    LET persons == ResolveWithFootprint(cands, target).resolved_persons
        humans == Humans(cands)
        Earlier(p, n) == {humans[persons[p].evidence[k]] : k \in 1..n - 1}
    IN /\ \A k \in DOMAIN humans : \E p \in DOMAIN persons : \E n \in DOMAIN persons[p].evidence :
             /\ persons[p].evidence[n] = k
             /\ \A q \in DOMAIN persons : \A m \in DOMAIN persons[q].evidence :
                  persons[q].evidence[m] = k => q = p /\ m = n
       /\ \A p \in DOMAIN persons : \A n \in 2..Len(persons[p].evidence) :
             LET cand == humans[persons[p].evidence[n]]
                 employers == {c.org : c \in Earlier(p, n)} \ {{}}
             IN /\ TiedTo(cand, humans[persons[p].evidence[1]], Earlier(p, n))
                /\ cand.org \in {{}, target} \/ employers = {} \/ \E org \in employers : Related(cand.org, org)
=============================================================================
