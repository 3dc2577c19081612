------------------------ MODULE ApprovalReviewProofs ------------------------
(***************************************************************************)
(* Proofs about ApprovalReview, for every profile, every set of builds and *)
(* proposals, and any number of rows and operators.                        *)
(***************************************************************************)
EXTENDS ApprovalReview, FiniteSetTheorems, WellFoundedInduction, TLAPS

(***************************************************************************)
(* Field validation.                                                       *)
(***************************************************************************)

\* AcceptedBy: build b takes every value of the frozen fields.
AcceptedBy(known, b) ==
    \A n \in DOMAIN known : n \in Defined /\ known[n] \in Caps(b).accepts

\* BodyItem: what validate_frozen_fields makes of one stored field.
BodyItem(known, n) == [name |-> n, value |-> known[n], source |-> "body",
                       quoted |-> FALSE, found |-> {}]

\* BodyItems: the stored fields of a row, as validate_frozen_fields hands them on:
\* all of them are present, and where they come from is never in doubt.
LEMMA BodyItems ==
    ASSUME NEW known \in Knowns
    PROVE  /\ AsBody(known).items = {BodyItem(known, n) : n \in DOMAIN known}
           /\ ~AsBody(known).document
           /\ \A n \in DOMAIN known :
                 /\ BodyItem(known, n).name = n /\ BodyItem(known, n).value = known[n]
                 /\ known[n] \in Values /\ known[n] # Blank
                 /\ SourceCandidates(BodyItem(known, n), FALSE) = {"body"}
<1>1. AsBody(known).items = {BodyItem(known, n) : n \in DOMAIN known}
      /\ ~AsBody(known).document
  BY DEF AsBody, BodyItem
<1>2. ASSUME NEW n \in DOMAIN known
      PROVE  known[n] \in Values /\ known[n] # Blank
  BY ReviewAssumption DEF Knowns
<1>3. ASSUME NEW n \in DOMAIN known
      PROVE  SourceCandidates(BodyItem(known, n), FALSE) = {"body"}
  BY DEF SourceCandidates, BodyItem
<1>4. QED
  BY <1>1, <1>2, <1>3 DEF BodyItem

\* FrozenMeaning: what the second validation comes down to, and that its two
\* verdicts, the review's and the decision's, are the same.
LEMMA FrozenMeaning ==
    ASSUME NEW known \in Knowns, NEW b
    PROVE  /\ FrozenInvalid(known, b) = {} <=> AcceptedBy(known, b)
           /\ FrozenInvalid(known, b) = {} => FrozenValid(known, b)
<1> DEFINE p == AsBody(known)
<1>1. /\ p.items = {BodyItem(known, n) : n \in DOMAIN known} /\ ~p.document
      /\ \A n \in DOMAIN known :
            /\ BodyItem(known, n).name = n /\ BodyItem(known, n).value = known[n]
            /\ known[n] \in Values /\ known[n] # Blank
            /\ SourceCandidates(BodyItem(known, n), FALSE) = {"body"}
  BY BodyItems
<1> HIDE DEF p
<1>2. \A n \in DOMAIN known : BodyItem(known, n) \in p.items
  BY <1>1
<1>3. \A i \in p.items : \E n \in DOMAIN known : i = BodyItem(known, n)
  BY <1>1
<1>4. \A i \in p.items : SourceCandidates(i, p.document) = {"body"}
  <2>1. SUFFICES ASSUME NEW i \in p.items
                 PROVE  SourceCandidates(i, p.document) = {"body"}
    OBVIOUS
  <2>2. PICK n \in DOMAIN known : i = BodyItem(known, n)
    BY <1>3
  <2>3. SourceCandidates(i, p.document) = SourceCandidates(i, FALSE)
    BY <1>1 DEF SourceCandidates
  <2>4. QED
    BY <1>1, <2>2, <2>3
<1>5. \A i \in p.items : /\ i.name \in DOMAIN known /\ i.value = known[i.name]
                          /\ i.value # Blank
  <2>1. SUFFICES ASSUME NEW i \in p.items
                 PROVE  i.name \in DOMAIN known /\ i.value = known[i.name] /\ i.value # Blank
    OBVIOUS
  <2>2. PICK n \in DOMAIN known : i = BodyItem(known, n)
    BY <1>3
  <2>3. QED
    BY <1>1, <2>2
<1>6. Present(p) = {i \in p.items : i.name \in Defined}
  BY <1>5 DEF Present
<1>7. Usable(p, b) = {i \in Present(p) : i.value \in Caps(b).accepts}
  BY <1>4, <1>6 DEF Usable
<1>8. AcceptedBy(known, b) => FrozenInvalid(known, b) = {}
  <2> SUFFICES ASSUME AcceptedBy(known, b) PROVE FrozenInvalid(known, b) = {}
    OBVIOUS
  <2>1. Present(p) \subseteq Usable(p, b)
    BY <1>5, <1>6, <1>7 DEF AcceptedBy
  <2>2. InvalidFields(p, b) = {}
    BY <2>1 DEF InvalidFields
  <2>3. QED
    BY <2>2 DEF FrozenInvalid, p, AcceptedBy
<1>9. ASSUME FrozenInvalid(known, b) = {}
      PROVE  AcceptedBy(known, b)
  <2>1. InvalidFields(p, b) = {} /\ DOMAIN known \ Defined = {}
    BY <1>9 DEF FrozenInvalid, p
  <2>2. Present(p) \subseteq Usable(p, b)
    BY <2>1 DEF InvalidFields
  <2>3. ASSUME NEW n \in DOMAIN known
        PROVE  n \in Defined /\ known[n] \in Caps(b).accepts
    <3>1. n \in Defined
      BY <2>1
    <3>2. BodyItem(known, n) \in Present(p)
      BY <1>1, <1>2, <1>6, <3>1
    <3>3. BodyItem(known, n).value \in Caps(b).accepts
      BY <1>7, <2>2, <3>2
    <3>4. QED
      BY <1>1, <3>1, <3>3
  <2>4. QED
    BY <2>3 DEF AcceptedBy
<1>10. ASSUME FrozenInvalid(known, b) = {}
      PROVE  FrozenValid(known, b)
  <2>1. AcceptedBy(known, b)
    BY <1>9, <1>10
  <2>2. ASSUME NEW n \in DOMAIN known
        PROVE  n \in Defined /\ Candidates(p, b, n) # {}
    <3>1. n \in Defined /\ known[n] \in Caps(b).accepts
      BY <2>1 DEF AcceptedBy
    <3>2. BodyItem(known, n) \in {u \in Usable(p, b) : u.name = n}
      BY <1>1, <1>2, <1>6, <1>7, <3>1
    <3>3. "body" \in SourceCandidates(BodyItem(known, n), p.document)
      BY <1>2, <1>4
    <3> DEFINE i == BodyItem(known, n)
               own == {<<s, i.value>> : s \in SourceCandidates(i, p.document)}
    <3>4. <<"body", i.value>> \in own
      BY <3>3
    <3>5. own \in {{<<s, u.value>> : s \in SourceCandidates(u, p.document)} :
                     u \in {w \in Usable(p, b) : w.name = n}}
      BY <3>2, Zenon
    <3> HIDE DEF own
    <3>6. own \subseteq Candidates(p, b, n)
      <4>1. \A S : \A T \in S : T \subseteq UNION S
        BY Zenon
      <4>2. QED
        BY <3>5, <4>1, Zenon DEF Candidates
    <3>7. QED
      BY <3>1, <3>4, <3>6
  <2>3. ASSUME NEW n \in Defined, Candidates(p, b, n) # {}
        PROVE  n \in DOMAIN known
    <3>1. PICK i \in Usable(p, b) : i.name = n
      BY <2>3 DEF Candidates
    <3>2. QED
      BY <1>6, <1>7, <1>5, <3>1
  <2>4. QED
    BY <1>10, <2>2, <2>3 DEF FrozenValid, p
<1>11. QED
  BY <1>8, <1>9, <1>10

\* QuotedFrom: the value x of field n was quoted from the source the model named,
\* body text first.
QuotedFrom(items, document, n, x) ==
    \E i \in items :
        /\ i.name = n /\ i.value = x
        /\ document => /\ i.quoted /\ i.found # {}
                       /\ i.source # "unsaid" => i.source \in i.found
        /\ (\E k \in items : /\ k.name = n /\ k.value # Blank /\ k.quoted
                             /\ k.source # "document" /\ "body" \in k.found)
              => i.source # "document" /\ (i.quoted => "body" \in i.found)

\* ValidatedMeaning: what validate_proposal_fields returns, when it finds nothing
\* invalid: values of defined fields that this build accepts, each quoted as it
\* should be.
LEMMA ValidatedMeaning ==
    ASSUME NEW p \in Proposals, NEW b, InvalidFields(p, b) = {},
           NEW known \in ValidatedFields(p, b)
    PROVE  /\ known \in Knowns /\ AcceptedBy(known, b)
           /\ \A n \in DOMAIN known : QuotedFrom(p.items, p.document, n, known[n])
<1>1. p.document \in BOOLEAN /\ p.items \subseteq Items /\ Defined \subseteq Names
  BY ReviewAssumption
<1>2. Present(p) \subseteq Usable(p, b)
  BY DEF InvalidFields
<1>3. /\ DOMAIN known \subseteq Defined /\ known \in [DOMAIN known -> Values]
      /\ \A n \in DOMAIN known : /\ Candidates(p, b, n) # {}
                                 /\ known[n] \in FirstChoices(p, b, n)
  BY DEF ValidatedFields
<1>4. known \in Knowns
  BY <1>1, <1>3 DEF Knowns
<1>5. ASSUME NEW n \in DOMAIN known
      PROVE  known[n] \in Caps(b).accepts /\ QuotedFrom(p.items, p.document, n, known[n])
  <2> DEFINE c == Candidates(p, b, n)
             body == {x \in c : x[1] = "body"}
  <2>1. PICK x \in IF body # {} THEN body ELSE c : known[n] = x[2]
    BY <1>3 DEF FirstChoices
  <2>2. x \in c /\ (body # {} => x[1] = "body")
    BY <2>1
  <2>3. ASSUME NEW y \in c
        PROVE  \E i \in Usable(p, b) : \E s \in SourceCandidates(i, p.document) :
                   i.name = n /\ y = <<s, i.value>>
    BY DEF Candidates
  <2>4. PICK i \in Usable(p, b) : \E s \in SourceCandidates(i, p.document) :
                   i.name = n /\ x = <<s, i.value>>
    BY <2>2, <2>3
  <2>5. PICK s \in SourceCandidates(i, p.document) : i.name = n /\ x = <<s, i.value>>
    BY <2>4
  <2>6. /\ i \in p.items /\ i.value = known[n] /\ known[n] \in Caps(b).accepts
        /\ i.source \in {"body", "document", "unsaid"} /\ i.quoted \in BOOLEAN
    BY <1>1, <2>1, <2>5 DEF Usable, Present, Items, Sources
  <2>7. ASSUME p.document
        PROVE  i.quoted /\ s \in i.found /\ (i.source # "unsaid" => i.source = s)
    BY <2>5, <2>6, <2>7 DEF SourceCandidates
  <2>8. ASSUME NEW k \in p.items, k.name = n, k.value # Blank, k.quoted,
               k.source # "document", "body" \in k.found
        PROVE  s = "body"
    <3>1. k \in Usable(p, b)
      BY <1>2, <1>3, <2>8 DEF Present
    <3>2. "body" \in SourceCandidates(k, p.document)
      BY <1>1, <2>8 DEF SourceCandidates, Items, Sources
    <3> DEFINE own == {<<r, k.value>> : r \in SourceCandidates(k, p.document)}
    <3>3. <<"body", k.value>> \in own
      BY <3>2
    <3>4. own \in {{<<r, u.value>> : r \in SourceCandidates(u, p.document)} :
                      u \in {w \in Usable(p, b) : w.name = n}}
      BY <2>8, <3>1, Zenon
    <3> HIDE DEF own
    <3>5. own \subseteq c
      <4>1. \A S : \A T \in S : T \subseteq UNION S
        BY Zenon
      <4>2. QED
        BY <3>4, <4>1, Zenon DEF Candidates
    <3>6. <<"body", k.value>> \in body
      BY <3>3, <3>5
    <3>7. QED
      BY <2>2, <2>5, <3>6
  <2>9. ASSUME s = "body"
        PROVE  i.source # "document" /\ (i.quoted => "body" \in i.found)
    BY <2>5, <2>6, <2>9 DEF SourceCandidates
  <2>10. /\ p.document => /\ i.quoted /\ i.found # {}
                          /\ i.source # "unsaid" => i.source \in i.found
         /\ (\E k \in p.items : /\ k.name = n /\ k.value # Blank /\ k.quoted
                                /\ k.source # "document" /\ "body" \in k.found)
               => i.source # "document" /\ (i.quoted => "body" \in i.found)
    BY <2>7, <2>8, <2>9
  <2>11. QuotedFrom(p.items, p.document, n, known[n])
    BY <2>5, <2>6, <2>10, Zenon DEF QuotedFrom
  <2>12. QED
    BY <2>6, <2>11
<1>6. QED
  BY <1>3, <1>4, <1>5 DEF AcceptedBy

(***************************************************************************)
(* Pages.                                                                  *)
(***************************************************************************)

\* Rank: how many rows of S come before a.
Below(S, a) == {c \in S : Before(c, a)}
Rank(S, a) == Cardinality(Below(S, a))

\* BeforeIsOrder: ORDER BY expires_at, id puts any two rows in one order.
LEMMA BeforeIsOrder ==
    ASSUME TypeOK
    PROVE  /\ \A a \in Approvals : ~Before(a, a)
           /\ \A a, c, d \in Approvals : Before(a, c) /\ Before(c, d) => Before(a, d)
           /\ \A a, c \in Approvals : a # c => Before(a, c) \/ Before(c, a)
<1>1. \A a \in Approvals : a \in Nat /\ rows[a].expires \in Int
  BY ReviewAssumption DEF TypeOK, Rows, NoDeadline
<1>2. QED
  BY <1>1 DEF Before

\* RankGrows: the rank is a number, and no two rows of a set share it.
LEMMA RankGrows ==
    ASSUME TypeOK, NEW S \in SUBSET Approvals
    PROVE  /\ IsFiniteSet(S) /\ \A a \in S : Rank(S, a) \in Nat
           /\ \A a, c \in S : Before(c, a) => Rank(S, c) < Rank(S, a)
           /\ \A a, c \in S : a # c => Rank(S, c) # Rank(S, a)
<1>1. IsFiniteSet(S)
  BY ReviewAssumption, FS_Subset
<1>2. ASSUME NEW a \in S PROVE IsFiniteSet(Below(S, a)) /\ Rank(S, a) \in Nat
  <2>1. Below(S, a) \in SUBSET S
    BY DEF Below
  <2>2. IsFiniteSet(Below(S, a))
    BY <1>1, <2>1, FS_Subset
  <2>3. QED
    BY <2>2, FS_CardinalityType DEF Rank
<1>3. ASSUME NEW a \in S, NEW c \in S, Before(c, a) PROVE Rank(S, c) < Rank(S, a)
  <2>1. Below(S, c) \in SUBSET Below(S, a)
    BY <1>3, BeforeIsOrder DEF Below
  <2>2. c \in Below(S, a) /\ c \notin Below(S, c)
    BY <1>3, BeforeIsOrder DEF Below
  <2>3. Below(S, a) # Below(S, c)
    BY <2>2
  <2>4. Rank(S, c) <= Rank(S, a) /\ Rank(S, c) # Rank(S, a)
    BY <1>2, <2>1, <2>3, FS_Subset DEF Rank
  <2>5. QED
    BY <1>2, <2>4
<1>4. ASSUME NEW a \in S, NEW c \in S, a # c PROVE Rank(S, c) # Rank(S, a)
  <2>1. Before(a, c) \/ Before(c, a)
    BY <1>4, BeforeIsOrder
  <2>2. QED
    BY <1>2, <1>3, <2>1
<1>5. QED
  BY <1>1, <1>2, <1>3, <1>4

\* LeastRank: some row of a set comes first in it.
LEMMA LeastRank ==
    ASSUME TypeOK, NEW S \in SUBSET Approvals, NEW T \in SUBSET S, T # {}
    PROVE  \E a \in T : \A c \in T : Rank(S, a) <= Rank(S, c)
<1> DEFINE R == {Rank(S, a) : a \in T}
<1>1. \A a \in S : Rank(S, a) \in Nat
  BY RankGrows
<1>2. R \subseteq Nat /\ R # {}
  BY <1>1
<1>3. \E x \in R : \A y \in R : ~(<<y, x>> \in OpToRel(<, Nat))
  <2> HIDE DEF R
  <2>1. QED
    BY <1>2, NatLessThanWellFounded, WFMin
<1>4. PICK x \in R : \A y \in R : ~(<<y, x>> \in OpToRel(<, Nat))
  BY <1>3
<1>5. \A y \in R : ~(y < x)
  BY <1>2, <1>4 DEF OpToRel
<1>6. PICK a \in T : x = Rank(S, a)
  BY <1>4
<1>7. \A c \in T : Rank(S, a) <= Rank(S, c)
  BY <1>1, <1>5, <1>6
<1>8. QED
  BY <1>7

\* FewBelow: at most n rows of S have a rank below n.
LEMMA FewBelow ==
    ASSUME TypeOK, NEW S \in SUBSET Approvals, NEW n \in Nat, NEW T \in SUBSET S,
           \A a \in T : Rank(S, a) < n
    PROVE  IsFiniteSet(T) /\ Cardinality(T) \in Nat /\ Cardinality(T) <= n
<1>1. IsFiniteSet(T) /\ Cardinality(T) \in Nat
  BY RankGrows, FS_Subset, FS_CardinalityType
<1>2. IsFiniteSet(0 .. n - 1) /\ Cardinality(0 .. n - 1) = n
  BY FS_Interval
<1>3. SUFFICES ASSUME Cardinality(T) > n PROVE FALSE
  BY <1>1
<1> DEFINE f == [a \in T |-> Rank(S, a)]
<1>4. f \in [T -> 0 .. n - 1]
  BY RankGrows
<1> HIDE DEF f
<1>5. PICK x \in T, y \in T : x # y /\ f[x] = f[y]
  <2>1. n < Cardinality(T)
    BY <1>1, <1>3
  <2>2. QED
    BY <1>1, <1>2, <1>4, <2>1, FS_PigeonHole
<1>6. QED
  BY <1>5, RankGrows DEF f

\* FirstRows: the first n rows of S are closed towards the front, are the first n
\* of the first n + 1, are some if S has any, and are all unless there is a row
\* number n + 1.
LEMMA FirstRows ==
    ASSUME TypeOK, NEW S \in SUBSET Approvals, NEW n \in Nat \ {0}
    PROVE  /\ \A a \in FirstOf(S, n), c \in S : Before(c, a) => c \in FirstOf(S, n)
           /\ FirstOf(FirstOf(S, n + 1), n) = FirstOf(S, n)
           /\ FirstOf(S, n) = {} => S = {}
           /\ Cardinality(FirstOf(S, n + 1)) > n <=> FirstOf(S, n) # S
<1>1. /\ \A m : FirstOf(S, m) = {a \in S : Rank(S, a) < m}
      /\ \A a \in S : Rank(S, a) \in Nat
      /\ \A a, c \in S : Before(c, a) => Rank(S, c) < Rank(S, a)
      /\ IsFiniteSet(S)
  BY RankGrows DEF FirstOf, Rank, Below
<1>2. \A m \in Nat : \A a \in FirstOf(S, m), c \in S : Before(c, a) => c \in FirstOf(S, m)
  BY <1>1
<1> DEFINE F == FirstOf(S, n + 1)
<1>3. F = {a \in S : Rank(S, a) < n + 1} /\ F \in SUBSET S
  BY <1>1
<1>4. FirstOf(F, n) = FirstOf(S, n)
  <2>1. ASSUME NEW a \in F PROVE Below(F, a) = Below(S, a)
    BY <1>2, <1>3 DEF Below
  <2>2. FirstOf(F, n) = {a \in F : Rank(F, a) < n}
    BY DEF FirstOf, Rank, Below
  <2>3. FirstOf(F, n) = {a \in F : Rank(S, a) < n}
    BY <2>1, <2>2 DEF Rank
  <2>4. QED
    BY <1>1, <1>3, <2>3
<1> HIDE DEF F
<1>5. ASSUME S # {} PROVE FirstOf(S, n) # {}
  <2>1. PICK a \in S : \A c \in S : Rank(S, a) <= Rank(S, c)
    BY <1>5, LeastRank
  <2>2. Below(S, a) = {}
    BY <1>1, <2>1 DEF Below
  <2>3. Rank(S, a) = 0
    BY <2>2, FS_EmptySet DEF Rank
  <2>4. QED
    BY <1>1, <2>1, <2>3
<1>6. ASSUME FirstOf(S, n) = S PROVE ~(Cardinality(F) > n)
  <2>1. \A a \in F : Rank(S, a) < n
    BY <1>1, <1>3, <1>6
  <2>2. QED
    BY <1>3, <2>1, FewBelow
<1>7. ASSUME FirstOf(S, n) # S PROVE Cardinality(F) > n
  <2> DEFINE T == {a \in S : ~(Rank(S, a) < n)}
  <2>1. T \in SUBSET S /\ T # {}
    BY <1>1, <1>7
  <2> HIDE DEF T
  <2>2. PICK a \in T : \A c \in T : Rank(S, a) <= Rank(S, c)
    BY <2>1, LeastRank
  <2>3. a \in S /\ Rank(S, a) >= n
    BY <1>1, <2>2 DEF T
  <2>4. \A c \in Below(S, a) : c \in S /\ Rank(S, c) < n
    BY <1>1, <2>2, <2>3 DEF T, Below
  <2>5. Rank(S, a) <= n
    <3>1. Below(S, a) \in SUBSET S
      BY DEF Below
    <3>2. QED
      BY <2>4, <3>1, FewBelow DEF Rank
  <2>6. Rank(S, a) = n
    BY <1>1, <2>3, <2>5
  <2>7. Below(S, a) \cup {a} \in SUBSET F
    BY <1>1, <1>3, <2>3, <2>4, <2>6
  <2>8. IsFiniteSet(Below(S, a)) /\ a \notin Below(S, a)
    BY <1>1, FS_Subset, BeforeIsOrder DEF Below
  <2>9. Cardinality(Below(S, a) \cup {a}) = n + 1
    BY <2>6, <2>8, FS_AddElement DEF Rank
  <2>10. IsFiniteSet(F) /\ Cardinality(F) \in Nat
    BY <1>1, <1>3, FS_Subset, FS_CardinalityType
  <2>11. n + 1 <= Cardinality(F)
    BY <2>7, <2>9, <2>10, FS_Subset
  <2>12. QED
    BY <2>10, <2>11
<1>8. QED
  BY <1>2, <1>4, <1>5, <1>6, <1>7 DEF F

\* HonestPage: in every state with its types, whatever limit is asked for.
LEMMA HonestPage == TypeOK => PageIsHonest
<1> SUFFICES ASSUME TypeOK, NEW s \in Statuses \ {"none"},
                    NEW limit \in 0 .. Cardinality(Approvals) + 1
             PROVE  LET shown == Page(s, limit)
                        all == {a \in Approvals : rows[a].status = s /\ Published(rows[a])}
                    IN  /\ shown.items \subseteq all
                        /\ shown.items = {} => all = {}
                        /\ shown.more <=> shown.items # all
                        /\ \A a \in all \ shown.items, c \in shown.items : Before(c, a)
  BY DEF PageIsHonest
<1> DEFINE all == {a \in Approvals : rows[a].status = s /\ Published(rows[a])}
           n == IF limit < 1 THEN 1 ELSE limit
           items == FirstOf(FirstOf(all, n + 1), n)
<1>1. Page(s, limit) = [items |-> items, more |-> Cardinality(FirstOf(all, n + 1)) > n]
  BY DEF Page, Fetched
<1>2. n \in Nat \ {0} /\ all \in SUBSET Approvals
  <2>1. Cardinality(Approvals) \in Nat
    BY ReviewAssumption, FS_CardinalityType
  <2>2. QED
    BY <2>1
<1> HIDE DEF all, n
<1>3. /\ items = FirstOf(all, n) /\ items \subseteq all /\ (items = {} => all = {})
      /\ Cardinality(FirstOf(all, n + 1)) > n <=> items # all
      /\ \A a \in items, c \in all : Before(c, a) => c \in items
  <2>1. items = FirstOf(all, n)
    BY <1>2, FirstRows
  <2>2. FirstOf(all, n) \subseteq all
    BY DEF FirstOf
  <2>3. QED
    BY <1>2, <2>1, <2>2, FirstRows
<1> HIDE DEF items
<1>4. \A a \in all \ items, c \in items : Before(c, a)
  BY <1>2, <1>3, BeforeIsOrder
<1>5. Page(s, limit).items = items
  BY <1>1
<1>6. Page(s, limit).more <=> items # all
  <2> DEFINE big == Cardinality(FirstOf(all, n + 1)) > n
  <2>1. Page(s, limit) = [items |-> items, more |-> big] /\ (big <=> items # all)
    BY <1>1, <1>3
  <2> HIDE DEF big
  <2>2. \A x, y : [items |-> x, more |-> y].more = y
    OBVIOUS
  <2>3. Page(s, limit).more = big
    BY <2>1, <2>2, Zenon
  <2>4. QED
    BY <2>1, <2>3, Zenon
<1>7. QED
  BY <1>3, <1>4, <1>5, <1>6, Zenon DEF all

(***************************************************************************)
(* Types.                                                                  *)
(***************************************************************************)

\* InitialRows: the row that does not exist has the types of a row, and so have the
\* request and the proposal of nobody.
LEMMA InitialRows ==
    /\ NoRow \in Rows /\ NoOrigin \in Origins
    /\ \A d \in {NoDeadline, TTL} :
          [NoRow EXCEPT !.status = "pending", !.job = FALSE, !.expires = d] \in Rows
    /\ Idle \in Asks
<1>1. << >> \in Knowns
  <2>1. << >> \in [{} -> Values]
    OBVIOUS
  <2>2. [{} -> Values] \in {[D -> Values] : D \in SUBSET Names}
    BY Zenon
  <2> DEFINE T == [{} -> Values]
  <2> HIDE DEF T
  <2>3. \A S, U : \A x : U \in S /\ x \in U => x \in UNION S
    BY Zenon
  <2>4. QED
    BY <2>1, <2>2, <2>3, Zenon DEF Knowns
<1>2. TTL \in Nat \ {0} /\ MaxTime \in Nat
  BY ReviewAssumption
<1> DEFINE E == {NoDeadline} \cup 0 .. MaxTime + TTL
<1>3. NoDeadline \in E /\ TTL \in E
  BY <1>2
<1> HIDE DEF E
<1>4. NoRow \in Rows
  BY <1>1, <1>3 DEF NoRow, Rows, Statuses, E
<1>5. \A d \in {NoDeadline, TTL} :
          [NoRow EXCEPT !.status = "pending", !.job = FALSE, !.expires = d] \in Rows
  BY <1>3, <1>4 DEF NoRow, Rows, Statuses, E
<1>6. NoOrigin \in Origins
  BY DEF NoOrigin, Origins
<1>7. Idle \in Asks
  BY <1>2 DEF Idle, Asks
<1>8. QED
  BY <1>4, <1>5, <1>6, <1>7

\* VerdictFacts: a verdict that changes the row is about a published, pending row
\* that has a job, and an approval is one that the review would have offered.
LEMMA VerdictFacts ==
    ASSUME NEW o \in Operators, NEW r, r = rows[ask[o].on]
    PROVE  /\ Verdict(o) \in {"approved", "rejected", "expired"} =>
                 Published(r) /\ r.job /\ Resolves(build) /\ r.status \notin Final
           /\ Verdict(o) = "approved" =>
                 /\ Caps(build).registered /\ Caps(build).arguments
                 /\ Available(build) /\ FrozenValid(r.known, build)
<1>1. QED
  BY DEF Verdict

\* Decided: a row once it has been decided by w.
Decided(r, st, w) == [r EXCEPT !.status = st, !.by = w]

\* DecidedRow: a decision changes nothing else of the row.
LEMMA DecidedRow ==
    ASSUME NEW r \in Rows, NEW st \in Final, NEW w \in Operators \cup {System}
    PROVE  /\ Decided(r, st, w) \in Rows /\ Decided(r, st, w).status = st
           /\ Decided(r, st, w).job = r.job /\ Decided(r, st, w).parked = r.parked
           /\ Decided(r, st, w).known = r.known /\ Decided(r, st, w).expires = r.expires
<1>1. st \in Statuses
  BY DEF Statuses
<1> DEFINE B == Operators \cup {Nobody, System}
<1>2. w \in B
  OBVIOUS
<1> HIDE DEF B
<1>3. QED
  BY <1>1, <1>2 DEF Decided, Rows, B

\* RequestFields: what asking and answering make of a request.
LEMMA RequestFields ==
    ASSUME NEW q \in Asks
    PROVE  /\ \A want \in {"approve", "reject"}, at \in 0 .. MaxTime :
                 [q EXCEPT !.pc = "asked", !.want = want, !.at = at] \in Asks
           /\ \A answer \in {"none", "conflict", "error"} \cup Final, E \in SUBSET Events :
                 [q EXCEPT !.pc = "committed", !.answer = answer, !.emits = E] \in Asks
<1> DEFINE A == {"none", "conflict", "error"} \cup Final
           W == {"none", "approve", "reject"}
           P == {"idle", "viewed", "asked", "committed"}
           T == 0 .. MaxTime
           S == SUBSET Events
<1>1. "asked" \in P /\ "committed" \in P /\ {"approve", "reject"} \subseteq W
  OBVIOUS
<1> HIDE DEF A, W, P, T, S
<1>2. \A want \in W, at \in T : [q EXCEPT !.pc = "asked", !.want = want, !.at = at] \in Asks
  BY <1>1 DEF Asks, A, W, P, T, S
<1>3. \A answer \in A, E \in S :
          [q EXCEPT !.pc = "committed", !.answer = answer, !.emits = E] \in Asks
  BY <1>1 DEF Asks, A, W, P, T, S
<1>4. QED
  BY <1>1, <1>2, <1>3 DEF A, T, S

\* TypeKept: every step keeps the types.
LEMMA TypeKept == TypeOK /\ [Next]_vars => TypeOK'
<1> SUFFICES ASSUME TypeOK, [Next]_vars PROVE TypeOK'
  OBVIOUS
<1>0. MaxTime \in Nat /\ TTL \in Nat \ {0} /\ Idle \in Asks /\ NoRow \in Rows
  BY InitialRows, ReviewAssumption
<1>1. ASSUME NEW a \in Approvals, NEW p \in Proposals, Request(a, p) PROVE TypeOK'
  <2>1. PICK known \in ValidatedFields(p, build) :
            rows' = [rows EXCEPT ![a] =
                       [NoRow EXCEPT !.status = "pending", !.expires = now + TTL,
                                     !.version = Caps(build).version, !.known = known]]
    BY <1>1 DEF Request
  <2>2. known \in Knowns
    BY <1>1, ValidatedMeaning DEF Request
  <2> DEFINE r == [NoRow EXCEPT !.status = "pending", !.expires = now + TTL,
                                !.version = Caps(build).version, !.known = known]
  <2>3. now + TTL \in {NoDeadline} \cup 0 .. MaxTime + TTL
    BY <1>0 DEF TypeOK
  <2>4. Caps(build).version \in Nat
    BY ReviewAssumption DEF TypeOK, Caps, Capabilities
  <2>5. r \in Rows /\ r.job = rows[a].job
    BY <1>0, <1>1, <2>2, <2>3, <2>4 DEF NoRow, Rows, Statuses, Request
  <2> HIDE DEF r
  <2>6. /\ rows' \in [Approvals -> Rows]
        /\ \A x \in Approvals : rows'[x].job = (x \notin Legacy)
    BY <2>1, <2>5 DEF TypeOK, r
  <2> DEFINE q == [document |-> p.document, items |-> p.items, build |-> build]
  <2>7. q \in Origins
    BY ReviewAssumption DEF TypeOK, Origins
  <2> HIDE DEF q
  <2>8. origin' \in [Approvals -> Origins]
    BY <1>1, <2>7 DEF TypeOK, Request, q
  <2>9. QED
    BY <1>1, <2>6, <2>8 DEF TypeOK, Request
<1>2. ASSUME NEW a \in Approvals, Park(a) PROVE TypeOK'
  BY <1>2 DEF TypeOK, Park, Rows
<1>3. ASSUME NEW a \in Approvals, Report(a) PROVE TypeOK'
  BY <1>3 DEF TypeOK, Report, Emit
<1>4. ASSUME NEW o \in Operators, NEW a \in Approvals, View(o, a) PROVE TypeOK'
  <2> DEFINE saw == IF Executable(rows[a], build) THEN build ELSE 0
             v == [Idle EXCEPT !.pc = "viewed", !.on = a, !.saw = saw]
  <2>1. saw \in DOMAIN Builds \cup {0}
    BY DEF TypeOK
  <2> HIDE DEF saw
  <2>2. v \in Asks /\ v.on \in Approvals
    BY <1>0, <2>1 DEF Asks, Idle
  <2>3. ask' = [ask EXCEPT ![o] = v]
    BY <1>4 DEF View, saw
  <2> HIDE DEF v
  <2>4. QED
    BY <1>4, <2>2, <2>3 DEF TypeOK, View
<1>5. ASSUME NEW o \in Operators, NEW want \in {"approve", "reject"}, Ask(o, want)
      PROVE  TypeOK'
  <2>1. /\ ask' = [ask EXCEPT ![o] = [@ EXCEPT !.pc = "asked", !.want = want, !.at = now]]
        /\ ask[o] \in Asks /\ now \in 0 .. MaxTime
    BY <1>5 DEF Ask, TypeOK
  <2> DEFINE q == [ask[o] EXCEPT !.pc = "asked", !.want = want, !.at = now]
  <2>2. q \in Asks /\ q.on = ask[o].on
    BY <2>1, RequestFields DEF Asks
  <2> HIDE DEF q
  <2>3. ask' = [ask EXCEPT ![o] = q]
    BY <2>1 DEF q
  <2>4. asked' \in [Operators -> 0 .. MaxAsks]
    BY <1>5, ReviewAssumption DEF TypeOK, Ask
  <2>5. /\ ask' \in [Operators -> Asks]
        /\ \A x \in Operators : ask'[x].pc # "idle" => ask'[x].on \in Approvals
    <3>1. ask \in [Operators -> Asks] /\ ask[o].on \in Approvals
          /\ \A x \in Operators : ask[x].pc # "idle" => ask[x].on \in Approvals
      BY <1>5 DEF TypeOK, Ask
    <3>2. QED
      BY <2>2, <2>3, <3>1
  <2>6. UNCHANGED <<rows, origin, build, now, due, log>>
    BY <1>5 DEF Ask
  <2>7. QED
    BY <2>4, <2>5, <2>6 DEF TypeOK
<1>6. ASSUME NEW o \in Operators, ask[o].pc = "asked",
             NEW answer \in {"conflict", "error"} \cup Final, NEW E \in SUBSET Events,
             Committed(o, answer, E), UNCHANGED <<origin, build, now, asked, due, log>>,
             \/ UNCHANGED rows
             \/ \E st \in Final, w \in Operators \cup {System} :
                    rows' = [rows EXCEPT ![ask[o].on].status = st, ![ask[o].on].by = w]
      PROVE  TypeOK'
  <2>1. ask' \in [Operators -> Asks] /\ \A x \in Operators : ask'[x].on = ask[x].on
    <3> DEFINE q == [ask[o] EXCEPT !.pc = "committed", !.answer = answer, !.emits = E]
    <3>0. ask[o] \in Asks /\ answer \in {"none", "conflict", "error"} \cup Final
      BY DEF TypeOK
    <3>1. q \in Asks /\ q.on = ask[o].on
      <4>1. q \in Asks
        BY <3>0, RequestFields
      <4>2. q.on = ask[o].on
        BY <3>0 DEF Asks
      <4>3. QED
        BY <4>1, <4>2
    <3>2. ask' = [ask EXCEPT ![o] = q]
      BY <1>6 DEF Committed, TypeOK
    <3> HIDE DEF q
    <3>3. QED
      BY <3>1, <3>2 DEF TypeOK
  <2>2. \A x \in Operators : ask'[x].pc # "idle" => ask'[x].on \in Approvals
    BY <1>6, <2>1 DEF TypeOK, Committed
  <2>3. rows' \in [Approvals -> Rows] /\ \A x \in Approvals : rows'[x].job = (x \notin Legacy)
    <3>1. CASE UNCHANGED rows
      BY <3>1 DEF TypeOK
    <3>2. CASE \E st \in Final, w \in Operators \cup {System} :
                   rows' = [rows EXCEPT ![ask[o].on].status = st, ![ask[o].on].by = w]
      <4>1. PICK st \in Final, w \in Operators \cup {System} :
                   rows' = [rows EXCEPT ![ask[o].on].status = st, ![ask[o].on].by = w]
        BY <3>2
      <4>2. ask[o].on \in Approvals
        BY <1>6 DEF TypeOK
      <4>3. rows' = [rows EXCEPT ![ask[o].on] = Decided(@, st, w)]
        BY <4>1, <4>2 DEF Decided, TypeOK
      <4>4. /\ Decided(rows[ask[o].on], st, w) \in Rows
            /\ Decided(rows[ask[o].on], st, w).job = rows[ask[o].on].job
        BY <4>2, DecidedRow DEF TypeOK
      <4>5. rows' \in [Approvals -> Rows] /\ \A x \in Approvals : rows'[x].job = rows[x].job
        BY <4>2, <4>3, <4>4 DEF TypeOK
      <4>6. QED
        BY <4>5, Zenon DEF TypeOK
    <3>3. QED
      BY <1>6, <3>1, <3>2
  <2>4. QED
    BY <1>6, <2>1, <2>2, <2>3 DEF TypeOK
<1>7. ASSUME NEW o \in Operators, Refuse(o) PROVE TypeOK'
  BY <1>6, <1>7 DEF Refuse
<1>8. ASSUME NEW o \in Operators, Reuse(o) PROVE TypeOK'
  <2>1. rows[ask[o].on].status \in Final
    BY <1>8 DEF Reuse, Verdict
  <2>2. QED
    BY <1>6, <1>8, <2>1 DEF Reuse
<1>9. ASSUME NEW o \in Operators, ExpireOnDecide(o) PROVE TypeOK'
  <2>1. rows' = [rows EXCEPT ![ask[o].on].status = "expired", ![ask[o].on].by = System]
    BY <1>9 DEF ExpireOnDecide, Expired, TypeOK, Rows
  <2>2. (IF ask[o].want = "reject" THEN "expired" ELSE "conflict") \in {"conflict", "error"} \cup Final
    BY DEF Final
  <2>3. QED
    BY <1>6, <1>9, <2>1, <2>2 DEF ExpireOnDecide, Events, Final
<1>10. ASSUME NEW o \in Operators, Decide(o) PROVE TypeOK'
  <2>1. Verdict(o) \in Final
    BY <1>10 DEF Decide, Final
  <2>2. (IF Verdict(o) = "approved" THEN {"executed"} ELSE {}) \in SUBSET Events
    BY DEF Events
  <2>3. QED
    BY <1>6, <1>10, <2>1, <2>2 DEF Decide
<1>11. ASSUME NEW o \in Operators, ExecutorFails(o) PROVE TypeOK'
  BY <1>6, <1>11 DEF ExecutorFails
<1>12. ASSUME NEW o \in Operators, Reply(o) \/ Abandon(o) PROVE TypeOK'
  <2>1. ask' = [ask EXCEPT ![o] = Idle] /\ Idle.pc = "idle"
    BY <1>12 DEF Reply, Abandon, Idle
  <2>2. /\ ask' \in [Operators -> Asks]
        /\ \A x \in Operators : ask'[x].pc # "idle" => ask'[x].on \in Approvals
    BY <1>0, <2>1 DEF TypeOK
  <2>3. log' \in [Approvals -> [Events -> Nat]]
    <3>1. log' = log \/ \E a, E : Emit(a, E)
      BY <1>12 DEF Reply, Abandon
    <3>2. ASSUME NEW a, NEW E, Emit(a, E) PROVE log' \in [Approvals -> [Events -> Nat]]
      <4> DEFINE f == [e \in Events |-> IF e \in E THEN log[a][e] + 1 ELSE log[a][e]]
      <4>1. log \in [Approvals -> [Events -> Nat]]
        BY DEF TypeOK
      <4>2. a \in Approvals => f \in [Events -> Nat]
        BY <4>1
      <4>3. log' = [log EXCEPT ![a] = f]
        BY <3>2, Zenon DEF Emit
      <4> HIDE DEF f
      <4>4. QED
        BY <4>1, <4>2, <4>3
    <3>3. QED
      BY <3>1, <3>2 DEF TypeOK
  <2>4. QED
    BY <1>12, <2>2, <2>3 DEF TypeOK, Reply, Abandon
<1>13. CASE Sweep
  <2>1. PICK batch \in SUBSET Approvals :
            /\ rows' = [a \in Approvals |-> IF a \in batch THEN Expired(rows[a]) ELSE rows[a]]
            /\ due' = {a \in batch : rows[a].job}
    BY <1>13 DEF Sweep, FirstOf
  <2>2. \A a \in Approvals : Expired(rows[a]) \in Rows /\ Expired(rows[a]).job = rows[a].job
    <3>1. ASSUME NEW a \in Approvals
          PROVE  Expired(rows[a]) \in Rows /\ Expired(rows[a]).job = rows[a].job
      <4>1. Expired(rows[a]) = Decided(rows[a], "expired", System)
        BY DEF Expired, Decided
      <4>2. rows[a] \in Rows /\ "expired" \in Final
        BY DEF TypeOK, Final
      <4>3. QED
        BY <4>1, <4>2, DecidedRow
    <3>2. QED
      BY <3>1
  <2>3. QED
    BY <1>13, <2>1, <2>2 DEF TypeOK, Sweep
<1>14. CASE WorkerDies
  BY <1>14 DEF TypeOK, WorkerDies
<1>15. ASSUME NEW b \in DOMAIN Builds, Redeploy(b) PROVE TypeOK'
  BY <1>15 DEF TypeOK, Redeploy
<1>16. CASE Tick
  BY <1>0, <1>16 DEF TypeOK, Tick
<1>17. CASE UNCHANGED vars
  BY <1>17 DEF TypeOK, vars
<1>18. QED
  BY <1>1, <1>2, <1>3, <1>4, <1>5, <1>7, <1>8, <1>9, <1>10, <1>11, <1>12, <1>13, <1>14,
     <1>15, <1>16, <1>17 DEF Next, Decision

(***************************************************************************)
(* Events.                                                                 *)
(***************************************************************************)

\* Kept: the request owed the event before the step.  Fresh: the step is the one
\* that gives a pending row the status of which the event tells.
Kept(o, e) == e \in ask[o].emits /\ ask'[o].on = ask[o].on
Fresh(a, e) == rows[a].status = "pending" /\ rows[a].job /\ rows'[a].status = StatusOf(e)

\* OwedStep: a step that emits nothing keeps the books if it decides only rows that
\* nobody decided before, and leaves the event of a decision to one request or to
\* the sweep.
LEMMA OwedStep ==
    ASSUME EventsMatchRows, EventsOwed, TypeOK', log' = log,
           \A a \in Approvals :
               /\ rows'[a].job = rows[a].job
               /\ rows'[a].status # rows[a].status => rows[a].status \in {"none", "pending"},
           \A o \in Operators :
               /\ ask'[o].pc # "committed" => ask'[o].emits = {}
               /\ \A e \in ask'[o].emits : Kept(o, e) \/ Fresh(ask'[o].on, e),
           \A o, x \in Operators :
               o # x => \/ \A e \in ask'[o].emits : Kept(o, e)
                        \/ \A e \in ask'[x].emits : Kept(x, e),
           \A a \in due' :
               \/ a \in due
               \/ /\ Fresh(a, "expired")
                  /\ \A o \in Operators : \A e \in ask'[o].emits : Kept(o, e)
    PROVE  EventsMatchRows' /\ EventsOwed'
<1>1. \A e \in Events : StatusOf(e) \in {"approved", "expired"}
  BY DEF Events, StatusOf
<1>2. \A o \in Operators : ask'[o].emits \subseteq Events /\ ask[o].emits \subseteq Events
  BY DEF TypeOK, Asks, EventsMatchRows
<1>3. ASSUME NEW o \in Operators, NEW e \in ask'[o].emits
      PROVE  ask'[o].pc # "idle" /\ ask'[o].on \in Approvals
  BY <1>3 DEF TypeOK
<1>4. EventsMatchRows'
  <2>1. ASSUME NEW a \in Approvals
        PROVE  /\ \A e \in Events : log[a][e] <= 1
               /\ log[a]["executed"] = 1 => rows'[a].status = "approved" /\ rows'[a].job
               /\ log[a]["expired"] = 1 => rows'[a].status = "expired" /\ rows'[a].job
    BY DEF EventsMatchRows
  <2>2. QED
    BY <2>1 DEF EventsMatchRows
<1>5. ASSUME NEW a \in Approvals, NEW e \in Events, Unreported(a, e)
      PROVE  Unreported(a, e)'
  BY <1>1, <1>5 DEF Unreported
<1>6. ASSUME NEW a \in Approvals, NEW e \in Events, Fresh(a, e)
      PROVE  Unreported(a, e)' /\ ~Unreported(a, e)
  <2>1. log[a][e] = 0
    <3>1. log[a][e] \in Nat /\ log[a][e] <= 1 /\ log[a][e] # 1
      BY <1>6 DEF EventsMatchRows, TypeOK, Fresh, Events
    <3>2. QED
      BY <3>1
  <2>2. QED
    BY <1>1, <1>6, <2>1 DEF Unreported, Fresh
<1>7. ASSUME NEW o \in Operators, NEW e \in ask'[o].emits, Kept(o, e)
      PROVE  Unreported(ask'[o].on, e) /\ e \in ask[o].emits /\ ask'[o].on = ask[o].on
  BY <1>7 DEF EventsOwed, Kept
<1>8. ASSUME NEW o \in Operators, NEW e \in ask'[o].emits
      PROVE  Unreported(ask[o].on, e)'
  BY <1>2, <1>3, <1>5, <1>6, <1>7
<1>9. ASSUME NEW o \in Operators, NEW x \in Operators, o # x, ask'[o].on = ask'[x].on,
             NEW e, e \in ask'[o].emits, e \in ask'[x].emits
      PROVE  FALSE
  <2>1. e \in Events /\ ask'[o].on \in Approvals
    BY <1>2, <1>3, <1>9
  <2>2. CASE Kept(o, e) /\ Kept(x, e)
    BY <1>7, <1>9, <2>2 DEF EventsOwed
  <2>3. CASE Kept(o, e) /\ Fresh(ask'[x].on, e)
    BY <1>6, <1>7, <1>9, <2>1, <2>3
  <2>4. CASE Fresh(ask'[o].on, e) /\ Kept(x, e)
    BY <1>6, <1>7, <1>9, <2>1, <2>4
  <2>5. QED
    BY <1>9, <2>2, <2>3, <2>4
<1>10. ASSUME NEW a \in due'
       PROVE  /\ Unreported(a, "expired")'
              /\ \A o \in Operators : ask'[o].on = a => "expired" \notin ask'[o].emits
  <2>1. a \in Approvals /\ "expired" \in Events
    BY DEF TypeOK, Events
  <2>2. CASE a \in due
    <3>1. Unreported(a, "expired")
      BY <2>2 DEF EventsOwed
    <3>2. ASSUME NEW o \in Operators, ask'[o].on = a, "expired" \in ask'[o].emits
          PROVE  FALSE
      <4>1. Kept(o, "expired")
        BY <1>6, <2>1, <3>1, <3>2
      <4>2. QED
        BY <1>7, <2>2, <3>2, <4>1 DEF EventsOwed
    <3>3. QED
      BY <1>5, <2>1, <3>1, <3>2
  <2>3. CASE a \notin due
    <3>1. Fresh(a, "expired") /\ \A o \in Operators : \A e \in ask'[o].emits : Kept(o, e)
      BY <2>3
    <3>2. QED
      BY <1>6, <1>7, <2>1, <3>1
  <2>4. QED
    BY <2>2, <2>3
<1>11. EventsOwed'
  BY <1>8, <1>9, <1>10 DEF EventsOwed
<1>12. QED
  BY <1>4, <1>11

\* EmittedOnce: a step that emits what one request or the sweep owes keeps the books.
LEMMA EmittedOnce ==
    ASSUME EventsMatchRows, EventsOwed, TypeOK', rows' = rows,
           NEW a \in Approvals, NEW E \in SUBSET Events, Emit(a, E),
           \A e \in E : Unreported(a, e),
           \A o \in Operators :
               /\ ask'[o].pc # "committed" => ask'[o].emits = {}
               /\ \A e \in ask'[o].emits :
                     /\ e \in ask[o].emits /\ ask'[o].on = ask[o].on
                     /\ ask[o].on = a => e \notin E,
           \A x \in due' : x \in due /\ (x = a => "expired" \notin E)
    PROVE  EventsMatchRows' /\ EventsOwed'
<1>1. /\ \A x \in Approvals \ {a} : log'[x] = log[x]
      /\ \A e \in Events : log'[a][e] = IF e \in E THEN log[a][e] + 1 ELSE log[a][e]
      /\ \A x \in Approvals : \A e \in Events : log[x][e] \in Nat
  BY DEF Emit, EventsMatchRows, TypeOK
<1>2. \A e \in E : log[a][e] = 0 /\ rows[a].status = StatusOf(e) /\ rows[a].job
  BY DEF Unreported
<1>3. EventsMatchRows'
  <2>1. ASSUME NEW x \in Approvals, NEW e \in Events
        PROVE  log'[x][e] <= 1 /\ (log'[x][e] = 1 => rows[x].status = StatusOf(e) /\ rows[x].job)
    <3>1. log[x][e] <= 1 /\ (log[x][e] = 1 => rows[x].status = StatusOf(e) /\ rows[x].job)
      BY DEF EventsMatchRows, Events, StatusOf
    <3>2. CASE x = a /\ e \in E
      BY <1>1, <1>2, <3>2
    <3>3. CASE ~(x = a /\ e \in E)
      BY <1>1, <3>1, <3>3
    <3>4. QED
      BY <3>2, <3>3
  <2>2. QED
    BY <2>1 DEF EventsMatchRows, Events, StatusOf
<1>4. ASSUME NEW x \in Approvals, NEW e \in Events, Unreported(x, e), ~(x = a /\ e \in E)
      PROVE  Unreported(x, e)'
  <2>1. log'[x][e] = log[x][e]
    BY <1>1, <1>4
  <2>2. QED
    BY <1>4, <2>1 DEF Unreported
<1>5. ASSUME NEW o \in Operators, NEW e \in ask'[o].emits
      PROVE  e \in Events /\ ask[o].on \in Approvals
  <2>1. ask[o].emits \subseteq Events /\ e \in ask[o].emits /\ ask[o].pc = "committed"
    BY DEF EventsMatchRows, TypeOK, Asks, EventsOwed
  <2>2. QED
    BY <2>1 DEF EventsMatchRows, TypeOK
<1>6. ASSUME NEW o \in Operators, NEW e \in ask'[o].emits
      PROVE  Unreported(ask[o].on, e)'
  <2>1. Unreported(ask[o].on, e) /\ ask'[o].on = ask[o].on
    BY DEF EventsOwed
  <2>2. QED
    BY <1>4, <1>5, <2>1
<1>7. ASSUME NEW x \in due'
      PROVE  /\ Unreported(x, "expired")'
             /\ \A o \in Operators : ask'[o].on = x => "expired" \notin ask'[o].emits
  <2>1. x \in Approvals /\ "expired" \in Events /\ Unreported(x, "expired")
    BY DEF EventsMatchRows, TypeOK, Events, EventsOwed
  <2>2. QED
    BY <1>4, <2>1 DEF EventsOwed
<1>8. \A o, x \in Operators :
          o # x /\ ask'[o].on = ask'[x].on => ask'[o].emits \cap ask'[x].emits = {}
  BY DEF EventsOwed
<1>9. QED
  BY <1>3, <1>6, <1>7, <1>8 DEF EventsOwed

(***************************************************************************)
(* What a step does to a row.                                              *)
(***************************************************************************)

\* Requested: the row is frozen from a proposal that the running build validated.
Requested(a) ==
    \E p \in Proposals : \E known \in ValidatedFields(p, build) :
        /\ InvalidFields(p, build) = {} /\ Resolves(build) /\ Caps(build).arguments
        /\ rows[a] = NoRow
        /\ rows'[a].status = "pending" /\ rows'[a].job /\ ~rows'[a].parked
        /\ rows'[a].known = known
        /\ origin'[a] = [document |-> p.document, items |-> p.items, build |-> build]

\* Moved: the row is what it was, or has been parked or decided.
Moved(a) ==
    /\ rows'[a].job = rows[a].job /\ rows'[a].known = rows[a].known
    /\ rows[a].parked => rows'[a].parked
    /\ rows'[a].status # rows[a].status =>
          /\ rows[a].status = "pending" /\ Published(rows[a])
          /\ rows'[a].status \in Final
    /\ origin'[a] = origin[a]

\* DecidedMoves: deciding a published, pending row moves it.
LEMMA DecidedMoves ==
    ASSUME TypeOK, NEW c \in Approvals, Published(rows[c]), rows[c].status = "pending",
           NEW st \in Final, NEW w \in Operators \cup {System},
           rows' = [rows EXCEPT ![c] = Decided(@, st, w)], origin' = origin
    PROVE  (\A a \in Approvals : Moved(a)) /\ rows'[c].status = st
<1>1. rows \in [Approvals -> Rows]
  BY DEF TypeOK
<1>2. \A a \in Approvals \ {c} : rows'[a] = rows[a]
  BY <1>1
<1>3. rows'[c] = Decided(rows[c], st, w) /\ rows[c] \in Rows
  BY <1>1
<1>4. Moved(c) /\ rows'[c].status = st
  BY <1>3, DecidedRow DEF Moved
<1>5. \A a \in Approvals \ {c} : Moved(a)
  BY <1>2 DEF Moved
<1>6. QED
  BY <1>4, <1>5

\* Standing: a verdict to change the row finds it published and pending.
LEMMA Standing ==
    ASSUME TypeOK, NEW o \in Operators, ask[o].pc = "asked",
           Verdict(o) \in {"approved", "rejected", "expired"}
    PROVE  /\ ask[o].on \in Approvals /\ Published(rows[ask[o].on])
           /\ rows[ask[o].on].status = "pending" /\ rows[ask[o].on].job
<1>1. ask[o].on \in Approvals /\ rows[ask[o].on].status \in Statuses
  BY DEF TypeOK, Rows
<1>2. QED
  BY <1>1, VerdictFacts DEF Published, Statuses

\* DecisionSteps: the two actions that decide a row for an operator.
LEMMA DecisionSteps ==
    ASSUME TypeOK, NEW o \in Operators, ExpireOnDecide(o) \/ Decide(o)
    PROVE  /\ \A a \in Approvals : Moved(a)
           /\ ask[o].on \in Approvals
           /\ rows[ask[o].on].status = "pending" /\ rows[ask[o].on].job
           /\ \E answer : \E E \in SUBSET Events :
                 /\ Committed(o, answer, E)
                 /\ \A e \in E : rows'[ask[o].on].status = StatusOf(e)
<1>1. CASE ExpireOnDecide(o)
  <2>1. rows' = [rows EXCEPT ![ask[o].on] = Decided(@, "expired", System)]
    BY <1>1 DEF ExpireOnDecide, Expired, Decided
  <2>2. /\ ask[o].on \in Approvals /\ Published(rows[ask[o].on])
        /\ rows[ask[o].on].status = "pending" /\ rows[ask[o].on].job
    BY <1>1, Standing DEF ExpireOnDecide
  <2>3. (\A a \in Approvals : Moved(a)) /\ rows'[ask[o].on].status = "expired"
    <3>1. "expired" \in Final /\ origin' = origin
      BY <1>1 DEF Final, ExpireOnDecide
    <3>2. QED
      BY <2>1, <2>2, <3>1, DecidedMoves
  <2>4. /\ Committed(o, IF ask[o].want = "reject" THEN "expired" ELSE "conflict", {"expired"})
        /\ {"expired"} \in SUBSET Events
        /\ \A e \in {"expired"} : rows'[ask[o].on].status = StatusOf(e)
    BY <1>1, <2>3 DEF ExpireOnDecide, Events, StatusOf
  <2>5. QED
    BY <2>2, <2>3, <2>4, Zenon
<1>2. CASE Decide(o)
  <2>1. Verdict(o) \in Final /\ Verdict(o) \in {"approved", "rejected", "expired"} /\ origin' = origin
    BY <1>2 DEF Decide, Final
  <2>2. /\ ask[o].on \in Approvals /\ Published(rows[ask[o].on])
        /\ rows[ask[o].on].status = "pending" /\ rows[ask[o].on].job
    BY <1>2, <2>1, Standing DEF Decide
  <2>3. rows' = [rows EXCEPT ![ask[o].on] = Decided(@, Verdict(o), o)]
    BY <1>2, <2>2 DEF Decide, Decided, TypeOK
  <2>4. (\A a \in Approvals : Moved(a)) /\ rows'[ask[o].on].status = Verdict(o)
    BY <2>1, <2>2, <2>3, DecidedMoves
  <2> DEFINE E == IF Verdict(o) = "approved" THEN {"executed"} ELSE {}
  <2>5. /\ Committed(o, Verdict(o), E) /\ E \in SUBSET Events
        /\ \A e \in E : rows'[ask[o].on].status = StatusOf(e)
    BY <1>2, <2>4 DEF Decide, Events, StatusOf
  <2>6. QED
    BY <2>2, <2>4, <2>5, Zenon
<1>3. QED
  BY <1>1, <1>2

\* SweepStep: the sweep decides published, pending rows whose deadline has passed, and
\* owes an event to those of them that have a job.
LEMMA SweepStep ==
    ASSUME TypeOK, Sweep
    PROVE  /\ \A a \in Approvals : Moved(a)
           /\ \A a \in due' : Fresh(a, "expired")
<1>1. PICK batch \in SUBSET {a \in Approvals : Overdue(a)} :
          /\ rows' = [a \in Approvals |-> IF a \in batch THEN Expired(rows[a]) ELSE rows[a]]
          /\ due' = {a \in batch : rows[a].job}
  BY DEF Sweep, FirstOf
<1>2. origin' = origin
  BY DEF Sweep
<1>3. ASSUME NEW a \in batch
      PROVE  Moved(a) /\ rows[a].status = "pending" /\ rows'[a].status = "expired"
  <2>1. a \in Approvals /\ rows[a] \in Rows /\ rows[a].status = "pending" /\ Published(rows[a])
    BY DEF Overdue, Published, TypeOK
  <2>2. rows'[a] = Decided(rows[a], "expired", System)
    BY <1>1, <2>1 DEF Expired, Decided
  <2>3. "expired" \in Final
    BY DEF Final
  <2>4. QED
    BY <1>2, <2>1, <2>2, <2>3, DecidedRow DEF Moved
<1>4. ASSUME NEW a \in Approvals \ batch PROVE Moved(a)
  BY <1>1, <1>2 DEF Moved
<1>5. QED
  BY <1>1, <1>3, <1>4 DEF Fresh, StatusOf

\* RowsMove: every step requests a row, moves it, or leaves it alone.
LEMMA RowsMove ==
    ASSUME TypeOK, [Next]_vars
    PROVE  \A a \in Approvals : Moved(a) \/ Requested(a)
<1>1. ASSUME NEW c \in Approvals, NEW p \in Proposals, Request(c, p)
      PROVE  \A a \in Approvals : Moved(a) \/ Requested(a)
  <2>1. PICK known \in ValidatedFields(p, build) :
            rows' = [rows EXCEPT ![c] =
                       [NoRow EXCEPT !.status = "pending", !.expires = now + TTL,
                                     !.version = Caps(build).version, !.known = known]]
    BY <1>1 DEF Request
  <2>2. /\ rows'[c].status = "pending" /\ rows'[c].job /\ ~rows'[c].parked
        /\ rows'[c].known = known
    BY <2>1 DEF NoRow, TypeOK
  <2>3. origin'[c] = [document |-> p.document, items |-> p.items, build |-> build]
    BY <1>1 DEF Request, TypeOK
  <2>4. InvalidFields(p, build) = {} /\ Resolves(build) /\ Caps(build).arguments
        /\ rows[c] = NoRow
    BY <1>1 DEF Request
  <2>5. Requested(c)
    BY <2>2, <2>3, <2>4, Zenon DEF Requested
  <2>6. \A a \in Approvals \ {c} : rows'[a] = rows[a] /\ origin'[a] = origin[a]
    BY <1>1, <2>1 DEF TypeOK, Request
  <2>7. \A a \in Approvals \ {c} : Moved(a)
    BY <2>6 DEF Moved
  <2>8. QED
    BY <2>5, <2>7
<1>2. ASSUME NEW c \in Approvals, Park(c) PROVE \A a \in Approvals : Moved(a)
  <2>1. \A a \in Approvals \ {c} : rows'[a] = rows[a]
    BY <1>2 DEF Park, TypeOK
  <2>2. /\ rows'[c].job = rows[c].job /\ rows'[c].known = rows[c].known /\ rows'[c].parked
        /\ rows'[c].status = rows[c].status
    BY <1>2 DEF Park, TypeOK, Rows
  <2>3. QED
    BY <1>2, <2>1, <2>2 DEF Park, Moved
<1>3. ASSUME UNCHANGED <<rows, origin>> PROVE \A a \in Approvals : Moved(a)
  BY <1>3 DEF Moved
<1>4. \/ \E a \in Approvals, p \in Proposals : Request(a, p)
      \/ \E a \in Approvals : Park(a)
      \/ \E o \in Operators : ExpireOnDecide(o) \/ Decide(o)
      \/ Sweep
      \/ UNCHANGED <<rows, origin>>
  BY DEF Next, Decision, Report, View, Ask, Refuse, Reuse, ExecutorFails, Reply, Abandon,
         WorkerDies, Redeploy, Tick, vars
<1>5. QED
  BY <1>1, <1>2, <1>3, <1>4, DecisionSteps, SweepStep

(***************************************************************************)
(* The inductive invariant.                                                *)
(***************************************************************************)

\* EventsKept: whichever step is taken, events stay owed once and emitted once.
LEMMA EventsKept == IInv /\ [Next]_vars => EventsMatchRows' /\ EventsOwed'
<1> SUFFICES ASSUME IInv, [Next]_vars PROVE EventsMatchRows' /\ EventsOwed'
  OBVIOUS
<1>1. TypeOK /\ TypeOK' /\ EventsMatchRows /\ EventsOwed
  BY TypeKept DEF IInv, EventsMatchRows
<1>2. \A a \in Approvals :
          /\ rows'[a].job = rows[a].job
          /\ rows'[a].status # rows[a].status => rows[a].status \in {"none", "pending"}
  <2>1. \A a \in Approvals : rows'[a].job = rows[a].job
    BY <1>1, Zenon DEF TypeOK
  <2>2. ASSUME NEW a \in Approvals, Requested(a) PROVE rows[a].status = "none"
    BY <2>2 DEF Requested, NoRow
  <2>3. QED
    BY <1>1, <2>1, <2>2, RowsMove DEF Moved
<1>3. Idle.pc = "idle" /\ Idle.emits = {}
  BY DEF Idle
<1>4. ask \in [Operators -> Asks]
  BY <1>1 DEF TypeOK
<1>5. ASSUME log' = log, due' \subseteq due,
             \A o \in Operators :
                 /\ ask'[o].pc # "committed" => ask'[o].emits = {}
                 /\ ask'[o].emits # {} => ask'[o].emits = ask[o].emits /\ ask'[o].on = ask[o].on
      PROVE  EventsMatchRows' /\ EventsOwed'
  <2>1. \A o \in Operators : \A e \in ask'[o].emits : Kept(o, e)
    BY <1>5 DEF Kept
  <2>2. QED
    BY <1>1, <1>2, <1>5, <2>1, OwedStep
<1>6. ASSUME log' = log, due' \subseteq due, ask' = ask
      PROVE  EventsMatchRows' /\ EventsOwed'
  BY <1>1, <1>5, <1>6 DEF EventsOwed
<1>7. ASSUME NEW o \in Operators, log' = log, due' \subseteq due, NEW q,
             q.emits = {}, ask' = [ask EXCEPT ![o] = q]
      PROVE  EventsMatchRows' /\ EventsOwed'
  <2>1. \A x \in Operators : ask'[x] = IF x = o THEN q ELSE ask[x]
    BY <1>4, <1>7
  <2>2. QED
    BY <1>1, <1>5, <1>7, <2>1 DEF EventsOwed
<1>8. ASSUME NEW o \in Operators, NEW a \in Approvals, View(o, a)
      PROVE  EventsMatchRows' /\ EventsOwed'
  <2> DEFINE q == [Idle EXCEPT !.pc = "viewed", !.on = a,
                               !.saw = IF Executable(rows[a], build) THEN build ELSE 0]
  <2>1. q.emits = {}
    BY DEF Idle
  <2> HIDE DEF q
  <2>2. QED
    BY <1>7, <1>8, <2>1 DEF View, q
<1>9. ASSUME NEW o \in Operators, NEW want, Ask(o, want)
       PROVE  EventsMatchRows' /\ EventsOwed'
  <2> DEFINE q == [ask[o] EXCEPT !.pc = "asked", !.want = want, !.at = now]
  <2>1. q.emits = {}
    BY <1>1, <1>4, <1>9 DEF Ask, Asks, EventsOwed
  <2>2. ask' = [ask EXCEPT ![o] = q]
    BY <1>4, <1>9 DEF Ask
  <2> HIDE DEF q
  <2>3. QED
    BY <1>7, <1>9, <2>1, <2>2 DEF Ask
<1>10. ASSUME NEW o \in Operators, Refuse(o) \/ Reuse(o) \/ ExecutorFails(o)
       PROVE  EventsMatchRows' /\ EventsOwed'
  <2>1. PICK answer : Committed(o, answer, {}) /\ log' = log /\ due' = due
    BY <1>10 DEF Refuse, Reuse, ExecutorFails
  <2> DEFINE q == [ask[o] EXCEPT !.pc = "committed", !.answer = answer, !.emits = {}]
  <2>2. q.emits = {}
    BY <1>4 DEF Asks
  <2>3. ask' = [ask EXCEPT ![o] = q]
    BY <1>4, <2>1 DEF Committed
  <2> HIDE DEF q
  <2>4. QED
    BY <1>7, <2>1, <2>2, <2>3
<1>11. ASSUME NEW o \in Operators, Abandon(o) PROVE EventsMatchRows' /\ EventsOwed'
  BY <1>3, <1>7, <1>11 DEF Abandon
<1>12. ASSUME NEW o \in Operators, ExpireOnDecide(o) \/ Decide(o)
       PROVE  EventsMatchRows' /\ EventsOwed'
  <2>1. /\ ask[o].on \in Approvals
        /\ rows[ask[o].on].status = "pending" /\ rows[ask[o].on].job
        /\ \E answer : \E E \in SUBSET Events :
              /\ Committed(o, answer, E)
              /\ \A e \in E : rows'[ask[o].on].status = StatusOf(e)
    BY <1>1, <1>12, DecisionSteps
  <2>2. PICK answer : \E E \in SUBSET Events :
              /\ Committed(o, answer, E)
              /\ \A e \in E : rows'[ask[o].on].status = StatusOf(e)
    BY <2>1
  <2>3. PICK E \in SUBSET Events :
              /\ Committed(o, answer, E)
              /\ \A e \in E : rows'[ask[o].on].status = StatusOf(e)
    BY <2>2
  <2>4. /\ ask'[o].on = ask[o].on /\ ask'[o].emits = E /\ ask'[o].pc = "committed"
        /\ \A x \in Operators \ {o} : ask'[x] = ask[x]
    BY <1>4, <2>3 DEF Committed, Asks
  <2>5. \A e \in ask'[o].emits : Fresh(ask'[o].on, e)
    BY <2>1, <2>3, <2>4 DEF Fresh
  <2>6. \A x \in Operators \ {o} : \A e \in ask'[x].emits : Kept(x, e)
    BY <2>4 DEF Kept
  <2>7. \A x \in Operators : ask'[x].pc # "committed" => ask'[x].emits = {}
    BY <1>1, <2>4 DEF EventsOwed
  <2>8. log' = log /\ due' = due
    BY <1>12 DEF ExpireOnDecide, Decide
  <2>9. QED
    BY <1>1, <1>2, <2>5, <2>6, <2>7, <2>8, OwedStep
<1>13. CASE Sweep
  <2>1. log' = log /\ ask' = ask /\ \A a \in due' : Fresh(a, "expired")
    BY <1>1, <1>13, SweepStep DEF Sweep
  <2>2. \A o \in Operators : \A e \in ask'[o].emits : Kept(o, e)
    BY <2>1 DEF Kept
  <2>3. \A o \in Operators : ask'[o].pc # "committed" => ask'[o].emits = {}
    BY <1>1, <2>1 DEF EventsOwed
  <2>4. QED
    BY <1>1, <1>2, <2>1, <2>2, <2>3, OwedStep
<1>14. ASSUME NEW o \in Operators, Reply(o) PROVE EventsMatchRows' /\ EventsOwed'
  <2>1. /\ ask[o].on \in Approvals /\ ask[o].emits \in SUBSET Events
        /\ Emit(ask[o].on, ask[o].emits) /\ rows' = rows /\ due' = due
    BY <1>1, <1>14 DEF Reply, TypeOK, Asks
  <2>2. ask'[o] = Idle /\ \A x \in Operators \ {o} : ask'[x] = ask[x]
    BY <1>4, <1>14 DEF Reply
  <2>3. \A e \in ask[o].emits : Unreported(ask[o].on, e)
    BY <1>1 DEF EventsOwed
  <2>4. \A x \in Operators :
            /\ ask'[x].pc # "committed" => ask'[x].emits = {}
            /\ \A e \in ask'[x].emits :
                  /\ e \in ask[x].emits /\ ask'[x].on = ask[x].on
                  /\ ask[x].on = ask[o].on => e \notin ask[o].emits
    BY <1>1, <1>3, <2>2 DEF EventsOwed
  <2>5. \A x \in due' : x \in due /\ (x = ask[o].on => "expired" \notin ask[o].emits)
    BY <1>1, <2>1 DEF EventsOwed
  <2>6. QED
    BY <1>1, <2>1, <2>3, <2>4, <2>5, EmittedOnce
<1>15. ASSUME NEW a \in Approvals, Report(a) PROVE EventsMatchRows' /\ EventsOwed'
  <2>1. /\ Emit(a, {"expired"}) /\ {"expired"} \in SUBSET Events
        /\ rows' = rows /\ ask' = ask /\ a \in due /\ due' = due \ {a}
    BY <1>15 DEF Report, Events
  <2>2. \A e \in {"expired"} : Unreported(a, e)
    BY <1>1, <2>1 DEF EventsOwed
  <2>3. \A o \in Operators :
            /\ ask'[o].pc # "committed" => ask'[o].emits = {}
            /\ \A e \in ask'[o].emits :
                  /\ e \in ask[o].emits /\ ask'[o].on = ask[o].on
                  /\ ask[o].on = a => e \notin {"expired"}
    BY <1>1, <2>1 DEF EventsOwed
  <2>4. \A x \in due' : x \in due /\ (x = a => "expired" \notin {"expired"})
    BY <2>1
  <2>5. QED
    BY <1>1, <2>1, <2>2, <2>3, <2>4, EmittedOnce
<1>16. ASSUME NEW a \in Approvals, Park(a) \/ \E p \in Proposals : Request(a, p)
       PROVE  EventsMatchRows' /\ EventsOwed'
  BY <1>6, <1>16 DEF Park, Request
<1>17. CASE WorkerDies \/ Tick \/ UNCHANGED vars \/ \E b \in DOMAIN Builds : Redeploy(b)
  BY <1>6, <1>17 DEF WorkerDies, Tick, vars, Redeploy
<1>18. QED
  BY <1>8, <1>9, <1>10, <1>11, <1>12, <1>13, <1>14, <1>15, <1>16, <1>17 DEF Next, Decision

\* FrozenKept: a row is frozen from what the running build validated, and never
\* changes afterwards.
LEMMA FrozenKept == IInv /\ [Next]_vars => Frozen'
<1> SUFFICES ASSUME IInv, [Next]_vars PROVE Frozen'
  OBVIOUS
<1>1. TypeOK /\ TypeOK' /\ Frozen /\ \A a \in Approvals : Moved(a) \/ Requested(a)
  BY TypeKept, RowsMove DEF IInv, EventsMatchRows
<1>2. \A a \in Approvals : \A n \in DOMAIN rows[a].known :
          QuotedFrom(origin[a].items, origin[a].document, n, rows[a].known[n])
  BY <1>1 DEF Frozen, KnownIsQuoted, QuotedFrom
<1>3. ASSUME NEW a \in Approvals
      PROVE  /\ rows'[a].status # "none" /\ rows'[a].job => Takes(rows[a], origin[a].build)'
             /\ \A n \in DOMAIN rows'[a].known :
                   QuotedFrom(origin'[a].items, origin'[a].document, n, rows'[a].known[n])
  <2>1. CASE Moved(a)
    <3>1. /\ rows'[a].known = rows[a].known /\ rows'[a].job = rows[a].job
          /\ rows'[a].status # "none" => rows[a].status # "none"
          /\ origin'[a] = origin[a]
      BY <2>1 DEF Moved
    <3>2. Takes(rows[a], origin[a].build) => Takes(rows[a], origin[a].build)'
      BY <3>1 DEF Takes
    <3>3. QED
      BY <1>1, <1>2, <3>1, <3>2 DEF Frozen
  <2>2. CASE Requested(a)
    <3>1. PICK p \in Proposals : \E known \in ValidatedFields(p, build) :
             /\ InvalidFields(p, build) = {} /\ Resolves(build) /\ Caps(build).arguments
             /\ rows'[a].known = known
             /\ origin'[a] = [document |-> p.document, items |-> p.items, build |-> build]
      BY <2>2 DEF Requested
    <3>2. PICK known \in ValidatedFields(p, build) :
             /\ InvalidFields(p, build) = {} /\ Resolves(build) /\ Caps(build).arguments
             /\ rows'[a].known = known
             /\ origin'[a] = [document |-> p.document, items |-> p.items, build |-> build]
      BY <3>1
    <3>3. /\ known \in Knowns /\ AcceptedBy(known, build)
          /\ \A n \in DOMAIN known : QuotedFrom(p.items, p.document, n, known[n])
      BY <3>2, ValidatedMeaning
    <3>4. FrozenInvalid(known, build) = {}
      BY <3>3, FrozenMeaning
    <3>5. /\ origin'[a].items = p.items /\ origin'[a].document = p.document
          /\ origin'[a].build = build /\ build \in DOMAIN Builds
      BY <1>1, <3>2 DEF TypeOK
    <3>6. Takes(rows[a], origin[a].build)'
      BY <3>2, <3>4, <3>5 DEF Takes, Resolves
    <3>7. QED
      BY <3>2, <3>3, <3>5, <3>6
  <2>3. QED
    BY <1>1, <2>1, <2>2
<1>4. KnownIsQuoted'
  BY <1>3 DEF KnownIsQuoted, QuotedFrom
<1>5. QED
  BY <1>3, <1>4 DEF Frozen

\* OfferedKept: what a build offered, it would still take.
LEMMA OfferedKept == IInv /\ [Next]_vars => Offered'
<1> SUFFICES ASSUME IInv, [Next]_vars PROVE Offered'
  OBVIOUS
<1>1. TypeOK /\ TypeOK' /\ Offered /\ \A a \in Approvals : Moved(a) \/ Requested(a)
  BY TypeKept, RowsMove DEF IInv, EventsMatchRows
<1>2. ASSUME NEW a \in Approvals, rows[a].job, Published(rows[a]), NEW b, Takes(rows[a], b)
      PROVE  rows'[a].job /\ Published(rows[a])' /\ Takes(rows[a], b)'
  <2>1. Moved(a)
    <3>1. ASSUME Requested(a) PROVE rows[a].status = "none"
      BY <3>1 DEF Requested, NoRow
    <3>2. QED
      BY <1>1, <1>2, <3>1 DEF Published
  <2>2. rows'[a].status # "none"
    BY <1>2, <2>1 DEF Moved, Published, Final
  <2>3. QED
    BY <1>2, <2>1, <2>2 DEF Moved, Published, Takes
<1>3. ASSUME NEW o \in Operators, NEW a \in Approvals, View(o, a)
      PROVE  /\ ask'[o].on = a
             /\ ask'[o].saw # 0 =>
                   /\ ask'[o].saw = build
                   /\ rows[a].job /\ Published(rows[a]) /\ Takes(rows[a], build)
             /\ \A x \in Operators \ {o} : ask'[x] = ask[x]
  <2>1. ask'[o].on = a /\ ask'[o].saw = IF Executable(rows[a], build) THEN build ELSE 0
    BY <1>1, <1>3 DEF View, TypeOK, Idle
  <2>2. Executable(rows[a], build) => rows[a].job /\ Takes(rows[a], build)
    BY <1>1 DEF Executable, Takes, TypeOK
  <2>3. \A x \in Operators \ {o} : ask'[x] = ask[x]
    BY <1>1, <1>3 DEF View, TypeOK
  <2>4. QED
    BY <1>3, <2>1, <2>2, <2>3 DEF View
<1>4. ASSUME NEW o \in Operators, ask'[o].pc \in {"viewed", "asked"}
      PROVE  \/ /\ ask[o].pc \in {"viewed", "asked"}
                /\ ask'[o].on = ask[o].on /\ ask'[o].saw = ask[o].saw
             \/ \E a \in Approvals : View(o, a)
  <2>0. ask \in [Operators -> Asks]
    BY <1>1 DEF TypeOK
  <2>1. ASSUME NEW x \in Operators, NEW a \in Approvals, View(x, a)
        PROVE  ask'[o] = ask[o] \/ \E c \in Approvals : View(o, c)
    BY <2>0, <2>1 DEF View
  <2>2. ASSUME NEW x \in Operators, NEW want, Ask(x, want)
        PROVE  /\ ask[o].pc \in {"viewed", "asked"}
               /\ ask'[o].on = ask[o].on /\ ask'[o].saw = ask[o].saw
    BY <1>4, <2>0, <2>2 DEF Ask, Asks
  <2>3. ASSUME NEW x \in Operators, NEW answer, NEW E, Committed(x, answer, E)
        PROVE  ask'[o] = ask[o]
    BY <1>4, <2>0, <2>3 DEF Committed, Asks
  <2>4. ASSUME NEW x \in Operators, ask' = [ask EXCEPT ![x] = Idle]
        PROVE  ask'[o] = ask[o]
    BY <1>4, <2>0, <2>4 DEF Idle
  <2>5. ASSUME NEW x \in Operators, Decision(x) \/ Reply(x) \/ Abandon(x)
        PROVE  ask'[o] = ask[o]
    BY <2>3, <2>4, <2>5 DEF Decision, Refuse, Reuse, ExpireOnDecide, Decide, ExecutorFails,
                            Reply, Abandon
  <2>6. \/ ask' = ask
        \/ \E x \in Operators, a \in Approvals : View(x, a)
        \/ \E x \in Operators, want \in {"approve", "reject"} : Ask(x, want)
        \/ \E x \in Operators : Decision(x) \/ Reply(x) \/ Abandon(x)
    BY DEF Next, Request, Park, Report, Sweep, WorkerDies, Redeploy, Tick, vars
  <2>7. QED
    BY <1>4, <2>1, <2>2, <2>5, <2>6
<1>5. ASSUME NEW o \in Operators, ask'[o].pc \in {"viewed", "asked"}, ask'[o].saw # 0
      PROVE  /\ rows[ask'[o].on].job /\ Published(rows[ask'[o].on])
             /\ Takes(rows[ask'[o].on], ask'[o].saw) /\ ask'[o].on \in Approvals
  <2>1. ask'[o].on \in Approvals
    BY <1>1, <1>5 DEF TypeOK
  <2>2. CASE \E a \in Approvals : View(o, a)
    BY <1>3, <1>5, <2>1, <2>2
  <2>3. CASE /\ ask[o].pc \in {"viewed", "asked"}
             /\ ask'[o].on = ask[o].on /\ ask'[o].saw = ask[o].saw
    BY <1>1, <1>5, <2>1, <2>3 DEF Offered
  <2>4. QED
    BY <1>4, <1>5, <2>2, <2>3
<1>6. QED
  BY <1>2, <1>5 DEF Offered, Published, Takes

\* InitialState: nothing is frozen, offered or owed at first.
LEMMA InitialState == Init => IInv
<1> SUFFICES ASSUME Init PROVE IInv
  OBVIOUS
<1>1. PICK d \in [Legacy -> {NoDeadline, TTL}] :
          rows = [a \in Approvals |->
                     IF a \in Legacy
                     THEN [NoRow EXCEPT !.status = "pending", !.job = FALSE, !.expires = d[a]]
                     ELSE NoRow]
  BY DEF Init
<1>2. ASSUME NEW a \in Approvals
      PROVE  /\ rows[a] \in Rows /\ rows[a].job = (a \notin Legacy)
             /\ rows[a].job => rows[a].status = "none"
             /\ DOMAIN rows[a].known = {}
  <2>1. CASE a \in Legacy
    <3>1. /\ rows[a] = [NoRow EXCEPT !.status = "pending", !.job = FALSE, !.expires = d[a]]
          /\ d[a] \in {NoDeadline, TTL}
      BY <1>1, <2>1
    <3>2. rows[a] \in Rows
      BY <3>1, InitialRows
    <3>3. rows[a].job = FALSE /\ DOMAIN rows[a].known = {}
      BY <3>1 DEF NoRow
    <3>4. QED
      BY <2>1, <3>2, <3>3
  <2>2. CASE a \notin Legacy
    <3>1. rows[a] = NoRow
      BY <1>1, <2>2
    <3>2. rows[a] \in Rows
      BY <3>1, InitialRows
    <3>3. rows[a].job = TRUE /\ rows[a].status = "none" /\ DOMAIN rows[a].known = {}
      BY <3>1 DEF NoRow
    <3>4. QED
      BY <2>2, <3>2, <3>3
  <2>3. QED
    BY <2>1, <2>2
<1>3. TypeOK
  <2>1. rows \in [Approvals -> Rows]
    BY <1>1, <1>2
  <2>2. origin \in [Approvals -> Origins]
    BY InitialRows DEF Init
  <2>3. /\ ask \in [Operators -> Asks]
        /\ \A o \in Operators : ask[o].pc = "idle"
    BY InitialRows DEF Init, Idle
  <2>4. log \in [Approvals -> [Events -> Nat]]
    BY DEF Init
  <2>5. /\ build \in DOMAIN Builds /\ now \in 0 .. MaxTime /\ due \subseteq Approvals
        /\ asked \in [Operators -> 0 .. MaxAsks]
    <3>1. 0 \in 0 .. MaxTime /\ 0 \in 0 .. MaxAsks
      BY ReviewAssumption
    <3>2. QED
      BY <3>1, Zenon DEF Init
  <2>6. \A a \in Approvals : rows[a].job = (a \notin Legacy)
    BY <1>2, Zenon
  <2>7. QED
    BY <2>1, <2>2, <2>3, <2>4, <2>5, <2>6, Zenon DEF TypeOK
<1>4. \A o \in Operators : ask[o].pc = "idle" /\ ask[o].emits = {}
  BY DEF Init, Idle
<1>5. EventsMatchRows /\ EventsOwed
  <2>1. \A a \in Approvals : log[a]["executed"] = 0 /\ log[a]["expired"] = 0
    BY DEF Init, Events
  <2>2. \A a \in Approvals : \A e \in Events : log[a][e] = 0
    BY DEF Init
  <2>3. due = {}
    BY DEF Init
  <2>4. EventsMatchRows
    <3>1. \A a \in Approvals : \A e \in Events : log[a][e] <= 1
      BY <2>2
    <3>2. \A a \in Approvals : log[a]["executed"] # 1 /\ log[a]["expired"] # 1
      BY <2>1
    <3>3. QED
      BY <1>3, <3>1, <3>2, Zenon DEF EventsMatchRows
  <2>5. EventsOwed
    BY <1>4, <2>3 DEF EventsOwed
  <2>6. QED
    BY <2>4, <2>5
<1>6. Frozen
  BY <1>2 DEF Frozen, KnownIsQuoted
<1>7. Offered
  BY <1>4 DEF Offered
<1>8. QED
  BY <1>5, <1>6, <1>7 DEF IInv

(***************************************************************************)
(* Theorems.                                                               *)
(***************************************************************************)

\* ReviewInvariant: the books of the events balance, what is frozen stays what the
\* worker validated, and what a build offered it would still take, in every
\* reachable state.
THEOREM ReviewInvariant == Spec => []IInv
<1>1. IInv /\ [Next]_vars => IInv'
  BY EventsKept, FrozenKept, OfferedKept DEF IInv
<1>2. QED
  BY InitialState, <1>1, PTL DEF Spec

\* EventsAlwaysMatch: however many requests, sweeps and crashes interleave, an
\* executed or expired event is emitted at most once, and only for a row that
\* was committed with that status and has a job.
THEOREM EventsAlwaysMatch == Spec => []EventsMatchRows
<1>1. IInv => EventsMatchRows
  BY DEF IInv
<1>2. QED
  BY <1>1, ReviewInvariant, PTL

\* FrozenAlwaysSound: for every profile, proposal and build, what validate_proposal_fields
\* accepted is quoted as it should be, and validate_frozen_fields of the same
\* build accepts it again without the document.
THEOREM FrozenAlwaysSound == Spec => []FrozenIsSound
<1>1. ASSUME IInv PROVE FrozenIsSound
  <2>1. ASSUME NEW a \in Approvals, rows[a].status = "pending", rows[a].job,
               origin[a].build = build
        PROVE  Executable(rows[a], build)
    BY <1>1, <2>1 DEF IInv, Frozen, Takes, Executable, Available
  <2>2. QED
    BY <1>1, <2>1 DEF IInv, Frozen, FrozenIsSound, FreshIsExecutable
<1>2. QED
  BY <1>1, ReviewInvariant, PTL

\* PagesAlwaysHonest: for any number of rows and any limit, a page that says it is
\* the last hides no row, and no row that is left out expires before one that is
\* shown.
THEOREM PagesAlwaysHonest == Spec => []PageIsHonest
<1>1. IInv => PageIsHonest
  BY HonestPage DEF IInv, EventsMatchRows
<1>2. QED
  BY <1>1, ReviewInvariant, PTL

\* ApprovedByDecide: only decide approves a row.
LEMMA ApprovedByDecide ==
    ASSUME TypeOK, [Next]_vars, NEW a \in Approvals,
           rows[a].status = "pending", rows'[a].status = "approved"
    PROVE  \E o \in Operators : /\ ask[o].pc = "asked" /\ ask[o].on = a
                                /\ Verdict(o) = "approved"
<1>1. rows \in [Approvals -> Rows]
  BY DEF TypeOK
<1>2. ASSUME NEW o \in Operators, Decide(o)
      PROVE  ask[o].pc = "asked" /\ ask[o].on = a /\ Verdict(o) = "approved"
  BY <1>1, <1>2 DEF Decide, Rows
<1>3. ASSUME NEW c \in Approvals, NEW p \in Proposals, Request(c, p) PROVE FALSE
  <2>1. rows[c] = NoRow /\ c # a
    BY <1>3 DEF Request, NoRow
  <2>2. rows'[a] = rows[a]
    BY <1>1, <1>3, <2>1 DEF Request
  <2>3. QED
    BY <2>2
<1>4. ASSUME NEW c \in Approvals, Park(c) PROVE FALSE
  BY <1>1, <1>4 DEF Park, Rows
<1>5. ASSUME NEW o \in Operators, ExpireOnDecide(o) PROVE FALSE
  BY <1>1, <1>5 DEF ExpireOnDecide, Expired, Rows
<1>6. ASSUME Sweep PROVE FALSE
  <2>1. PICK batch : rows' = [c \in Approvals |->
                                 IF c \in batch THEN Expired(rows[c]) ELSE rows[c]]
    BY <1>6 DEF Sweep
  <2>2. rows'[a] = Expired(rows[a]) \/ rows'[a] = rows[a]
    BY <2>1
  <2>3. Expired(rows[a]).status = "expired"
    BY <1>1 DEF Expired, Rows
  <2>4. QED
    BY <2>2, <2>3
<1>7. rows' # rows
  OBVIOUS
<1>8. \/ \E c \in Approvals, p \in Proposals : Request(c, p)
      \/ \E c \in Approvals : Park(c)
      \/ \E o \in Operators : ExpireOnDecide(o) \/ Decide(o)
      \/ Sweep
  BY <1>7 DEF Next, Decision, Report, View, Ask, Refuse, Reuse, ExecutorFails, Reply, Abandon,
              WorkerDies, Redeploy, Tick, vars
<1>9. QED
  BY <1>2, <1>3, <1>4, <1>5, <1>6, <1>8

\* ExecutedWasOffered: whatever was redeployed since the row was frozen or viewed, decide
\* approves only what _project, asked at that moment, would call executable.
THEOREM ExecutedWasOffered == Spec => OnlyOfferedIsExecuted
<1>1. ASSUME IInv, [Next]_vars, NEW a \in Approvals,
             rows[a].status = "pending", rows'[a].status = "approved"
      PROVE  Executable(rows[a], build)
  <2>1. PICK o \in Operators : ask[o].pc = "asked" /\ ask[o].on = a /\ Verdict(o) = "approved"
    BY <1>1, ApprovedByDecide DEF IInv, EventsMatchRows
  <2>2. /\ rows[a].job /\ Resolves(build) /\ Caps(build).registered
        /\ Caps(build).arguments /\ Available(build) /\ FrozenValid(rows[a].known, build)
    BY <2>1, VerdictFacts
  <2>3. QED
    BY <1>1, <2>2 DEF Executable, FrozenValid
<1>2. IInv /\ [Next]_vars =>
          [\A a \in Approvals : rows[a].status = "pending" /\ rows'[a].status = "approved"
                                    => Executable(rows[a], build)]_vars
  BY <1>1
<1>3. QED
  BY <1>2, ReviewInvariant, PTL DEF Spec, OnlyOfferedIsExecuted

\* RefusedBy: only the operator's own refusal or expiry answers it with a conflict.
LEMMA RefusedBy ==
    ASSUME TypeOK, [Next]_vars, NEW o \in Operators, ask[o].pc = "asked",
           ask'[o].pc = "committed", ask'[o].answer = "conflict"
    PROVE  Refuse(o) \/ ExpireOnDecide(o)
<1>1. ask \in [Operators -> Asks]
  BY DEF TypeOK
<1>2. ASSUME NEW x \in Operators, NEW answer, NEW E, Committed(x, answer, E)
      PROVE  x = o /\ answer = "conflict"
  BY <1>1, <1>2 DEF Committed, Asks
<1>3. ASSUME NEW x \in Operators, NEW a \in Approvals, View(x, a) PROVE FALSE
  BY <1>1, <1>3 DEF View, Idle
<1>4. ASSUME NEW x \in Operators, NEW want, Ask(x, want) PROVE FALSE
  BY <1>1, <1>4 DEF Ask, Asks
<1>5. ASSUME NEW x \in Operators, Reply(x) \/ Abandon(x) PROVE FALSE
  BY <1>1, <1>5 DEF Reply, Abandon, Idle
<1>6. ASSUME NEW x \in Operators, Reuse(x) PROVE FALSE
  <2>1. rows[ask[x].on].status \in Final
    BY <1>6 DEF Reuse, Verdict
  <2>2. QED
    BY <1>2, <1>6, <2>1 DEF Reuse, Final
<1>7. ASSUME NEW x \in Operators, Decide(x) \/ ExecutorFails(x) PROVE FALSE
  BY <1>2, <1>7 DEF Decide, ExecutorFails
<1>8. ASSUME NEW x \in Operators, Refuse(x) \/ ExpireOnDecide(x) PROVE x = o
  BY <1>2, <1>8 DEF Refuse, ExpireOnDecide
<1>9. ask' # ask
  OBVIOUS
<1>10. \/ \E x \in Operators, a \in Approvals : View(x, a)
       \/ \E x \in Operators, want \in {"approve", "reject"} : Ask(x, want)
       \/ \E x \in Operators : Decision(x) \/ Reply(x) \/ Abandon(x)
  BY <1>9 DEF Next, Request, Park, Report, Sweep, WorkerDies, Redeploy, Tick, vars
<1>11. QED
  BY <1>3, <1>4, <1>5, <1>6, <1>7, <1>8, <1>10 DEF Decision

\* RefusalsAreExplained: an operator who approves what the running build offered is
\* refused only for a reason that arose meanwhile, or for the version of the
\* action, which _project does not look at.
THEOREM RefusalsAreExplained == Spec => RefusalIsExplained
<1>1. ASSUME IInv, [Next]_vars, NEW o \in Operators, ask[o].pc = "asked",
             ask'[o].pc = "committed", ask[o].want = "approve", ask[o].saw = build,
             ask'[o].answer = "conflict"
      PROVE  \/ rows[ask[o].on].status # "pending"
             \/ rows[ask[o].on].expires <= ask[o].at
             \/ rows[ask[o].on].version # Caps(build).version
  <2> DEFINE r == rows[ask[o].on]
  <2>1. TypeOK /\ ask[o].on \in Approvals /\ r.known \in Knowns /\ build # 0
        /\ ask[o].at \in Nat
    <3>1. TypeOK
      BY <1>1 DEF IInv, EventsMatchRows
    <3>2. ask[o].on \in Approvals /\ ask[o] \in Asks
      BY <1>1, <3>1 DEF TypeOK
    <3>3. r \in Rows /\ build # 0
      BY <3>1, <3>2, ReviewAssumption DEF TypeOK
    <3>4. r.known \in Knowns
      BY <3>3 DEF Rows
    <3>5. ask[o].at \in Nat
      BY <3>2, ReviewAssumption DEF Asks
    <3>6. QED
      BY <3>1, <3>2, <3>3, <3>4, <3>5
  <2>2. r.job /\ Published(r) /\ Takes(r, build)
    BY <1>1, <2>1 DEF IInv, Offered
  <2>3. FrozenValid(r.known, build)
    BY <2>1, <2>2, FrozenMeaning DEF Takes
  <2>4. NoDeadline <= ask[o].at
    BY <2>1 DEF NoDeadline
  <2>5. Refuse(o) \/ ExpireOnDecide(o)
    BY <1>1, <2>1, RefusedBy
  <2>6. CASE ExpireOnDecide(o)
    BY <2>6 DEF ExpireOnDecide, Verdict
  <2>7. CASE Refuse(o)
    <3>1. Verdict(o) \in {"not_found", "legacy", "unavailable", "decided", "invalid_action",
                          "unauthorized", "invalid_fields"}
      BY <2>7 DEF Refuse
    <3>2. CASE r.status \in Final
      BY <3>2 DEF Final
    <3>3. CASE r.status \notin Final
      BY <1>1, <2>2, <2>3, <2>4, <3>1, <3>3 DEF Verdict, Takes, Available
    <3>4. QED
      BY <3>2, <3>3
  <2>8. QED
    BY <2>5, <2>6, <2>7
<1>2. IInv /\ [Next]_vars =>
          [\A o \in Operators :
              (/\ ask[o].pc = "asked" /\ ask'[o].pc = "committed"
               /\ ask[o].want = "approve" /\ ask[o].saw = build
               /\ ask'[o].answer = "conflict")
                  => \/ rows[ask[o].on].status # "pending"
                     \/ rows[ask[o].on].expires <= ask[o].at
                     \/ rows[ask[o].on].version # Caps(build).version]_vars
  BY <1>1
<1>3. QED
  BY <1>2, ReviewInvariant, PTL DEF Spec, RefusalIsExplained
=============================================================================
