-------------------------- MODULE ClientViewProofs --------------------------
(***************************************************************************)
(* What a viewer sees of a log that others change: proofs that a listing   *)
(* gives each event that is due exactly once, that whatever is shown       *)
(* differently from the log is on its way to the viewer, that whole events *)
(* are read of the row that stands, and that rtcom_el_delete_events()      *)
(* removes only what its program asked for.  The first sections are about  *)
(* what a query lists and what one pass of a statement gives; they speak   *)
(* of constants only.  The others are about the steps of the programs.     *)
(***************************************************************************)
EXTENDS ClientView, TLAPS, FiniteSetTheorems, WellFoundedInduction

---------------------------------------------------------------------------
(* What a query lists                                                      *)

Decreasing(seq) == \A i, j \in DOMAIN seq : i < j => seq[i] > seq[j]

(* seq lists the ids of S from the last to the first.                      *)
Lists(seq, S) == /\ seq \in [1..Cardinality(S) -> S]
                 /\ Decreasing(seq)
                 /\ \A id \in S : \E i \in DOMAIN seq : seq[i] = id

(* A set that is not empty has a lowest id, which comes last in its list.   *)
LEMMA LowestId ==
    ASSUME NEW S \in SUBSET Nat, S # {}
    PROVE  \E low \in S : \A id \in S : low <= id
<1>1. IsWellFoundedOn(OpToRel(<, Nat), Nat)
  BY NatLessThanWellFounded
<1>2. PICK low \in S : \A id \in S : ~ (<<id, low>> \in OpToRel(<, Nat))
  BY <1>1, WFMin
<1>3. \A id \in S : ~ (id < low)
  BY <1>2 DEF OpToRel
<1>4. QED
  BY <1>3

LEMMA OneMoreListed ==
    ASSUME NEW S \in SUBSET Nat, IsFiniteSet(S), NEW low \in S, \A id \in S : low <= id,
           NEW seq, Lists(seq, S \ {low})
    PROVE  \E longer : Lists(longer, S)
<1> DEFINE n == Cardinality(S \ {low})
           longer == [i \in 1..(n + 1) |-> IF i = n + 1 THEN low ELSE seq[i]]
<1>1. n \in Nat /\ Cardinality(S) = n + 1
  <2>1. IsFiniteSet(S \ {low}) /\ Cardinality(S) \in Nat /\ n = Cardinality(S) - 1
    BY FS_RemoveElement, FS_CardinalityType
  <2>2. n \in Nat
    BY <2>1, FS_CardinalityType
  <2> HIDE DEF n
  <2>3. QED
    BY <2>1, <2>2
<1>2. seq \in [1..n -> S \ {low}]
  BY DEF Lists
<1> HIDE DEF n
<1>3. longer \in [1..Cardinality(S) -> S]
  BY <1>1, <1>2
<1>4. Decreasing(longer)
  <2>1. SUFFICES ASSUME NEW i \in 1..(n + 1), NEW j \in 1..(n + 1), i < j
                 PROVE  longer[i] > longer[j]
    BY DEF Decreasing
  <2>2. i \in 1..n /\ longer[i] = seq[i] /\ seq[i] \in S \ {low}
    BY <1>1, <1>2, <2>1
  <2>3. CASE j = n + 1
    <3>1. longer[j] = low
      BY <1>1, <2>3
    <3>2. seq[i] \in Nat /\ low \in Nat /\ low <= seq[i] /\ low # seq[i]
      BY <2>2
    <3> HIDE DEF longer
    <3>3. QED
      BY <2>2, <3>1, <3>2
  <2>4. CASE j # n + 1
    <3>1. j \in 1..n /\ longer[j] = seq[j]
      BY <1>1, <2>4
    <3>2. QED
      BY <1>2, <2>1, <2>2, <3>1 DEF Lists, Decreasing
  <2>5. QED
    BY <2>3, <2>4
<1>5. \A id \in S : \E i \in DOMAIN longer : longer[i] = id
  <2>1. TAKE id \in S
  <2>2. CASE id = low
    BY <1>1, <2>2
  <2>3. CASE id # low
    <3>1. PICK i \in 1..n : seq[i] = id
      BY <1>2, <2>3 DEF Lists
    <3>2. i \in DOMAIN longer /\ longer[i] = id
      BY <1>1, <3>1
    <3>3. QED
      BY <3>2
  <2>4. QED
    BY <2>2, <2>3
<1>6. QED
  BY <1>3, <1>4, <1>5 DEF Lists

(* Every finite set of ids has a list.                                     *)
LEMMA ListExists ==
    ASSUME NEW S \in SUBSET Nat, IsFiniteSet(S)
    PROVE  \E seq : Lists(seq, S)
<1> DEFINE Bad == {T \in SUBSET S : ~ \E seq : Lists(seq, T)}
<1>1. SUFFICES ASSUME Bad # {} PROVE FALSE
  OBVIOUS
<1>2. PICK T \in Bad : \A U \in Bad : <<U, T>> \notin StrictSubsetOrdering(S)
  <2>1. Bad \subseteq FiniteSubsetsOf(S)
    BY FS_Subset DEF FiniteSubsetsOf
  <2>2. IsWellFoundedOn(StrictSubsetOrdering(S), FiniteSubsetsOf(S))
    BY FS_StrictSubsetOrderingWellFounded
  <2> HIDE DEF Bad
  <2>3. QED
    BY <1>1, <2>1, <2>2, WFMin
<1>3. T \in SUBSET S /\ T \in SUBSET Nat /\ IsFiniteSet(T) /\ ~ \E seq : Lists(seq, T)
  BY FS_Subset
<1>4. T # {}
  <2>1. SUFFICES ASSUME T = {} PROVE FALSE
    OBVIOUS
  <2>2. Lists(<<>>, T)
    BY <2>1, FS_EmptySet DEF Lists, Decreasing
  <2>3. QED
    BY <1>3, <2>2
<1>5. PICK low \in T : \A id \in T : low <= id
  BY <1>3, <1>4, LowestId
<1>6. T \ {low} \in SUBSET S /\ <<T \ {low}, T>> \in StrictSubsetOrdering(S)
  BY <1>3 DEF StrictSubsetOrdering
<1>7. PICK seq : Lists(seq, T \ {low})
  BY <1>2, <1>6
<1>8. QED
  BY <1>3, <1>5, <1>7, OneMoreListed

(* ORDER BY id DESC: each id once, from the last to the first.             *)
LEMMA DescendingLists ==
    ASSUME NEW S \in SUBSET Ids
    PROVE  /\ Lists(Descending(S), S)
           /\ Descending(S) \in Seq(S)
           /\ Len(Descending(S)) \in Nat
           /\ DOMAIN Descending(S) = 1..Len(Descending(S))
<1>1. S \in SUBSET Nat /\ IsFiniteSet(S)
  BY IdsAssumption, FS_Subset
<1>2. PICK seq : Lists(seq, S)
  BY <1>1, ListExists
<1>3. /\ Descending(S) \in [1..Cardinality(S) -> S]
      /\ Decreasing(Descending(S))
  BY <1>2 DEF Descending, Lists, Decreasing
<1>4. Descending(S) \in Injection(1..Cardinality(S), S)
  <2>1. Cardinality(S) \in Nat
    BY <1>1, FS_CardinalityType
  <2>2. \A i, j \in 1..Cardinality(S) :
            Descending(S)[i] = Descending(S)[j] => ~ (i < j) /\ ~ (j < i)
    <3>1. \A i \in 1..Cardinality(S) : Descending(S)[i] \in Nat
      BY <1>1, <1>3
    <3>2. QED
      BY <1>3, <3>1 DEF Decreasing
  <2>3. \A i, j \in 1..Cardinality(S) : Descending(S)[i] = Descending(S)[j] => i = j
    BY <2>1, <2>2
  <2>4. QED
    BY <1>3, <2>3 DEF Injection, IsInjective
<1>5. Descending(S) \in Surjection(1..Cardinality(S), S)
  <2>1. Cardinality(S) \in Nat /\ Cardinality(1..Cardinality(S)) = Cardinality(S)
    <3>1. Cardinality(S) \in Nat
      BY <1>1, FS_CardinalityType
    <3>2. Cardinality(1..Cardinality(S)) = IF 1 > Cardinality(S) THEN 0
                                           ELSE Cardinality(S) - 1 + 1
      BY <3>1, FS_Interval
    <3>3. QED
      BY <3>1, <3>2
  <2>2. QED
    BY <1>1, <1>4, <2>1, FS_Injection
<1>6. \A id \in S : \E i \in 1..Cardinality(S) : Descending(S)[i] = id
  BY <1>5 DEF Surjection
<1>7. Cardinality(S) \in Nat
  BY <1>1, FS_CardinalityType
<1>8. QED
  BY <1>3, <1>6, <1>7 DEF Lists

(* The same, as the proofs below use it.                                   *)
LEMMA DescendingIs ==
    ASSUME NEW S \in SUBSET Ids, NEW all, all = Descending(S)
    PROVE  /\ all \in Seq(S) /\ Len(all) \in Nat /\ DOMAIN all = 1..Len(all)
           /\ \A i \in 1..Len(all) : all[i] \in S /\ all[i] \in Nat
           /\ \A i, j \in 1..Len(all) : i < j => all[j] < all[i]
           /\ \A id \in S : \E i \in 1..Len(all) : all[i] = id
           /\ all = <<>> <=> S = {}
<1>1. /\ Lists(all, S) /\ all \in Seq(S) /\ Len(all) \in Nat /\ DOMAIN all = 1..Len(all)
  BY DescendingLists
<1>2. S \subseteq Nat
  BY IdsAssumption
<1>3. \A i \in 1..Len(all) : all[i] \in S /\ all[i] \in Nat
  <2>1. \A i \in 1..Len(all) : all[i] \in S
    BY <1>1
  <2>2. QED
    BY <1>2, <2>1
<1>4. \A i, j \in 1..Len(all) : i < j => all[j] < all[i]
  BY <1>1, <1>3 DEF Lists, Decreasing
<1>5. \A id \in S : \E i \in 1..Len(all) : all[i] = id
  BY <1>1 DEF Lists
<1>6. all = <<>> <=> S = {}
  <2>1. all # <<>> => 1 \in 1..Len(all)
    BY <1>1
  <2>2. all = <<>> => Len(all) = 0
    OBVIOUS
  <2>3. QED
    BY <1>3, <1>5, <2>1, <2>2
<1>7. QED
  BY <1>1, <1>3, <1>4, <1>5, <1>6

(* The same, of the list itself: a form that is easier to cite.            *)
ListOf(all, S) ==
    /\ Len(all) \in Nat
    /\ \A i \in 1..Len(all) : all[i] \in S /\ all[i] \in Nat
    /\ \A i, j \in 1..Len(all) : i < j => all[j] < all[i]
    /\ \A id \in S : \E i \in 1..Len(all) : all[i] = id

LEMMA DescendingIsList ==
    ASSUME NEW S \in SUBSET Ids
    PROVE  ListOf(Descending(S), S)
<1>1. PICK all : all = Descending(S)
  OBVIOUS
<1>2. ListOf(all, S)
  BY <1>1, DescendingIs DEF ListOf
<1>3. QED
  BY <1>1, <1>2

(* LIMIT OFFSET: which of the ids are on the page.                         *)
LEMMA PageIs ==
    ASSUME NEW setting \in Setting, NEW S \in SUBSET Ids,
           NEW all, all = Descending(S), NEW page, page = Page(setting, S)
    PROVE  /\ page \in Seq(S) /\ Len(page) \in Nat /\ DOMAIN page = 1..Len(page)
           /\ \A k \in 1..Len(page) : /\ setting.offset + k \in 1..Len(all)
                                      /\ page[k] = all[setting.offset + k]
           /\ \A k \in Nat \ {0} :
                 k <= Len(page) <=> /\ setting.offset + k <= Len(all)
                                    /\ setting.limit < 0 \/ k <= setting.limit
<1> DEFINE last == IF setting.limit < 0 THEN Len(all) ELSE setting.offset + setting.limit
           end == IF last > Len(all) THEN Len(all) ELSE last
           o == setting.offset
<1>1. /\ all \in Seq(S) /\ Len(all) \in Nat /\ DOMAIN all = 1..Len(all)
      /\ o \in Nat /\ setting.limit \in Int
  BY DescendingLists DEF Setting
<1>2. page = SubSeq(all, o + 1, end)
  BY DEF Page
<1>3. end \in Int /\ end <= Len(all)
  BY <1>1
<1>4. /\ \A k \in Nat \ {0} : k <= end - o <=> /\ o + k <= Len(all)
                                               /\ setting.limit < 0 \/ k <= setting.limit
  BY <1>1
<1> HIDE DEF end, last, o
<1> DEFINE n == IF end - o >= 0 THEN end - o ELSE 0
<1>5. n \in Nat /\ 1..(end - o) = 1..n
  BY <1>1, <1>3
<1>6. page = [i \in 1..n |-> all[i + o]]
  <2>1. page = [i \in 1..(end - o) |-> all[i + o]]
    BY <1>1, <1>2, <1>3
  <2>2. QED
    BY <1>5, <2>1
<1>7. \A i \in 1..n : i + o \in 1..Len(all) /\ i + o = o + i
  BY <1>1, <1>3, <1>5
<1>8. \A i \in 1..n : all[i + o] \in S
  BY <1>1, <1>7
<1>9. page \in Seq(S) /\ Len(page) = n /\ Len(page) \in Nat /\ DOMAIN page = 1..Len(page)
  <2> HIDE DEF n
  <2>1. page \in [1..n -> S]
    BY <1>6, <1>8
  <2>2. page \in Seq(S) /\ DOMAIN page = 1..n
    BY <1>5, <2>1
  <2>3. Len(page) = n
    BY <1>5, <2>2
  <2>4. QED
    BY <1>5, <2>2, <2>3
<1>10. \A k \in Nat \ {0} : k <= Len(page) <=> k <= end - o
  BY <1>1, <1>3, <1>9
<1>12. \A k \in 1..Len(page) : o + k \in 1..Len(all) /\ page[k] = all[o + k]
  <2> HIDE DEF n
  <2>1. QED
    BY <1>6, <1>7, <1>9
<1>13. \A k \in Nat \ {0} : k <= Len(page) <=> /\ o + k <= Len(all)
                                               /\ setting.limit < 0 \/ k <= setting.limit
  BY <1>4, <1>10
<1>14. QED
  BY <1>9, <1>12, <1>13 DEF o

(* The same, of the page itself.                                           *)
PartOf(page, all, setting) ==
    /\ Len(page) \in Nat
    /\ \A k \in 1..Len(page) : /\ setting.offset + k \in 1..Len(all)
                               /\ page[k] = all[setting.offset + k]
    /\ \A k \in Nat \ {0} :
          k <= Len(page) <=> /\ setting.offset + k <= Len(all)
                             /\ setting.limit < 0 \/ k <= setting.limit

LEMMA PageIsPart ==
    ASSUME NEW setting \in Setting, NEW S \in SUBSET Ids
    PROVE  PartOf(Page(setting, S), Descending(S), setting)
<1>1. PICK all, page : all = Descending(S) /\ page = Page(setting, S)
  OBVIOUS
<1>2. PartOf(page, all, setting)
  BY <1>1, PageIs DEF PartOf
<1>3. QED
  BY <1>1, <1>2

Tables == [Ids -> Contents \cup {NULL}]
Given(got, id) == \E j \in DOMAIN got : got[j] = id

(* The events a query selects all match its clause.                        *)
LEMMA CandidatesMatch ==
    ASSUME NEW sql \in SqlText, NEW s \in Tables
    PROVE  /\ Candidates(sql, s) \in SUBSET Ids
           /\ \A id \in Candidates(sql, s) : Admits(sql.where, s[id])
           /\ Plain(sql) \/ sql.setting.groupBy = "none"
                 => Candidates(sql, s) = Matching(sql.where, s)
<1>2. Plain(sql) => sql.setting.groupBy = "none"
  BY DEF Plain, NewQuery
<1>3. CASE sql.setting.groupBy = "none"
  BY <1>3 DEF Candidates, Matching
<1>4. CASE sql.setting.groupBy # "none"
  BY <1>2, <1>4 DEF Candidates, Matching, Latest
<1>5. QED
  BY <1>3, <1>4

(* The rows of a SELECT: matching events, from the last to the first, and  *)
(* all of them if the query is plain.                                      *)
LEMMA RowsAre ==
    ASSUME NEW sql \in SqlText, NEW s \in Tables, NEW due, due = Rows(sql, s)
    PROVE  /\ due \in Seq(Ids) /\ Len(due) \in Nat /\ DOMAIN due = 1..Len(due)
           /\ Decreasing(due)
           /\ \A k \in 1..Len(due) : Admits(sql.where, s[due[k]])
           /\ Plain(sql) => \A id \in Matching(sql.where, s) : Given(due, id)
<1> DEFINE S == Candidates(sql, s)
           all == Descending(S)
           o == sql.setting.offset
<1>1. S \in SUBSET Ids /\ \A id \in S : Admits(sql.where, s[id])
  BY CandidatesMatch
<1>2. sql.setting \in Setting /\ o \in Nat
  BY DEF SqlText, Setting
<1>3. /\ Lists(all, S) /\ Len(all) \in Nat /\ DOMAIN all = 1..Len(all)
  BY <1>1, DescendingLists
<1>4. due = Page(sql.setting, S)
  BY DEF Rows
<1>5. Plain(sql) => S = Matching(sql.where, s)
  BY CandidatesMatch
<1> HIDE DEF S
<1>6. /\ due \in Seq(S) /\ Len(due) \in Nat /\ DOMAIN due = 1..Len(due)
      /\ \A k \in 1..Len(due) : o + k \in 1..Len(all) /\ due[k] = all[o + k]
      /\ \A k \in Nat \ {0} :
            k <= Len(due) <=> /\ o + k <= Len(all)
                              /\ sql.setting.limit < 0 \/ k <= sql.setting.limit
  BY <1>1, <1>2, <1>4, PageIs
<1> HIDE DEF all
<1>7. Decreasing(due)
  <2>1. SUFFICES ASSUME NEW i \in 1..Len(due), NEW j \in 1..Len(due), i < j
                 PROVE  due[i] > due[j]
    BY <1>6 DEF Decreasing
  <2>2. o + i < o + j
    BY <1>2, <1>6, <2>1
  <2>3. QED
    BY <1>3, <1>6, <2>2 DEF Lists, Decreasing
<1>8. ASSUME Plain(sql), NEW id \in Matching(sql.where, s) PROVE Given(due, id)
  <2>1. o = 0 /\ sql.setting.limit < 0
    BY <1>8 DEF Plain, NewQuery
  <2>2. PICK i \in 1..Len(all) : all[i] = id
    BY <1>3, <1>5, <1>8 DEF Lists
  <2>3. i \in Nat \ {0} /\ o + i = i /\ i <= Len(all)
    BY <1>3, <2>1
  <2>4. i <= Len(due)
    BY <1>6, <2>1, <2>3
  <2>5. i \in 1..Len(due)
    BY <1>6, <2>3, <2>4
  <2>6. due[i] = id
    BY <1>6, <2>2, <2>3, <2>5
  <2>7. QED
    BY <1>6, <2>5, <2>6 DEF Given
<1>9. due \in Seq(Ids) /\ \A k \in 1..Len(due) : Admits(sql.where, s[due[k]])
  <2>1. \A k \in 1..Len(due) : due[k] \in S
    BY <1>6
  <2>2. QED
    BY <1>1, <1>6, <2>1
<1>10. QED
  BY <1>6, <1>7, <1>8, <1>9

(* A program that pages through an unchanged table, each page with the     *)
(* offset where the last one ended, sees every event once: two pages in a  *)
(* row are the page of both.                                               *)
THEOREM PagesJoin ==
    ASSUME NEW S \in SUBSET Ids, NEW groupBy \in {"none", "contact"},
           NEW o \in Nat, NEW n \in Nat, NEW m \in Int
    PROVE  Page([limit |-> n, offset |-> o, groupBy |-> groupBy], S)
               \o Page([limit |-> m, offset |-> o + n, groupBy |-> groupBy], S)
             = Page([limit |-> IF m < 0 THEN m ELSE n + m, offset |-> o, groupBy |-> groupBy], S)
<1> DEFINE s1 == [limit |-> n, offset |-> o, groupBy |-> groupBy]
           s2 == [limit |-> m, offset |-> o + n, groupBy |-> groupBy]
           s3 == [limit |-> IF m < 0 THEN m ELSE n + m, offset |-> o, groupBy |-> groupBy]
<1>1. /\ s1 \in Setting /\ s1.offset = o /\ s1.limit = n
      /\ s2 \in Setting /\ s2.offset = o + n /\ s2.limit = m
      /\ s3 \in Setting /\ s3.offset = o /\ s3.limit = IF m < 0 THEN m ELSE n + m
  BY DEF Setting
<1> HIDE DEF s1, s2, s3
<1>2. PICK all, p1, p2, p3 : /\ all = Descending(S)
                             /\ p1 = Page(s1, S) /\ p2 = Page(s2, S) /\ p3 = Page(s3, S)
  OBVIOUS
<1>3. Len(all) \in Nat
  BY <1>2, DescendingIs
<1>4. /\ p1 \in Seq(S) /\ Len(p1) \in Nat
      /\ \A k \in 1..Len(p1) : p1[k] = all[o + k]
      /\ \A k \in Nat \ {0} : k <= Len(p1) <=> o + k <= Len(all) /\ k <= n
  <2>1. PartOf(p1, all, s1) /\ p1 \in Seq(S)
    BY <1>1, <1>2, PageIsPart, PageIs
  <2> QED
    BY <1>1, <2>1 DEF PartOf
<1>5. /\ p2 \in Seq(S) /\ Len(p2) \in Nat
      /\ \A k \in 1..Len(p2) : p2[k] = all[o + n + k]
      /\ \A k \in Nat \ {0} : k <= Len(p2) <=> o + n + k <= Len(all) /\ (m < 0 \/ k <= m)
  <2>1. PartOf(p2, all, s2) /\ p2 \in Seq(S)
    BY <1>1, <1>2, PageIsPart, PageIs
  <2> QED
    BY <1>1, <2>1 DEF PartOf
<1>6. /\ p3 \in Seq(S) /\ Len(p3) \in Nat
      /\ \A k \in 1..Len(p3) : p3[k] = all[o + k]
      /\ \A k \in Nat \ {0} : k <= Len(p3) <=> o + k <= Len(all) /\ (m < 0 \/ k <= n + m)
  <2>1. PartOf(p3, all, s3) /\ p3 \in Seq(S)
    BY <1>1, <1>2, PageIsPart, PageIs
  <2>2. \A k \in Nat : (s3.limit < 0 \/ k <= s3.limit) <=> (m < 0 \/ k <= n + m)
    BY <1>1
  <2> QED
    BY <1>1, <2>1, <2>2 DEF PartOf
(* Either the first page is full, or there is nothing for the second.      *)
<1>7. \/ Len(p1) = n
      \/ Len(p1) < n /\ Len(p2) = 0 /\ o + Len(p1) + 1 > Len(all)
  <2>1. Len(p1) <= n
    BY <1>4
  <2>2. CASE Len(p1) < n
    <3>0. Len(p1) + 1 \in Nat \ {0} /\ ~ (Len(p1) + 1 <= Len(p1)) /\ Len(p1) + 1 <= n
      BY <1>4, <2>2
    <3>1. o + (Len(p1) + 1) > Len(all)
      BY <1>3, <1>4, <3>0
    <3>2. ~ (1 <= Len(p2))
      BY <1>3, <1>5, <2>2, <3>1
    <3> QED
      BY <1>4, <1>5, <2>2, <3>1, <3>2
  <2> QED
    BY <1>4, <2>1, <2>2
<1>8. Len(p3) = Len(p1) + Len(p2)
  <2> DEFINE l == Len(p1) + Len(p2)
  <2>1. l \in Nat
    BY <1>4, <1>5
  <2>2. l > 0 => l <= Len(p3)
    <3>1. CASE Len(p2) = 0
      BY <1>3, <1>4, <1>6, <2>1, <3>1
    <3>2. CASE Len(p2) > 0
      <4>1. Len(p1) = n /\ o + n + Len(p2) <= Len(all) /\ (m < 0 \/ Len(p2) <= m)
        BY <1>5, <1>7, <3>2
      <4> QED
        BY <1>3, <1>5, <1>6, <2>1, <4>1
    <3> QED
      BY <1>5, <3>1, <3>2
  <2>3. ~ (l + 1 <= Len(p3))
    <3>1. CASE Len(p1) = n
      <4>1. ~ (Len(p2) + 1 <= Len(p2))
        BY <1>5
      <4>2. ~ (o + n + (Len(p2) + 1) <= Len(all) /\ (m < 0 \/ Len(p2) + 1 <= m))
        BY <1>5, <4>1
      <4>3. ~ (o + (l + 1) <= Len(all) /\ (m < 0 \/ l + 1 <= n + m))
        BY <1>3, <1>5, <3>1, <4>2
      <4> QED
        BY <1>6, <2>1, <4>3
    <3>2. CASE Len(p1) < n
      <4>1. l = Len(p1) /\ ~ (o + (l + 1) <= Len(all))
        BY <1>3, <1>4, <1>7, <3>2
      <4> QED
        BY <1>6, <2>1, <4>1
    <3> QED
      BY <1>4, <1>7, <3>1, <3>2
  <2> HIDE DEF l
  <2>4. Len(p3) = l
    BY <1>6, <2>1, <2>2, <2>3
  <2> QED
    BY <2>4 DEF l
<1>9. \A k \in 1..Len(p3) : (p1 \o p2)[k] = p3[k]
  <2>1. TAKE k \in 1..Len(p3)
  <2>2. CASE k <= Len(p1)
    <3>1. k \in 1..Len(p1) /\ (p1 \o p2)[k] = p1[k]
      BY <1>4, <1>5, <1>6, <2>2
    <3> QED
      BY <1>4, <1>6, <3>1
  <2>3. CASE k > Len(p1)
    <3>1. Len(p1) = n
      BY <1>4, <1>7, <1>8, <2>3
    <3>2. k - n \in 1..Len(p2) /\ (p1 \o p2)[k] = p2[k - n]
      BY <1>4, <1>5, <1>8, <2>3, <3>1
    <3>3. p2[k - n] = all[o + n + (k - n)] /\ o + n + (k - n) = o + k
      BY <1>5, <3>2
    <3> QED
      BY <1>6, <3>2, <3>3
  <2>4. k <= Len(p1) \/ k > Len(p1)
    BY <1>4, <1>6
  <2> QED
    BY <2>2, <2>3, <2>4
<1>10. p1 \o p2 \in Seq(S) /\ Len(p1 \o p2) = Len(p3)
  BY <1>4, <1>5, <1>8
<1>11. p1 \o p2 = p3
  BY <1>6, <1>9, <1>10
<1>12. QED
  BY <1>2, <1>11 DEF s1, s2, s3

(* The walk goes on with the highest id below the last one.                *)
LEMMA HighestBelow ==
    ASSUME NEW S \in SUBSET Ids, NEW below, below = Descending(S), below # <<>>
    PROVE  below[1] \in S /\ \A id \in S : id <= below[1]
<1>1. /\ below \in Seq(S) /\ Len(below) \in Nat
      /\ \A i \in 1..Len(below) : below[i] \in S /\ below[i] \in Nat
      /\ \A i, j \in 1..Len(below) : i < j => below[j] < below[i]
      /\ \A id \in S : \E i \in 1..Len(below) : below[i] = id
  BY DescendingIs
<1>2. 1 \in 1..Len(below)
  BY <1>1
<1>3. ASSUME NEW id \in S PROVE id <= below[1]
  <2>1. PICK m \in 1..Len(below) : below[m] = id
    BY <1>1
  <2>2. m = 1 \/ 1 < m
    BY <1>1
  <2>3. below[m] \in Nat /\ below[1] \in Nat
    BY <1>1, <1>2
  <2>4. 1 < m => below[m] < below[1]
    BY <1>1, <1>2
  <2>5. QED
    BY <2>1, <2>2, <2>3, <2>4
<1>4. QED
  BY <1>1, <1>2, <1>3

(* The walk: what comes after the j-th of the matching events.             *)
LEMMA NextBelow ==
    ASSUME NEW S \in SUBSET Ids, NEW all, all = Descending(S), NEW j \in 1..Len(all),
           NEW below, below = Descending({id \in S : id < all[j]})
    PROVE  /\ below = <<>> <=> j = Len(all)
           /\ below # <<>> => j + 1 \in 1..Len(all) /\ below[1] = all[j + 1]
<1> DEFINE B == {id \in S : id < all[j]}
<1>0. S \in SUBSET Ids /\ all = Descending(S)
  OBVIOUS
<1>1. /\ Len(all) \in Nat
      /\ \A i \in 1..Len(all) : all[i] \in S /\ all[i] \in Nat
      /\ \A i, k \in 1..Len(all) : i < k => all[k] < all[i]
      /\ \A id \in S : \E i \in 1..Len(all) : all[i] = id
  BY ONLY <1>0, DescendingIsList DEF ListOf
<1>2. B \in SUBSET Ids /\ (below = <<>> <=> B = {})
  <2>1. B \in SUBSET Ids
    OBVIOUS
  <2>2. QED
    BY <2>1, DescendingIs
<1>3. ASSUME j # Len(all) PROVE j + 1 \in 1..Len(all) /\ j < j + 1 /\ all[j + 1] \in B
  <2>1. j + 1 \in 1..Len(all) /\ j < j + 1
    BY <1>1, <1>3
  <2>2. QED
    BY <1>1, <2>1
<1>4. ASSUME below # <<>> PROVE j + 1 \in 1..Len(all) /\ below[1] = all[j + 1]
  <2>1. below[1] \in B /\ \A id \in B : id <= below[1]
    <3> HIDE DEF B
    <3>1. below = Descending(B)
      BY DEF B
    <3>2. QED
      BY <1>2, <1>4, <3>1, HighestBelow
  <2>2. PICK i \in 1..Len(all) : all[i] = below[1]
    BY <1>1, <2>1
  <2>3. all[i] < all[j] /\ all[i] \in Nat /\ all[j] \in Nat
    BY <1>1, <2>1, <2>2
  <2>4. ~ (i < j) /\ i # j
    <3>1. i < j => all[j] < all[i]
      BY <1>1
    <3>2. QED
      BY <2>3, <3>1
  <2>5. j # Len(all) /\ j + 1 <= i
    BY <1>1, <2>4
  <2>6. /\ j + 1 \in 1..Len(all) /\ all[j + 1] \in B /\ all[j + 1] \in Nat
    BY <1>1, <1>3, <2>5
  <2>7. all[j + 1] <= all[i]
    BY <2>1, <2>2, <2>6
  <2>8. j + 1 < i => all[i] < all[j + 1]
    BY <1>1, <2>6
  <2>9. i = j + 1
    BY <2>3, <2>5, <2>6, <2>7, <2>8
  <2>10. QED
    BY <2>2, <2>6, <2>9
<1>5. j = Len(all) => B = {}
  <2>1. SUFFICES ASSUME j = Len(all), NEW id \in B PROVE FALSE
    OBVIOUS
  <2>2. PICK i \in 1..Len(all) : all[i] = id
    BY <1>1
  <2>3. i < j => all[j] < all[i]
    BY <1>1
  <2>4. i < j \/ i = j
    BY <1>1, <2>1
  <2>5. id < all[j] /\ id \in Nat /\ all[j] \in Nat
    BY <1>1
  <2>6. QED
    BY <2>2, <2>3, <2>4, <2>5
<1>6. QED
  BY <1>2, <1>3, <1>4, <1>5

---------------------------------------------------------------------------
(* One pass over the rows                                                  *)

(* What a pass has given, and what is left of it, against what it is due   *)
(* to give.                                                                *)
PassInv(it) ==
    LET pass == it.pass
        due  == Rows(it.sql, pass.base)
        n    == Len(pass.got)
    IN  /\ it.sorted \/ it.sql.setting.groupBy = "none"
        /\ Decreasing(pass.got)
        /\ it.sorted \/ n = 0 =>
              /\ n + Len(pass.left) = Len(due)
              /\ \A k \in 1..Len(pass.left) : pass.left[k] = Row(due[n + k], pass.base)
        /\ it.sorted \/ pass.touched = {} =>
              n <= Len(due) /\ \A k \in 1..n : pass.got[k] = due[k]
        /\ Plain(it.sql) /\ n # 0 =>
              \A k \in 1..Len(due) : \/ due[k] \in pass.touched \/ Given(pass.got, due[k])
                                     \/ due[k] < pass.got[n]

PassKept(it, due, n) ==
    /\ it.sorted \/ it.sql.setting.groupBy = "none"
    /\ Decreasing(it.pass.got)
    /\ it.sorted \/ n = 0 =>
          /\ n + Len(it.pass.left) = Len(due)
          /\ \A k \in 1..Len(it.pass.left) : it.pass.left[k] = Row(due[n + k], it.pass.base)
    /\ it.sorted \/ it.pass.touched = {} =>
          n <= Len(due) /\ \A k \in 1..n : it.pass.got[k] = due[k]
    /\ Plain(it.sql) /\ n # 0 =>
          \A k \in 1..Len(due) : \/ due[k] \in it.pass.touched \/ Given(it.pass.got, due[k])
                                 \/ due[k] < it.pass.got[n]

LEMMA PassInvIs ==
    ASSUME NEW it
    PROVE  PassInv(it) <=> PassKept(it, Rows(it.sql, it.pass.base), Len(it.pass.got))
BY DEF PassInv, PassKept

(* A pass that has ended gave what it was due to give.                     *)
PassDone(it) ==
    LET due == Rows(it.sql, it.pass.base)
    IN  it.pass.touched = {} \/ Plain(it.sql) =>
            \A k \in 1..Len(due) : due[k] \in it.pass.touched \/ Given(it.pass.got, due[k])

(* While a statement is active, nobody but its own program changes what it *)
(* reads.                                                                  *)
BaseKept(it, s) == \A id \in Ids : it.pass.base[id] = s[id] \/ id \in it.pass.touched
RowKept(it, s) == /\ it.columns.id \in Ids
                  /\ \/ s[it.columns.id] = it.columns.content
                     \/ it.columns.id \in it.pass.touched

(* The types of the parts of an iterator.                                  *)
LEMMA IteratorIs ==
    ASSUME NEW it \in Iterator
    PROVE  /\ it.sql \in SqlText /\ it.sql.setting \in Setting
           /\ it.pass.base \in Tables /\ it.pass.left \in Seq(RowOf(Ids))
           /\ it.pass.got \in Seq(Ids) /\ it.pass.touched \in SUBSET Ids
           /\ Len(it.pass.got) \in Nat /\ Len(it.pass.left) \in Nat
           /\ DOMAIN it.pass.got = 1..Len(it.pass.got)
           /\ DOMAIN it.pass.left = 1..Len(it.pass.left)
BY DEF Iterator, SqlText, Tables

(* A pass that begins.                                                     *)
LEMMA PassBegins ==
    ASSUME NEW sql \in SqlText, NEW s \in Tables
    PROVE  /\ Pass(sql, s) \in [base : Tables, left : Seq(RowOf(Ids)), got : Seq(Ids),
                                touched : SUBSET Ids]
           /\ Pass(sql, s).base = s /\ Pass(sql, s).got = <<>> /\ Pass(sql, s).touched = {}
           /\ Len(Pass(sql, s).left) = Len(Rows(sql, s))
           /\ \A k \in 1..Len(Rows(sql, s)) : Pass(sql, s).left[k] = Row(Rows(sql, s)[k], s)
<1> DEFINE due == Rows(sql, s)
           left == [i \in DOMAIN due |-> Row(due[i], s)]
<1>1. due \in Seq(Ids) /\ Len(due) \in Nat /\ DOMAIN due = 1..Len(due)
  BY RowsAre
<1> HIDE DEF due
<1>2. \A i \in 1..Len(due) : Row(due[i], s) \in RowOf(Ids)
  BY <1>1 DEF Row, RowOf, Tables
<1>3. left \in Seq(RowOf(Ids)) /\ Len(left) = Len(due)
  BY <1>1, <1>2
<1>4. \A k \in 1..Len(due) : left[k] = Row(due[k], s)
  BY <1>1
<1> HIDE DEF left
<1>5. Pass(sql, s) = [base |-> s, left |-> left, got |-> <<>>, touched |-> {}]
  BY DEF Pass, left, due
<1>6. QED
  BY <1>3, <1>4, <1>5 DEF due

LEMMA NewPassInv ==
    ASSUME NEW it \in Iterator, NEW s \in Tables, it.pass = Pass(it.sql, s),
           it.sorted \/ it.sql.setting.groupBy = "none"
    PROVE  /\ PassInv(it) /\ BaseKept(it, s) /\ Ahead(it, s) = it.pass.left
           /\ it.pass.left = <<>> <=> Rows(it.sql, s) = <<>>
           /\ Len(it.pass.got) = 0 /\ it.pass.touched = {} /\ it.pass.base = s
<1>1. it.sql \in SqlText
  BY IteratorIs
<1> DEFINE due == Rows(it.sql, s)
<1>2. due \in Seq(Ids) /\ Len(due) \in Nat /\ DOMAIN due = 1..Len(due)
  BY <1>1, RowsAre
<1> HIDE DEF due
<1>3. /\ it.pass.base = s /\ it.pass.got = <<>> /\ it.pass.touched = {}
      /\ Len(it.pass.left) = Len(due)
      /\ \A k \in 1..Len(due) : it.pass.left[k] = Row(due[k], s)
  BY <1>1, PassBegins DEF due
<1>4. /\ it.pass.left \in Seq(RowOf(Ids)) /\ Len(it.pass.got) = 0
  BY <1>3, IteratorIs
<1>5. Decreasing(it.pass.got)
  BY <1>3 DEF Decreasing
<1>6. PassInv(it)
  <2>1. /\ 0 + Len(it.pass.left) = Len(due)
        /\ \A k \in 1..Len(it.pass.left) : it.pass.left[k] = Row(due[0 + k], it.pass.base)
    BY <1>2, <1>3
  <2>2. 0 <= Len(due) /\ \A k \in 1..0 : it.pass.got[k] = due[k]
    BY <1>2
  <2>3. due = Rows(it.sql, it.pass.base)
    BY <1>3 DEF due
  <2>4. QED
    BY <1>4, <1>5, <2>1, <2>2, <2>3 DEF PassInv
<1>7. BaseKept(it, s) /\ Ahead(it, s) = it.pass.left
  BY <1>3 DEF BaseKept, Ahead
<1>8. it.pass.left = <<>> <=> due = <<>>
  BY <1>2, <1>3, <1>4
<1>9. QED
  BY <1>3, <1>4, <1>6, <1>7, <1>8 DEF due

(* The walk over an unsorted pass: the rows below the last one.            *)
Below(it, s) ==
    {id \in Matching(it.sql.where, s) : id < it.pass.got[Len(it.pass.got)]}

LEMMA AheadIs ==
    ASSUME NEW it \in Iterator, NEW s \in Tables
    PROVE  /\ Ahead(it, s) \in Seq(RowOf(Ids))
           /\ it.sorted \/ it.pass.got = <<>> => Ahead(it, s) = it.pass.left
           /\ ~ it.sorted /\ it.pass.got # <<>> =>
                 /\ Below(it, s) \in SUBSET Ids
                 /\ Ahead(it, s) = <<>> <=>
                       \/ 0 <= it.sql.setting.limit
                             /\ it.sql.setting.limit <= Len(it.pass.got)
                       \/ Descending(Below(it, s)) = <<>>
                 /\ Ahead(it, s) # <<>> =>
                       Head(Ahead(it, s)) = Row(Descending(Below(it, s))[1], s)
                 /\ it.sql.setting.limit < 0 => \A id \in Ids :
                       (\E i \in DOMAIN Ahead(it, s) : Ahead(it, s)[i].id = id)
                          <=> id \in Below(it, s)
<1> DEFINE limit == it.sql.setting.limit
           over == 0 <= limit /\ limit <= Len(it.pass.got)
           down == Descending(Below(it, s))
           ids == IF over THEN <<>> ELSE down
           rows == [i \in DOMAIN ids |-> Row(ids[i], s)]
<1>1. it.sorted \/ it.pass.got = <<>> => Ahead(it, s) = it.pass.left
  BY DEF Ahead
<1>2. ~ it.sorted /\ it.pass.got # <<>> => Ahead(it, s) = rows
  BY DEF Ahead, Below
<1>3. Below(it, s) \in SUBSET Ids
  BY DEF Below, Matching
<1>4. /\ down \in Seq(Below(it, s)) /\ Len(down) \in Nat /\ DOMAIN down = 1..Len(down)
      /\ \A i \in 1..Len(down) : down[i] \in Below(it, s)
      /\ \A id \in Below(it, s) : \E i \in 1..Len(down) : down[i] = id
  BY <1>3, DescendingIs
<1>5. limit \in Int /\ Len(it.pass.got) \in Nat
  BY IteratorIs DEF Setting
<1> HIDE DEF down, limit
<1>6. ids \in Seq(Ids) /\ Len(ids) \in Nat /\ DOMAIN ids = 1..Len(ids)
      /\ \A i \in 1..Len(ids) : ids[i] \in Ids
  <2>1. \A i \in 1..Len(down) : down[i] \in Ids
    BY <1>3, <1>4
  <2>2. down \in Seq(Ids)
    BY <1>4, <2>1
  <2>3. QED
    BY <1>4, <2>1, <2>2
<1>7. over => ids = <<>>
  OBVIOUS
<1>8. ~ over => ids = down
  OBVIOUS
<1> HIDE DEF ids, over
<1>9. \A i \in 1..Len(ids) : Row(ids[i], s) \in RowOf(Ids)
  BY <1>6 DEF Row, RowOf, Tables
<1>10. rows \in Seq(RowOf(Ids)) /\ Len(rows) = Len(ids) /\ DOMAIN rows = 1..Len(ids)
  BY <1>6, <1>9
<1>11. Ahead(it, s) \in Seq(RowOf(Ids))
  BY <1>1, <1>2, <1>10, IteratorIs
<1>12. rows = <<>> <=> ids = <<>>
  BY <1>6, <1>10
<1>13. rows # <<>> => Head(rows) = Row(ids[1], s)
  <2>1. SUFFICES ASSUME rows # <<>> PROVE Head(rows) = Row(ids[1], s)
    OBVIOUS
  <2>2. 1 \in 1..Len(ids)
    BY <1>6, <1>10, <2>1
  <2>3. Head(rows) = rows[1]
    BY <1>10, <2>1
  <2>4. QED
    BY <1>6, <2>2, <2>3
<1>14. \A i \in 1..Len(ids) : rows[i].id = ids[i]
  BY <1>6 DEF Row
<1> HIDE DEF rows
<1>15. (\/ over \/ down = <<>>) <=> rows = <<>>
  BY <1>7, <1>8, <1>12
<1>16. rows # <<>> => Head(rows) = Row(down[1], s)
  BY <1>7, <1>8, <1>12, <1>13
<1>17. ASSUME limit < 0, NEW id \in Ids
       PROVE  (\E i \in DOMAIN rows : rows[i].id = id) <=> id \in Below(it, s)
  <2>1. ids = down
    BY <1>5, <1>8, <1>17 DEF over
  <2>2. QED
    BY <1>4, <1>10, <1>14, <2>1
<1>18. QED
  BY <1>1, <1>2, <1>3, <1>11, <1>15, <1>16, <1>17 DEF limit, down, over

(* A row is delivered: what changes in the iterator.                       *)
LEMMA DeliveredIs ==
    ASSUME NEW it \in Iterator, NEW s \in Tables, Ahead(it, s) # <<>>,
           NEW row, row = Head(Ahead(it, s)), NEW d, d = Delivered(it, s)
    PROVE  /\ row \in RowOf(Ids) /\ row.id \in Ids
           /\ d \in Iterator
           /\ d.stmt = "active" /\ d.atomic = it.atomic /\ d.sorted = it.sorted
           /\ d.sql = it.sql /\ d.columns = row
           /\ d.pass.base = it.pass.base /\ d.pass.touched = it.pass.touched
           /\ d.pass.got = Append(it.pass.got, row.id)
           /\ d.pass.left = IF it.pass.left = <<>> THEN it.pass.left ELSE Tail(it.pass.left)
<1>1. row \in RowOf(Ids) /\ row.id \in Ids
  <2>1. Ahead(it, s) \in Seq(RowOf(Ids))
    BY AheadIs
  <2>2. row \in RowOf(Ids)
    BY <2>1
  <2>3. QED
    BY <2>2 DEF RowOf
<1>2. Append(it.pass.got, row.id) \in Seq(Ids)
  BY <1>1, IteratorIs
<1> DEFINE left == IF it.pass.left = <<>> THEN it.pass.left ELSE Tail(it.pass.left)
           got == Append(it.pass.got, row.id)
<1>3. left \in Seq(RowOf(Ids))
  BY IteratorIs
<1>4. row \in RowOf(Ids \cup {NULL})
  BY <1>1 DEF RowOf
<1>5. d = [it EXCEPT !.stmt = "active", !.columns = row, !.pass.got = got, !.pass.left = left]
  BY DEF Delivered
<1> HIDE DEF left, got
<1>6. PICK pass : pass = [it.pass EXCEPT !.got = got, !.left = left]
  OBVIOUS
<1>7. d = [it EXCEPT !.stmt = "active", !.columns = row, !.pass = pass]
  BY <1>5, <1>6, Zenon
<1>8. /\ pass \in [base : [Ids -> Contents \cup {NULL}], left : Seq(RowOf(Ids)),
                  got : Seq(Ids), touched : SUBSET Ids]
      /\ pass.base = it.pass.base /\ pass.touched = it.pass.touched
      /\ pass.got = got /\ pass.left = left
  <2>1. it.pass \in [base : [Ids -> Contents \cup {NULL}], left : Seq(RowOf(Ids)),
                     got : Seq(Ids), touched : SUBSET Ids]
    BY DEF Iterator
  <2>2. QED
    BY ONLY <1>2, <1>3, <1>6, <2>1 DEF got
<1>9. /\ d \in Iterator
      /\ d.stmt = "active" /\ d.atomic = it.atomic /\ d.sorted = it.sorted
      /\ d.sql = it.sql /\ d.columns = row /\ d.pass = pass
  <2>1. it \in Iterator
    OBVIOUS
  <2>2. QED
    BY ONLY <1>4, <1>7, <1>8, <2>1 DEF Iterator
<1>10. QED
  BY <1>1, <1>8, <1>9 DEF left, got

(* The rows that are left are the ones due after the first n.              *)
Owed(rest, due, n, base) ==
    /\ n + Len(rest) = Len(due)
    /\ \A k \in 1..Len(rest) : rest[k] = Row(due[n + k], base)

(* What a step of a sorted pass, or the first of any, delivers is the next *)
(* of the rows that are due.                                               *)
LEMMA NextDue ==
    ASSUME NEW it \in Iterator, NEW s \in Tables, PassInv(it), Ahead(it, s) # <<>>,
           it.sorted \/ Len(it.pass.got) = 0, NEW n, n = Len(it.pass.got),
           NEW due, due = Rows(it.sql, it.pass.base)
    PROVE  /\ n + 1 \in 1..Len(due)
           /\ Head(Ahead(it, s)) = Row(due[n + 1], it.pass.base)
           /\ it.pass.left # <<>>
           /\ Owed(Tail(it.pass.left), due, n + 1, it.pass.base)
<1>1. /\ it.pass.left \in Seq(RowOf(Ids)) /\ it.pass.got \in Seq(Ids)
      /\ Len(it.pass.left) \in Nat /\ n \in Nat
  BY IteratorIs
<1>2. Ahead(it, s) = it.pass.left
  BY <1>1, AheadIs
<1>3. /\ n + Len(it.pass.left) = Len(due)
      /\ \A k \in 1..Len(it.pass.left) : it.pass.left[k] = Row(due[n + k], it.pass.base)
  BY DEF PassInv
<1> DEFINE left == it.pass.left
           m == Len(left)
           rest == Tail(left)
<1>4. left # <<>> /\ m \in Nat \ {0} /\ Head(left) = left[1]
  BY <1>1, <1>2
<1>5. Len(rest) = m - 1 /\ \A k \in 1..(m - 1) : rest[k] = left[k + 1]
  BY <1>1, <1>4
<1>6. n + m = Len(due) /\ \A k \in 1..m : left[k] = Row(due[n + k], it.pass.base)
  BY <1>3
<1> HIDE DEF left, m, rest
<1>7. \A k \in 1..Len(rest) : rest[k] = Row(due[n + 1 + k], it.pass.base)
  <2>1. ASSUME NEW k \in 1..(m - 1) PROVE rest[k] = Row(due[n + 1 + k], it.pass.base)
    <3>0. n \in Int /\ k \in Int /\ m \in Int
      BY <1>1, <1>4
    <3>1. k + 1 \in 1..m
      BY <3>0
    <3>2. \A i, j \in Int : i + (j + 1) = i + 1 + j
      OBVIOUS
    <3>3. n + (k + 1) = n + 1 + k
      BY <3>0, <3>2
    <3>4. QED
      BY <1>5, <1>6, <3>1, <3>3
  <2>2. QED
    BY <1>5, <2>1
<1>8. Head(left) = Row(due[n + 1], it.pass.base)
  <2>1. 1 \in 1..m
    BY <1>4
  <2>2. QED
    BY <1>4, <1>6, <2>1
<1>9. n + 1 \in 1..Len(due) /\ n + 1 + Len(rest) = Len(due)
  <2>1. n \in Nat /\ m \in Nat /\ m # 0
    BY <1>1, <1>4
  <2>2. Len(rest) = m - 1 /\ Len(due) = n + m
    BY <1>5, <1>6
  <2>3. n + 1 \in 1..(n + m) /\ n + 1 + (m - 1) = n + m
    BY <2>1
  <2>4. QED
    BY <2>2, <2>3
<1>10. Owed(rest, due, n + 1, it.pass.base)
  BY ONLY <1>7, <1>9 DEF Owed
<1>11. QED
  BY <1>2, <1>4, <1>8, <1>9, <1>10 DEF left, rest

(* What a step of a walk delivers is the highest matching event below the  *)
(* last one.                                                               *)
LEMMA NextWalked ==
    ASSUME NEW it \in Iterator, NEW s \in Tables, Ahead(it, s) # <<>>,
           ~ it.sorted, Len(it.pass.got) # 0,
           NEW id, id = Head(Ahead(it, s)).id
    PROVE  /\ id \in Below(it, s) /\ \A other \in Below(it, s) : other <= id
           /\ Head(Ahead(it, s)) = Row(id, s)
           /\ id = Descending(Below(it, s))[1] /\ Descending(Below(it, s)) # <<>>
<1> DEFINE down == Descending(Below(it, s))
<1>1. it.pass.got # <<>>
  OBVIOUS
<1>2. /\ Below(it, s) \in SUBSET Ids /\ down # <<>>
      /\ Head(Ahead(it, s)) = Row(down[1], s)
  BY <1>1, AheadIs
<1>3. down[1] \in Below(it, s) /\ \A other \in Below(it, s) : other <= down[1]
  BY <1>2, HighestBelow
<1> HIDE DEF down
<1>4. id = down[1]
  BY <1>2 DEF Row
<1>5. QED
  BY <1>2, <1>3, <1>4 DEF down

(* A walk through a table that does not change gives what is due.          *)
LEMMA WalkGivesDue ==
    ASSUME NEW it \in Iterator, NEW s \in Tables, PassInv(it), it.pass.base = s,
           it.pass.touched = {}, ~ it.sorted, NEW n, n = Len(it.pass.got), n # 0,
           NEW due, due = Rows(it.sql, s)
    PROVE  /\ Ahead(it, s) = <<>> => n = Len(due)
           /\ Ahead(it, s) # <<>> => n + 1 \in 1..Len(due)
                                     /\ Head(Ahead(it, s)).id = due[n + 1]
<1> DEFINE M == Matching(it.sql.where, s)
           all == Descending(M)
           o == it.sql.setting.offset
           limit == it.sql.setting.limit
<1>1. /\ it.sql \in SqlText /\ it.sql.setting \in Setting /\ n \in Nat
      /\ o \in Nat /\ limit \in Int /\ it.sql.setting.groupBy = "none"
      /\ it.pass.got # <<>>
  BY IteratorIs DEF PassInv, Setting
<1>2. Candidates(it.sql, s) = M /\ M \in SUBSET Ids
  BY <1>1, CandidatesMatch
<1>3. due = Page(it.sql.setting, M)
  BY <1>2 DEF Rows
<1>4. /\ Len(due) \in Nat
      /\ \A k \in 1..Len(due) : o + k \in 1..Len(all) /\ due[k] = all[o + k]
      /\ \A k \in Nat \ {0} :
            k <= Len(due) <=> o + k <= Len(all) /\ (limit < 0 \/ k <= limit)
  <2> HIDE DEF M
  <2>1. PartOf(due, all, it.sql.setting)
    BY <1>1, <1>2, <1>3, PageIsPart
  <2>2. QED
    BY ONLY <2>1 DEF PartOf
<1>5. n <= Len(due) /\ n \in 1..Len(due) /\ it.pass.got[n] = due[n]
  <2>1. n <= Len(due) /\ \A k \in 1..n : it.pass.got[k] = due[k]
    BY DEF PassInv
  <2>2. n # 0
    <3>1. it.pass.got \in Seq(Ids)
      BY IteratorIs
    <3>2. QED
      BY <1>1, <3>1
  <2>3. n \in 1..n /\ n \in 1..Len(due)
    <3>1. Len(due) \in Nat
      BY <1>4
    <3>2. QED
      BY <1>1, <2>1, <2>2, <3>1
  <2>4. QED
    BY <2>1, <2>3
<1>6. o + n \in 1..Len(all) /\ it.pass.got[n] = all[o + n]
  BY <1>4, <1>5
<1>7. Below(it, s) = {id \in M : id < all[o + n]}
  BY <1>6 DEF Below
<1>8. Len(all) \in Nat
  <2> HIDE DEF M
  <2>1. QED
    BY <1>2, DescendingIs
<1> DEFINE down == Descending(Below(it, s))
<1>9. /\ down = <<>> <=> o + n = Len(all)
      /\ down # <<>> => o + n + 1 \in 1..Len(all) /\ down[1] = all[o + n + 1]
  <2> HIDE DEF M
  <2>1. QED
    BY <1>2, <1>6, <1>7, NextBelow
<1>10. Ahead(it, s) = <<>> <=> (0 <= limit /\ limit <= n) \/ down = <<>>
  BY <1>1, AheadIs
<1>11. Ahead(it, s) # <<>> => Head(Ahead(it, s)).id = down[1]
  BY <1>1, NextWalked
<1> HIDE DEF M, all, o, limit, down
<1>12. /\ n + 1 \in Nat \ {0} /\ o + (n + 1) = o + n + 1
       /\ n + 1 <= Len(due) <=> o + n + 1 <= Len(all) /\ (limit < 0 \/ n + 1 <= limit)
  <2>1. n + 1 \in Nat \ {0} /\ o + (n + 1) = o + n + 1
    <3>1. n \in Nat /\ o \in Nat
      BY <1>1
    <3>2. QED
      BY ONLY <3>1
  <2>2. QED
    BY <1>4, <2>1
<1>13. ASSUME Ahead(it, s) = <<>> PROVE n = Len(due)
  BY <1>1, <1>4, <1>5, <1>8, <1>9, <1>10, <1>12, <1>13
<1>14. ASSUME Ahead(it, s) # <<>> PROVE n + 1 \in 1..Len(due) /\ down[1] = due[n + 1]
  <2>1. /\ o + n + 1 \in 1..Len(all) /\ down[1] = all[o + n + 1]
        /\ limit < 0 \/ n + 1 <= limit
    BY <1>1, <1>9, <1>10, <1>14
  <2>2. n + 1 \in 1..Len(due)
    BY <1>1, <1>4, <1>8, <1>12, <2>1
  <2>3. QED
    BY <1>4, <1>12, <2>1, <2>2
<1>15. QED
  BY <1>11, <1>13, <1>14

(* A step that delivers a row keeps the pass in order.                     *)
LEMMA AppendKeepsOrder ==
    ASSUME NEW got \in Seq(Ids), NEW id \in Ids, Decreasing(got),
           got # <<>> => id < got[Len(got)]
    PROVE  /\ Decreasing(Append(got, id))
           /\ Len(Append(got, id)) = Len(got) + 1
           /\ Append(got, id)[Len(got) + 1] = id
           /\ \A k \in 1..Len(got) : Append(got, id)[k] = got[k]
           /\ Given(Append(got, id), id)
           /\ \A other : Given(got, other) => Given(Append(got, id), other)
<1> DEFINE new == Append(got, id)
           n == Len(got)
<1>1. n \in Nat /\ DOMAIN got = 1..n
  OBVIOUS
<1>2. /\ new \in Seq(Ids) /\ Len(new) = n + 1 /\ DOMAIN new = 1..(n + 1)
      /\ new[n + 1] = id /\ \A k \in 1..n : new[k] = got[k]
  OBVIOUS
<1>3. got = <<>> <=> n = 0
  OBVIOUS
<1>4. \A k \in 1..n : got[k] \in Nat
  <2>1. \A k \in 1..n : got[k] \in Ids
    OBVIOUS
  <2>2. QED
    BY <2>1, IdsAssumption
<1>5. id \in Nat
  BY IdsAssumption
<1>6. \A i, j \in 1..n : i < j => got[i] > got[j]
  BY <1>1 DEF Decreasing
<1> HIDE DEF n, new
<1>7. Decreasing(new)
  <2>1. SUFFICES ASSUME NEW i \in 1..(n + 1), NEW j \in 1..(n + 1), i < j
                 PROVE  new[i] > new[j]
    BY <1>2 DEF Decreasing
  <2>2. i \in 1..n /\ n \in 1..n /\ n # 0
    BY <1>1, <2>1
  <2>3. CASE j = n + 1
    <3>1. new[j] = id /\ new[i] = got[i] /\ id < got[n] /\ got[n] \in Nat /\ got[i] \in Nat
      BY <1>2, <1>3, <1>4, <2>2, <2>3 DEF n
    <3>2. i = n \/ got[i] > got[n]
      BY <1>1, <1>6, <2>2
    <3>3. QED
      BY <1>5, <3>1, <3>2
  <2>4. CASE j # n + 1
    <3>1. j \in 1..n
      BY <1>1, <2>4
    <3>2. QED
      BY <1>2, <1>6, <2>1, <2>2, <3>1
  <2>5. QED
    BY <2>3, <2>4
<1>8. Given(new, id)
  <2>1. n + 1 \in DOMAIN new
    BY <1>1, <1>2
  <2>2. QED
    BY <1>2, <2>1 DEF Given
<1>9. ASSUME NEW other, Given(got, other) PROVE Given(new, other)
  <2>1. PICK k \in 1..n : got[k] = other
    BY <1>1, <1>9 DEF Given
  <2>2. k \in 1..(n + 1)
    BY <1>1
  <2>3. QED
    BY <1>2, <2>1, <2>2 DEF Given
<1>10. QED
  BY <1>2, <1>7, <1>8, <1>9 DEF new, n

(* Where the table has not changed since a pass began, it is its base.     *)
LEMMA BaseIsTable ==
    ASSUME NEW it \in Iterator, NEW s \in Tables, BaseKept(it, s), it.pass.touched = {}
    PROVE  it.pass.base = s
<1>1. it.pass.base \in Tables
  BY IteratorIs
<1>2. \A id \in Ids : it.pass.base[id] = s[id]
  BY DEF BaseKept
<1>3. QED
  BY <1>1, <1>2 DEF Tables

(* Where the rows delivered so far are the first that are due, so is the   *)
(* next one.                                                               *)
LEMMA DeliversDue ==
    ASSUME NEW it \in Iterator, NEW s \in Tables, PassInv(it), BaseKept(it, s),
           Ahead(it, s) # <<>>, NEW n, n = Len(it.pass.got),
           it.sorted \/ n = 0 \/ it.pass.touched = {},
           NEW due, due = Rows(it.sql, it.pass.base)
    PROVE  /\ n + 1 \in 1..Len(due)
           /\ Head(Ahead(it, s)).id = due[n + 1]
           /\ \A k \in 1..n : it.pass.got[k] = due[k]
<1>1. CASE it.sorted \/ n = 0
  <2>1. n + 1 \in 1..Len(due) /\ Head(Ahead(it, s)) = Row(due[n + 1], it.pass.base)
    BY <1>1, NextDue
  <2>2. \A k \in 1..n : it.pass.got[k] = due[k]
    <3>1. it.sorted => \A k \in 1..n : it.pass.got[k] = due[k]
      BY DEF PassInv
    <3>2. n = 0 => \A k \in 1..n : it.pass.got[k] = due[k]
      OBVIOUS
    <3>3. QED
      BY <1>1, <3>1, <3>2
  <2>3. QED
    BY <2>1, <2>2 DEF Row
<1>2. CASE ~ it.sorted /\ n # 0
  <2>1. it.pass.touched = {} /\ it.pass.base = s
    BY <1>2, BaseIsTable
  <2>2. n + 1 \in 1..Len(due) /\ Head(Ahead(it, s)).id = due[n + 1]
    BY <1>2, <2>1, WalkGivesDue
  <2>3. \A k \in 1..n : it.pass.got[k] = due[k]
    BY <2>1 DEF PassInv
  <2>4. QED
    BY <2>2, <2>3
<1>3. QED
  BY <1>1, <1>2

(* The row delivered comes after those before it.                          *)
LEMMA DeliversLower ==
    ASSUME NEW it \in Iterator, NEW s \in Tables, PassInv(it), BaseKept(it, s),
           Ahead(it, s) # <<>>, NEW n, n = Len(it.pass.got), n # 0
    PROVE  Head(Ahead(it, s)).id < it.pass.got[n]
<1> DEFINE due == Rows(it.sql, it.pass.base)
<1>1. CASE it.sorted
  <2>1. /\ n + 1 \in 1..Len(due) /\ Head(Ahead(it, s)).id = due[n + 1]
        /\ \A k \in 1..n : it.pass.got[k] = due[k]
    BY <1>1, DeliversDue
  <2>2. n \in Nat /\ n \in 1..n
    BY IteratorIs
  <2>3. Len(due) \in Nat /\ DOMAIN due = 1..Len(due) /\ Decreasing(due) /\ due \in Seq(Ids)
    BY IteratorIs, RowsAre
  <2> HIDE DEF due
  <2>4. n \in 1..Len(due) /\ n < n + 1
    BY <2>1, <2>2, <2>3
  <2>5. due[n] > due[n + 1]
    BY <2>1, <2>3, <2>4 DEF Decreasing
  <2>6. due[n] \in Nat /\ due[n + 1] \in Nat
    <3>1. due[n] \in Ids /\ due[n + 1] \in Ids
      BY <2>1, <2>3, <2>4
    <3>2. QED
      BY <3>1, IdsAssumption
  <2>7. QED
    BY <2>1, <2>2, <2>5, <2>6
<1>2. CASE ~ it.sorted
  BY <1>2, NextWalked DEF Below
<1>3. QED
  BY <1>1, <1>2

(* The row delivered is what the table has, or its program touched it.     *)
LEMMA DeliversTable ==
    ASSUME NEW it \in Iterator, NEW s \in Tables, PassInv(it), BaseKept(it, s),
           Ahead(it, s) # <<>>, NEW row, row = Head(Ahead(it, s)),
           NEW n, n = Len(it.pass.got)
    PROVE  \/ s[row.id] = row.content /\ Admits(it.sql.where, s[row.id])
           \/ row.id \in it.pass.touched /\ (it.sorted \/ n = 0)
<1> DEFINE due == Rows(it.sql, it.pass.base)
<1>1. row.id \in Ids
  BY DeliveredIs
<1>2. CASE it.sorted \/ n = 0
  <2>1. n + 1 \in 1..Len(due) /\ row = Row(due[n + 1], it.pass.base)
    BY <1>2, NextDue
  <2>2. Admits(it.sql.where, it.pass.base[due[n + 1]])
    BY <2>1, IteratorIs, RowsAre
  <2>3. row.id = due[n + 1] /\ row.content = it.pass.base[due[n + 1]]
    BY <2>1 DEF Row
  <2>4. it.pass.base[row.id] = s[row.id] \/ row.id \in it.pass.touched
    BY <1>1 DEF BaseKept
  <2>5. QED
    BY <1>2, <2>2, <2>3, <2>4
<1>3. CASE ~ it.sorted /\ n # 0
  <2>1. row.id \in Below(it, s) /\ row = Row(row.id, s)
    BY <1>3, NextWalked
  <2>2. QED
    BY <2>1 DEF Row, Below, Matching
<1>4. QED
  BY <1>2, <1>3

(* A step that delivers a row keeps what is known of the pass.             *)
LEMMA DeliverKeepsPass ==
    ASSUME NEW it \in Iterator, NEW s \in Tables, PassInv(it), BaseKept(it, s),
           Ahead(it, s) # <<>>, NEW d, d = Delivered(it, s)
    PROVE  PassInv(d)
<1>0. PICK n, due, row, base :
          /\ n = Len(it.pass.got) /\ base = it.pass.base
          /\ due = Rows(it.sql, it.pass.base) /\ row = Head(Ahead(it, s))
  OBVIOUS
<1>1. /\ it.pass.got \in Seq(Ids) /\ it.pass.left \in Seq(RowOf(Ids)) /\ n \in Nat
      /\ it.sql \in SqlText /\ base \in Tables
  BY <1>0, IteratorIs
<1>2. /\ row.id \in Ids /\ d.sorted = it.sorted /\ d.sql = it.sql
      /\ d.pass.base = base /\ d.pass.touched = it.pass.touched
      /\ d.pass.got = Append(it.pass.got, row.id)
      /\ d.pass.left = IF it.pass.left = <<>> THEN it.pass.left ELSE Tail(it.pass.left)
  BY <1>0, DeliveredIs
<1>3. /\ due \in Seq(Ids) /\ Len(due) \in Nat /\ DOMAIN due = 1..Len(due) /\ Decreasing(due)
      /\ \A k \in 1..Len(due) : Admits(it.sql.where, base[due[k]])
  BY <1>0, <1>1, RowsAre
<1>4. it.pass.got # <<>> => row.id < it.pass.got[Len(it.pass.got)]
  BY <1>0, <1>1, DeliversLower
<1>5. Decreasing(it.pass.got)
  BY DEF PassInv
<1>6. /\ Decreasing(d.pass.got)
      /\ Len(d.pass.got) = n + 1 /\ d.pass.got[n + 1] = row.id
      /\ \A k \in 1..n : d.pass.got[k] = it.pass.got[k]
      /\ Given(d.pass.got, row.id)
      /\ \A other : Given(it.pass.got, other) => Given(d.pass.got, other)
  BY <1>0, <1>1, <1>2, <1>4, <1>5, AppendKeepsOrder
<1>7. it.sorted \/ it.sql.setting.groupBy = "none"
  BY DEF PassInv
<1>8. ASSUME it.sorted
      PROVE  /\ n + 1 + Len(d.pass.left) = Len(due)
             /\ \A k \in 1..Len(d.pass.left) : d.pass.left[k] = Row(due[n + 1 + k], base)
  <2>1. /\ it.pass.left # <<>>
        /\ \A k \in 1..Len(Tail(it.pass.left)) :
              Tail(it.pass.left)[k] = Row(due[n + 1 + k], base)
        /\ n + 1 + Len(Tail(it.pass.left)) = Len(due)
    <3>1. it.pass.left # <<>> /\ Owed(Tail(it.pass.left), due, n + 1, base)
      BY <1>0, <1>8, NextDue
    <3>2. QED
      BY ONLY <3>1 DEF Owed
  <2>2. d.pass.left = Tail(it.pass.left)
    BY <1>2, <2>1
  <2>3. QED
    BY <2>1, <2>2
<1>9. ASSUME it.sorted \/ n = 0 \/ it.pass.touched = {}
      PROVE  /\ n + 1 <= Len(due) /\ n + 1 \in 1..Len(due)
             /\ \A k \in 1..(n + 1) : d.pass.got[k] = due[k]
  <2>1. /\ n + 1 \in 1..Len(due) /\ row.id = due[n + 1]
        /\ \A k \in 1..n : it.pass.got[k] = due[k]
    BY <1>0, <1>9, DeliversDue
  <2>2. ASSUME NEW k \in 1..(n + 1) PROVE d.pass.got[k] = due[k]
    <3>1. CASE k = n + 1
      BY <1>6, <2>1, <3>1
    <3>2. CASE k # n + 1
      <4>1. k \in 1..n
        BY <1>1, <3>2
      <4>2. QED
        BY <1>6, <2>1, <4>1
    <3>3. QED
      BY <3>1, <3>2
  <2>3. n + 1 <= Len(due)
    BY <1>3, <2>1
  <2>4. QED
    BY <2>1, <2>2, <2>3
<1>10. ASSUME Plain(it.sql), NEW k \in 1..Len(due)
       PROVE  \/ due[k] \in it.pass.touched \/ Given(d.pass.got, due[k])
              \/ due[k] < row.id
  <2>0. due[k] \in Ids /\ row.id \in Nat /\ due[k] \in Nat
    <3>1. due[k] \in Ids
      BY <1>3
    <3>2. QED
      BY <1>2, <3>1, IdsAssumption
  <2>1. CASE it.sorted \/ n = 0
    <3>1. /\ n + 1 \in 1..Len(due)
          /\ \A j \in 1..(n + 1) : d.pass.got[j] = due[j]
      BY <1>9, <2>1
    <3>2. CASE k <= n + 1
      <4>1. k \in 1..(n + 1) /\ k \in DOMAIN d.pass.got
        <5>1. k \in 1..(n + 1)
          BY <1>1, <1>3, <3>2
        <5>2. d.pass.got \in Seq(Ids)
          BY <1>1, <1>2
        <5>3. QED
          BY <1>6, <5>1, <5>2
      <4>2. QED
        BY <3>1, <4>1 DEF Given
    <3>3. CASE k > n + 1
      <4>1. due[n + 1] > due[k]
        BY <1>3, <3>1, <3>3 DEF Decreasing
      <4>2. row.id = due[n + 1]
        <5>1. n + 1 \in 1..(n + 1)
          BY <1>1
        <5>2. QED
          BY <1>6, <3>1, <5>1
      <4>3. QED
        BY <2>0, <4>1, <4>2
    <3>4. QED
      BY <1>1, <1>3, <3>2, <3>3
  <2>2. CASE ~ it.sorted /\ n # 0
    <3>1. \/ due[k] \in it.pass.touched \/ Given(it.pass.got, due[k])
          \/ due[k] < it.pass.got[n]
      BY <1>0, <1>10, <2>2 DEF PassInv
    <3>2. CASE due[k] < it.pass.got[n] /\ due[k] \notin it.pass.touched
      <4>1. base[due[k]] = s[due[k]]
        BY <1>0, <2>0, <3>2 DEF BaseKept
      <4>2. Admits(it.sql.where, s[due[k]])
        BY <1>3, <4>1
      <4>3. due[k] \in Below(it, s)
        BY <1>0, <2>0, <3>2, <4>2 DEF Below, Matching
      <4>4. due[k] <= row.id
        BY <1>0, <2>2, <4>3, NextWalked
      <4>5. due[k] = row.id \/ due[k] < row.id
        <5>1. QED
          BY <2>0, <4>4
      <4>6. QED
        BY <1>6, <4>5
    <3>3. QED
      BY <1>6, <3>1, <3>2
  <2>3. QED
    BY <2>1, <2>2
<1>11. due = Rows(d.sql, d.pass.base) /\ Len(d.pass.got) # 0
  BY <1>0, <1>1, <1>2, <1>6
<1>12. it.sorted \/ it.pass.touched = {} =>
           n + 1 <= Len(due) /\ \A k \in 1..(n + 1) : d.pass.got[k] = due[k]
  BY <1>9
<1>13. PassKept(d, due, n + 1)
  <2>1. d.sorted \/ d.sql.setting.groupBy = "none"
    BY <1>2, <1>7
  <2>2. n + 1 # 0 /\ n \in Nat
    BY <1>1
  <2>3. d.sorted \/ n + 1 = 0 =>
            /\ n + 1 + Len(d.pass.left) = Len(due)
            /\ \A k \in 1..Len(d.pass.left) :
                  d.pass.left[k] = Row(due[n + 1 + k], d.pass.base)
    BY <1>2, <1>8, <2>2
  <2>4. d.sorted \/ d.pass.touched = {} =>
            n + 1 <= Len(due) /\ \A k \in 1..(n + 1) : d.pass.got[k] = due[k]
    BY <1>2, <1>12
  <2>5. Plain(d.sql) /\ n + 1 # 0 =>
            \A k \in 1..Len(due) :
               \/ due[k] \in d.pass.touched \/ Given(d.pass.got, due[k])
               \/ due[k] < d.pass.got[n + 1]
    BY <1>2, <1>6, <1>10
  <2>6. QED
    BY ONLY <1>6, <2>1, <2>3, <2>4, <2>5 DEF PassKept
<1>14. QED
  BY <1>6, <1>11, <1>13, PassInvIs

(* After a step an iterator stands at a row of the table, or at one that    *)
(* its program touched.                                                    *)
LEMMA DeliverKeepsRow ==
    ASSUME NEW it \in Iterator, NEW s \in Tables, PassInv(it), BaseKept(it, s),
           Ahead(it, s) # <<>>, NEW d, d = Delivered(it, s)
    PROVE  BaseKept(d, s) /\ RowKept(d, s) /\ Len(d.pass.got) = Len(it.pass.got) + 1
<1> DEFINE row == Head(Ahead(it, s))
<1>1. /\ row.id \in Ids /\ d.columns = row
      /\ d.pass.base = it.pass.base /\ d.pass.touched = it.pass.touched
      /\ d.pass.got = Append(it.pass.got, row.id)
  BY DeliveredIs
<1>2. s[row.id] = row.content \/ row.id \in it.pass.touched
  BY DeliversTable
<1> HIDE DEF row
<1>3. Len(d.pass.got) = Len(it.pass.got) + 1
  BY <1>1, IteratorIs
<1>4. QED
  BY <1>1, <1>2, <1>3 DEF BaseKept, RowKept

(* A pass with nothing ahead has given what it was due to give.            *)
LEMMA EndGivesAll ==
    ASSUME NEW it \in Iterator, NEW s \in Tables, PassInv(it), BaseKept(it, s),
           Ahead(it, s) = <<>>
    PROVE  PassDone(it)
<1> DEFINE n == Len(it.pass.got)
           due == Rows(it.sql, it.pass.base)
<1>1. /\ it.pass.got \in Seq(Ids) /\ it.pass.left \in Seq(RowOf(Ids)) /\ n \in Nat
      /\ it.sql \in SqlText /\ it.pass.base \in Tables
      /\ DOMAIN it.pass.got = 1..n
  BY IteratorIs
<1>2. /\ due \in Seq(Ids) /\ Len(due) \in Nat
      /\ \A k \in 1..Len(due) : Admits(it.sql.where, it.pass.base[due[k]])
  BY <1>1, RowsAre
<1>3. CASE it.sorted \/ n = 0
  <2>1. it.pass.left = <<>>
    BY <1>1, <1>3, AheadIs
  <2>2. n = Len(due)
    <3>1. n + Len(it.pass.left) = Len(due) /\ Len(it.pass.left) = 0
      BY <1>3, <2>1 DEF PassInv
    <3>2. QED
      BY <1>1, <1>2, <3>1
  <2>3. \A k \in 1..n : it.pass.got[k] = due[k]
    <3>1. it.sorted => \A k \in 1..n : it.pass.got[k] = due[k]
      BY DEF PassInv
    <3>2. n = 0 => \A k \in 1..n : it.pass.got[k] = due[k]
      OBVIOUS
    <3>3. QED
      BY <1>3, <3>1, <3>2
  <2> HIDE DEF n
  <2>4. QED
    BY <1>1, <2>2, <2>3 DEF PassDone, Given
<1>4. CASE ~ it.sorted /\ n # 0 /\ it.pass.touched = {}
  <2>1. it.pass.base = s
    BY <1>4, BaseIsTable
  <2>2. n = Len(due)
    BY <1>4, <2>1, WalkGivesDue
  <2>3. \A k \in 1..n : it.pass.got[k] = due[k]
    BY <1>4 DEF PassInv
  <2> HIDE DEF n
  <2>4. QED
    BY <1>1, <2>2, <2>3 DEF PassDone, Given
<1>5. CASE ~ it.sorted /\ n # 0 /\ Plain(it.sql)
  <2>1. Below(it, s) = {}
    <3>1. it.pass.got # <<>> /\ ~ (0 <= it.sql.setting.limit)
      BY <1>5 DEF Plain, NewQuery
    <3>2. Descending(Below(it, s)) = <<>> /\ Below(it, s) \in SUBSET Ids
      BY <1>5, <3>1, AheadIs
    <3>3. QED
      BY <3>2, DescendingIs
  <2>2. ASSUME NEW k \in 1..Len(due)
        PROVE  due[k] \in it.pass.touched \/ Given(it.pass.got, due[k])
    <3>0. due[k] \in Ids
      BY <1>2
    <3>1. \/ due[k] \in it.pass.touched \/ Given(it.pass.got, due[k])
          \/ due[k] < it.pass.got[n]
      BY <1>5 DEF PassInv
    <3>2. CASE due[k] < it.pass.got[n] /\ due[k] \notin it.pass.touched
      <4>1. it.pass.base[due[k]] = s[due[k]]
        BY <3>0, <3>2 DEF BaseKept
      <4>2. Admits(it.sql.where, s[due[k]])
        BY <1>2, <4>1
      <4>3. due[k] \in Below(it, s)
        BY <3>0, <3>2, <4>2 DEF Below, Matching
      <4>4. QED
        BY <2>1, <4>3
    <3>3. QED
      BY <3>1, <3>2
  <2>3. QED
    BY <2>2 DEF PassDone
<1>6. CASE ~ it.sorted /\ n # 0 /\ it.pass.touched # {} /\ ~ Plain(it.sql)
  BY <1>6 DEF PassDone
<1>7. QED
  BY <1>3, <1>4, <1>5, <1>6

(* The iterator will come to the event.                                    *)
ComesTo(it, s, id) == \E i \in DOMAIN Ahead(it, s) : Ahead(it, s)[i].id = id

(* A walk comes to the events below the last one.                          *)
LEMMA WalkComesTo ==
    ASSUME NEW it \in Iterator, NEW s \in Tables, ~ it.sorted, Len(it.pass.got) # 0,
           Plain(it.sql), NEW id \in Ids
    PROVE  ComesTo(it, s, id) <=> id \in Below(it, s)
<1>1. it.pass.got # <<>> /\ it.sql.setting.limit < 0
  BY DEF Plain, NewQuery
<1>2. QED
  BY <1>1, AheadIs DEF ComesTo

(* A pass that begins comes to every event that matches.                   *)
LEMMA BeginningComesTo ==
    ASSUME NEW it \in Iterator, NEW s \in Tables, PassInv(it), it.pass.base = s,
           Len(it.pass.got) = 0, Plain(it.sql), NEW id \in Matching(it.sql.where, s)
    PROVE  ComesTo(it, s, id)
<1>0. PICK due : due = Rows(it.sql, s)
  OBVIOUS
<1>1. /\ it.pass.got = <<>> /\ it.pass.left \in Seq(RowOf(Ids)) /\ Len(it.pass.left) \in Nat
      /\ it.sql \in SqlText /\ DOMAIN it.pass.left = 1..Len(it.pass.left)
  BY IteratorIs
<1>2. DOMAIN due = 1..Len(due) /\ Len(due) \in Nat /\ Given(due, id)
  BY <1>0, <1>1, RowsAre
<1>3. /\ 0 + Len(it.pass.left) = Len(due)
      /\ \A k \in 1..Len(it.pass.left) : it.pass.left[k] = Row(due[0 + k], s)
  BY <1>0 DEF PassInv
<1>4. PICK k \in 1..Len(due) : due[k] = id
  BY <1>2 DEF Given
<1>5. k \in 1..Len(it.pass.left) /\ 0 + k = k
  BY <1>1, <1>2, <1>3
<1>6. it.pass.left[k] = Row(due[k], s)
  BY <1>3, <1>5
<1>7. Ahead(it, s) = it.pass.left
  BY <1>1, AheadIs
<1>8. QED
  BY <1>1, <1>4, <1>5, <1>6, <1>7 DEF ComesTo, Row

(* A step delivers the event, or the iterator comes to it later.           *)
LEMMA StaysAhead ==
    ASSUME NEW it \in Iterator, NEW s \in Tables, PassInv(it), BaseKept(it, s),
           Ahead(it, s) # <<>>, NEW d, d = Delivered(it, s),
           it.pass.base = s \/ Len(it.pass.got) # 0,
           Plain(it.sql), NEW id \in Ids, ComesTo(it, s, id), id # d.columns.id
    PROVE  ComesTo(d, s, id)
<1>0. PICK n, left, row, base, due :
          /\ n = Len(it.pass.got) /\ left = it.pass.left /\ row = Head(Ahead(it, s))
          /\ base = it.pass.base /\ due = Rows(it.sql, base)
  OBVIOUS
<1>1. /\ row.id \in Ids /\ d \in Iterator /\ d.sorted = it.sorted /\ d.sql = it.sql
      /\ d.columns = row /\ d.pass.got = Append(it.pass.got, row.id)
      /\ d.pass.left = IF left = <<>> THEN left ELSE Tail(left)
  BY <1>0, DeliveredIs
<1>2. /\ it.pass.got \in Seq(Ids) /\ left \in Seq(RowOf(Ids)) /\ n \in Nat
      /\ DOMAIN left = 1..Len(left) /\ Len(left) \in Nat
      /\ it.sql \in SqlText /\ base \in Tables
  BY <1>0, IteratorIs
<1>3. Len(d.pass.got) # 0 /\ d.pass.got[Len(d.pass.got)] = row.id
  BY <1>0, <1>1, <1>2
<1>4. CASE it.sorted \/ n = 0
  <2>1. Ahead(it, s) = left
    BY <1>0, <1>2, <1>4, AheadIs
  <2>2. left # <<>> /\ row = left[1]
    BY <1>0, <1>2, <2>1
  <2>3. PICK i \in 1..Len(left) : left[i].id = id
    BY <1>2, <2>1 DEF ComesTo
  <2>4. i # 1
    BY <1>1, <2>2, <2>3
  <2>5. CASE it.sorted
    <3>1. Ahead(d, s) = Tail(left)
      BY <1>1, <2>2, <2>5, AheadIs
    <3>2. /\ Tail(left) \in Seq(RowOf(Ids)) /\ Len(Tail(left)) = Len(left) - 1
          /\ \A k \in 1..(Len(left) - 1) : Tail(left)[k] = left[k + 1]
      BY <1>2, <2>2
    <3>3. /\ i - 1 \in 1..(Len(left) - 1) /\ (i - 1) + 1 = i
      BY <1>2, <2>4
    <3>4. Tail(left)[i - 1] = left[i] /\ i - 1 \in DOMAIN Tail(left)
      BY <3>2, <3>3
    <3>5. QED
      BY <2>3, <3>1, <3>4 DEF ComesTo
  <2>6. CASE ~ it.sorted
    <3>1. n = 0 /\ base = s
      BY <1>0, <1>4, <2>6
    <3>2. /\ 0 + Len(left) = Len(due)
          /\ \A k \in 1..Len(left) : left[k] = Row(due[0 + k], base)
      BY <1>0, <3>1 DEF PassInv
    <3>3. /\ due \in Seq(Ids) /\ Len(due) \in Nat /\ DOMAIN due = 1..Len(due)
          /\ Decreasing(due) /\ \A k \in 1..Len(due) : Admits(it.sql.where, base[due[k]])
      BY <1>0, <1>2, RowsAre
    <3>4. /\ Len(left) = Len(due) /\ 1 \in 1..Len(left) /\ 1 < i
          /\ \A k \in 1..Len(left) : 0 + k = k
      BY <1>2, <2>4, <3>2, <3>3
    <3>5. due[i] = id /\ due[1] = row.id
      <4>1. left[i] = Row(due[i], base) /\ left[1] = Row(due[1], base)
        <5>1. 0 + i = i /\ 0 + 1 = 1
          BY <2>3, <3>4
        <5>2. left[i] = Row(due[0 + i], base) /\ left[1] = Row(due[0 + 1], base)
          BY <2>3, <3>2, <3>4
        <5>3. QED
          BY <5>1, <5>2
      <4>2. left[i].id = due[i] /\ left[1].id = due[1]
        BY <4>1 DEF Row
      <4>3. QED
        BY <2>2, <2>3, <4>2
    <3>6. due[1] > due[i] /\ due[i] \in Nat /\ due[1] \in Nat
      <4>1. due[1] \in Ids /\ due[i] \in Ids
        BY <3>3, <3>4
      <4>2. due[1] > due[i]
        BY <3>3, <3>4 DEF Decreasing
      <4>3. QED
        BY <4>1, <4>2, IdsAssumption
    <3>7. Admits(it.sql.where, s[id])
      BY <3>1, <3>3, <3>4, <3>5
    <3>8. id \in Below(d, s)
      <4>1. id < row.id
        BY <3>5, <3>6
      <4>2. QED
        BY <1>1, <1>3, <3>7, <4>1 DEF Below, Matching
    <3>9. QED
      BY <1>1, <1>3, <2>6, <3>8, WalkComesTo
  <2>7. QED
    BY <2>5, <2>6
<1>5. CASE ~ it.sorted /\ n # 0
  <2>1. id \in Below(it, s)
    BY <1>0, <1>5, WalkComesTo
  <2>2. id <= row.id
    BY <1>0, <1>5, <2>1, NextWalked
  <2>3. id < row.id
    <3>1. id \in Nat /\ row.id \in Nat /\ id # row.id
      BY <1>1, IdsAssumption
    <3>2. QED
      BY <2>2, <3>1
  <2>4. id \in Below(d, s)
    BY <1>1, <1>3, <2>1, <2>3 DEF Below
  <2>5. QED
    BY <1>1, <1>3, <1>5, <2>4, WalkComesTo
<1>6. QED
  BY <1>4, <1>5

(* A change that leaves the event alone keeps it ahead.                    *)
LEMMA ChangeKeepsAhead ==
    ASSUME NEW it \in Iterator, NEW s \in Tables, NEW t \in Tables, NEW new \in Iterator,
           new.sorted = it.sorted, new.sql = it.sql, new.pass.got = it.pass.got,
           new.pass.left = it.pass.left,
           Plain(it.sql), NEW id \in Ids, t[id] = s[id], ComesTo(it, s, id)
    PROVE  ComesTo(new, t, id)
<1>1. CASE it.sorted \/ Len(it.pass.got) = 0
  <2>1. it.pass.got \in Seq(Ids)
    BY IteratorIs
  <2>2. it.sorted \/ it.pass.got = <<>>
    BY <1>1, <2>1
  <2>3. Ahead(it, s) = it.pass.left /\ Ahead(new, t) = new.pass.left
    BY <2>2, AheadIs
  <2>4. QED
    BY <2>3 DEF ComesTo
<1>2. CASE ~ it.sorted /\ Len(it.pass.got) # 0
  <2>1. id \in Below(it, s)
    BY <1>2, WalkComesTo
  <2>2. id \in Below(new, t)
    BY <2>1 DEF Below, Matching
  <2>3. QED
    BY <1>2, <2>2, WalkComesTo
<1>3. QED
  BY <1>1, <1>2

---------------------------------------------------------------------------
(* What the variables hold                                                 *)

Query == [setting : Setting, where : Seq(Condition) \cup {NULL}, sql : SqlText \cup {NULL}]
Call == [emit : Signal \cup {NULL}, rest : Seq(Ids), read : BOOLEAN]

QueryTypes == /\ query \in [Viewers -> Query]
              /\ asked \in [Viewers -> Seq(Condition) \cup {NULL}]

SignalTypes == /\ store \in Tables
               /\ call \in [Programs -> Call]
               /\ mail \in [Viewers -> Seq(Signal)]

ViewTypes == /\ shows \in [Viewers -> SqlText \cup {NULL}]
             /\ view \in [Viewers -> Tables]
             /\ stale \in SUBSET Viewers
             /\ mixed \in [Viewers -> SUBSET Ids]
             /\ unread \in [Viewers -> SUBSET Ids]

ViewerStep(p) ==
    \/ EditQuery(p) \/ HandleSignal(p) \/ Listing(p)
    \/ ListAnew(p) \/ CloseListing(p) \/ CloseDangling(p) \/ LookAtAttachments(p)

LEMMA NextIs ==
    Next <=> \/ \E p \in Programs : Calls(p)
             \/ \E p \in Viewers : ViewerStep(p)
BY DEF Next, ViewerStep

LEMMA EmptyIs == Empty \in Tables /\ \A id \in Ids : Empty[id] = NULL
BY DEF Empty, Tables

LEMMA NewQueryIs == NewQuery \in Query /\ NewQuery.where = NULL
BY DEF NewQuery, Query, Setting

LEMMA NothingIs == Nothing \in Call /\ Nothing.emit = NULL
BY DEF Nothing, Call

---------------------------------------------------------------------------
(* Queries                                                                 *)

LEMMA EditTypes ==
    ASSUME QueryTypes, NEW p \in Viewers, EditQuery(p)
    PROVE  QueryTypes'
<1>1. query[p] \in Query
  BY DEF QueryTypes
<1>2. ASSUME NEW setting \in Settings, Set(p, setting) PROVE QueryTypes'
  <2>1. setting \in Setting
    BY SettingsAssumption
  <2>2. [query[p] EXCEPT !.setting = setting] \in Query
    BY <1>1, <2>1 DEF Query
  <2>3. query' = [query EXCEPT ![p] = [query[p] EXCEPT !.setting = setting]]
    BY <1>2 DEF Set
  <2>4. QED
    BY <1>2, <2>2, <2>3 DEF Set, QueryTypes
<1>3. ASSUME Refresh(p) PROVE QueryTypes'
  <2>1. Sql(query[p].setting, query[p].where) \in SqlText
    BY <1>1 DEF Query, Sql, SqlText
  <2>2. [query[p] EXCEPT !.sql = Sql(query[p].setting, query[p].where)] \in Query
    BY <1>1, <2>1 DEF Query
  <2>3. query' = [query EXCEPT ![p] =
                      [query[p] EXCEPT !.sql = Sql(query[p].setting, query[p].where)]]
    BY <1>3 DEF Refresh
  <2>4. QED
    BY <1>3, <2>2, <2>3 DEF Refresh, QueryTypes
<1>4. ASSUME NEW conditions \in {<<>>} \cup SeqOf(Conditions, 2), Prepare(p, conditions)
      PROVE  QueryTypes'
  <2>1. conditions \in Seq(Condition)
    <3>1. CASE conditions = <<>>
      BY <3>1
    <3>2. CASE conditions # <<>>
      <4>1. PICK m \in 0..2 : conditions \in [1..m -> Conditions]
        BY <1>4, <3>2 DEF SeqOf
      <4>2. conditions \in [1..m -> Condition] /\ m \in Nat
        BY <4>1, ConditionsAssumption
      <4>3. QED
        BY <4>2
    <3>3. QED
      BY <3>1, <3>2
  <2> DEFINE ok == \A i \in DOMAIN conditions : Builds(conditions[i])
             where == Clause(p, conditions)
             sql == IF ok THEN Sql(query[p].setting, where) ELSE NULL
  <2>2. where \in Seq(Condition) \cup {NULL}
    BY <2>1 DEF Clause
  <2>3. sql \in SqlText \cup {NULL}
    BY <1>1, <2>2 DEF Query, Sql, SqlText
  <2>4. query' = [query EXCEPT ![p] = [query[p] EXCEPT !.where = where, !.sql = sql]]
    BY <1>4 DEF Prepare, QueryTypes
  <2>5. asked' = [asked EXCEPT ![p] = IF ok THEN conditions ELSE NULL]
    BY <1>4 DEF Prepare
  <2> HIDE DEF ok, where, sql
  <2>6. [query[p] EXCEPT !.where = where, !.sql = sql] \in Query
    BY <1>1, <2>2, <2>3 DEF Query
  <2>7. QED
    BY <2>1, <2>4, <2>5, <2>6 DEF QueryTypes
<1>5. QED
  BY <1>2, <1>3, <1>4 DEF EditQuery

(* Only these change a query.                                              *)
LEMMA QueryFrame ==
    ASSUME [Next]_vars
    PROVE  \/ \E p \in Viewers : EditQuery(p)
           \/ \E p \in Viewers : Die(p)
           \/ UNCHANGED <<query, asked>>
<1>1. ASSUME NEW p \in Programs, Calls(p), ~ (p \in Viewers /\ Die(p))
      PROVE  UNCHANGED <<query, asked>>
  BY <1>1 DEF Calls, Change, StartBatch, FailBatch, Announce, Die, queries
<1>2. ASSUME NEW p \in Viewers, ViewerStep(p), ~ EditQuery(p)
      PROVE  UNCHANGED <<query, asked>>
  BY <1>2 DEF ViewerStep, HandleSignal, Listing, StartListing, NothingToList, ListNext,
              ListEnds, ListFails, ListAnew, CloseListing, CloseDangling,
              LookAtAttachments, queries
<1>3. UNCHANGED vars => UNCHANGED <<query, asked>>
  BY DEF vars, queries
<1>4. QED
  BY <1>1, <1>2, <1>3, NextIs DEF Calls

(* Queries keep their types.                                               *)
LEMMA QueryTypesStep ==
    ASSUME QueryTypes, [Next]_vars
    PROVE  QueryTypes'
<1>1. ASSUME NEW p \in Viewers, Die(p) PROVE QueryTypes'
  BY <1>1, NewQueryIs DEF QueryTypes, Die
<1>2. UNCHANGED <<query, asked>> => QueryTypes'
  BY DEF QueryTypes
<1>3. QED
  BY <1>1, <1>2, EditTypes, QueryFrame

---------------------------------------------------------------------------
(* Calls that change the log, and signals                                  *)

LEMMA WithoutIs ==
    ASSUME NEW s \in Tables, NEW ids
    PROVE  /\ Without(s, ids) \in Tables
           /\ \A id \in Ids : Without(s, ids)[id] # s[id] => id \in ids
BY DEF Without, Tables

(* What a signal concerns.                                                 *)
LEMMA AboutIs ==
    ASSUME NEW name \in Names, NEW id \in Ids \cup {NULL}
    PROVE  /\ About(name, id) \in Signal
           /\ id # NULL => id \in Concerns(About(name, id))
           /\ id = NULL => Concerns(About(name, id)) = Ids
BY DEF About, Signal, Concerns

(* A commit, and the signal it has to send.                                *)
LEMMA CommitsIs ==
    ASSUME SignalTypes, NEW p \in Programs, NEW s \in Tables, NEW signal \in Signal,
           Commits(p, s, signal)
    PROVE  /\ store' = s /\ UNCHANGED <<mail, untold>>
           /\ call[p].emit = NULL /\ call' \in [Programs -> Call] /\ call'[p].emit = signal
           /\ \A q \in Programs \ {p} : call'[q] = call[q]
<1>1. call[p] \in Call /\ call[p].emit = NULL
  BY NothingIs DEF SignalTypes, Commits, Idle
<1>2. call' = [call EXCEPT ![p] = [call[p] EXCEPT !.emit = signal]]
  BY DEF Commits
<1>3. /\ [call[p] EXCEPT !.emit = signal] \in Call
      /\ [call[p] EXCEPT !.emit = signal].emit = signal
  BY <1>1 DEF Call
<1>4. QED
  BY <1>1, <1>2, <1>3 DEF Commits, SignalTypes

(* A change leaves every event alone that its signal does not concern.     *)
LEMMA ChangeIs ==
    ASSUME QueryTypes, SignalTypes, NEW p \in Programs, Change(p)
    PROVE  /\ store' \in Tables /\ UNCHANGED <<mail, untold>>
           /\ call[p].emit = NULL /\ call' \in [Programs -> Call]
           /\ call'[p].emit \in Signal
           /\ \A id \in Ids : store'[id] # store[id] => id \in Concerns(call'[p].emit)
           /\ \A q \in Programs \ {p} : call'[q] = call[q]
<1>1. store \in Tables /\ call[p] \in Call
  BY DEF SignalTypes
<1>2. ASSUME NEW s \in Tables, NEW name \in Names, NEW id \in Ids \cup {NULL},
             Commits(p, s, About(name, id)),
             id = NULL \/ \A other \in Ids : s[other] # store[other] => other = id
      PROVE  /\ store' \in Tables /\ UNCHANGED <<mail, untold>>
             /\ call[p].emit = NULL /\ call' \in [Programs -> Call]
             /\ call'[p].emit \in Signal
             /\ \A other \in Ids : store'[other] # store[other]
                                       => other \in Concerns(call'[p].emit)
             /\ \A q \in Programs \ {p} : call'[q] = call[q]
  <2>1. About(name, id) \in Signal
    BY AboutIs
  <2>2. /\ store' = s /\ UNCHANGED <<mail, untold>>
        /\ call[p].emit = NULL /\ call' \in [Programs -> Call]
        /\ call'[p].emit = About(name, id)
        /\ \A q \in Programs \ {p} : call'[q] = call[q]
    BY <1>2, <2>1, CommitsIs
  <2>3. \A other \in Ids : s[other] # store[other] => other \in Concerns(About(name, id))
    BY <1>2, AboutIs
  <2>4. QED
    BY <2>1, <2>2, <2>3
<1>3. /\ NULL \in Ids \cup {NULL}
      /\ {"NewEvent", "EventDeleted", "RefreshHint", "AllDeleted"} \subseteq Names
  BY DEF Names
<1>5. ASSUME NEW contact \in Contacts, AddEvent(p, contact)
      PROVE  \E s \in Tables, name \in Names, id \in Ids \cup {NULL} :
                /\ Commits(p, s, About(name, id))
                /\ id = NULL \/ \A other \in Ids : s[other] # store[other] => other = id
  <2> DEFINE new == NewId(store)
             s == [store EXCEPT ![new] = [read |-> FALSE, contact |-> contact]]
  <2>1. new \in Ids /\ Commits(p, s, About("NewEvent", new))
    BY <1>5 DEF AddEvent
  <2> HIDE DEF new
  <2>2. s \in Tables /\ \A other \in Ids : s[other] # store[other] => other = new
    BY <1>1, <2>1 DEF Tables, Contents
  <2>3. QED
    BY <1>3, <2>1, <2>2
<1>6. ASSUME NEW ids, NEW name \in {"RefreshHint", "AllDeleted"},
             Commits(p, Without(store, ids), About(name, NULL))
      PROVE  \E s \in Tables, nm \in Names, id \in Ids \cup {NULL} :
                /\ Commits(p, s, About(nm, id))
                /\ id = NULL \/ \A other \in Ids : s[other] # store[other] => other = id
  <2>1. Without(store, ids) \in Tables
    BY <1>1, WithoutIs
  <2>2. QED
    BY <1>3, <1>6, <2>1
<1>7. ASSUME NEW id \in Ids, DeleteEvent(p, id)
      PROVE  \E s \in Tables, name \in Names, i \in Ids \cup {NULL} :
                /\ Commits(p, s, About(name, i))
                /\ i = NULL \/ \A other \in Ids : s[other] # store[other] => other = i
  <2>1. /\ Without(store, {id}) \in Tables
        /\ \A other \in Ids : Without(store, {id})[other] # store[other] => other = id
    BY <1>1, WithoutIs
  <2>2. QED
    BY <1>3, <1>7, <2>1 DEF DeleteEvent
<1>8. ASSUME UpdateNext(p)
      PROVE  /\ store' \in Tables /\ UNCHANGED <<mail, untold>>
             /\ call[p].emit = NULL /\ call' \in [Programs -> Call]
             /\ call'[p].emit \in Signal
             /\ \A id \in Ids : store'[id] # store[id] => id \in Concerns(call'[p].emit)
             /\ \A q \in Programs \ {p} : call'[q] = call[q]
  <2> DEFINE id == Head(call[p].rest)
             new == [call[p] EXCEPT !.emit = About("EventUpdated", id),
                                    !.rest = Tail(call[p].rest)]
  <2>1. call[p].rest \in Seq(Ids) /\ call[p].rest # <<>> /\ call[p].emit = NULL
        /\ call[p].read \in BOOLEAN
    BY <1>1, <1>8 DEF UpdateNext, Call
  <2>2. id \in Ids /\ Tail(call[p].rest) \in Seq(Ids)
    BY <2>1
  <2>3. call' = [call EXCEPT ![p] = new]
    BY <1>8 DEF UpdateNext
  <2>4. /\ UNCHANGED <<mail, untold>>
        /\ store' = IF store[id] = NULL THEN store
                    ELSE [store EXCEPT ![id].read = call[p].read]
    BY <1>8 DEF UpdateNext
  <2> HIDE DEF id
  <2>5. About("EventUpdated", id) \in Signal /\ id \in Concerns(About("EventUpdated", id))
    <3>1. id # NULL \/ Concerns(About("EventUpdated", id)) = Ids
      BY <2>2, AboutIs DEF Names
    <3>2. QED
      BY <2>2, <3>1, AboutIs DEF Names
  <2>6. new \in Call /\ new.emit = About("EventUpdated", id)
    BY <1>1, <2>2, <2>5 DEF Call
  <2>7. store' \in Tables /\ \A other \in Ids : store'[other] # store[other] => other = id
    <3>1. CASE store[id] = NULL
      BY <1>1, <2>4, <3>1
    <3>2. CASE store[id] # NULL
      <4>1. store[id] \in Contents
        BY <1>1, <2>2, <3>2 DEF Tables
      <4>2. [store[id] EXCEPT !.read = call[p].read] \in Contents
        BY <2>1, <4>1 DEF Contents
      <4>3. store' = [store EXCEPT ![id] = [store[id] EXCEPT !.read = call[p].read]]
        BY <2>4, <3>2
      <4>4. QED
        BY <1>1, <2>2, <4>2, <4>3 DEF Tables
    <3>3. QED
      BY <3>1, <3>2
  <2> HIDE DEF new
  <2>8. /\ call' \in [Programs -> Call] /\ call'[p] = new
        /\ \A q \in Programs \ {p} : call'[q] = call[q]
    BY <2>3, <2>6 DEF SignalTypes
  <2>9. QED
    BY <2>1, <2>4, <2>5, <2>6, <2>7, <2>8
<1>9. \/ \E contact \in Contacts : AddEvent(p, contact)
      \/ \E ids : \E name \in {"RefreshHint", "AllDeleted"} :
            Commits(p, Without(store, ids), About(name, NULL))
      \/ \E id \in Ids : DeleteEvent(p, id)
      \/ UpdateNext(p)
  BY DEF Change, DeleteBy, DeleteAll, DeleteEvents
<1>10. QED
  BY <1>2, <1>5, <1>6, <1>7, <1>8, <1>9

(* The other calls leave the table alone.                                  *)
LEMMA StartBatchIs ==
    ASSUME SignalTypes, NEW p \in Programs, StartBatch(p)
    PROVE  /\ UNCHANGED <<store, mail, untold>> /\ call' \in [Programs -> Call]
           /\ call[p].emit = NULL /\ \A q \in Programs \ {p} : call'[q] = call[q]
<1>1. PICK ids \in Batches, read \in BOOLEAN : SetReadEvents(p, ids, read)
  BY DEF StartBatch
<1>2. [emit |-> NULL, rest |-> ids, read |-> read] \in Call
  BY BatchesAssumption DEF Call
<1>3. call[p].emit = NULL
  BY <1>1, NothingIs DEF SetReadEvents, Idle
<1>4. QED
  BY <1>1, <1>2, <1>3 DEF SetReadEvents, SignalTypes

LEMMA FailBatchIs ==
    ASSUME SignalTypes, NEW p \in Programs, FailBatch(p)
    PROVE  /\ UNCHANGED <<store, mail, untold>> /\ call' \in [Programs -> Call]
           /\ call[p].emit = NULL /\ \A q \in Programs \ {p} : call'[q] = call[q]
BY NothingIs DEF FailBatch, UpdateFails, SignalTypes

LEMMA AnnounceIs ==
    ASSUME SignalTypes, NEW p \in Programs, Announce(p)
    PROVE  /\ call[p].emit \in Signal
           /\ mail' = [v \in Viewers |-> Append(mail[v], call[p].emit)]
           /\ untold' = untold \ Concerns(call[p].emit)
           /\ UNCHANGED store /\ call' \in [Programs -> Call]
           /\ \A q \in Programs \ {p} : call'[q] = call[q]
<1>1. call[p] \in Call /\ call[p].emit \in Signal
  BY DEF Announce, Emit, SignalTypes, Call
<1>2. [call[p] EXCEPT !.emit = NULL] \in Call
  BY <1>1 DEF Call
<1>3. Returned([call[p] EXCEPT !.emit = NULL]) \in Call
  BY <1>2, NothingIs DEF Returned
<1>4. call' = [call EXCEPT ![p] = Returned([call[p] EXCEPT !.emit = NULL])]
  BY DEF Announce, Emit
<1>5. QED
  BY <1>1, <1>3, <1>4 DEF Announce, Emit, SignalTypes

(* A program that ends leaves its signal unsent.                           *)
LEMMA DieIs ==
    ASSUME SignalTypes, NEW p \in Programs, Die(p)
    PROVE  /\ UNCHANGED store /\ call' \in [Programs -> Call]
           /\ \A q \in Programs \ {p} : call'[q] = call[q]
           /\ mail' \in [Viewers -> Seq(Signal)]
           /\ \A v \in Viewers \ {p} : mail'[v] = mail[v]
           /\ call[p].emit = NULL => untold' = untold
           /\ call[p].emit # NULL => untold' = untold \cup Concerns(call[p].emit)
BY NothingIs DEF Die, End, SignalTypes

(* The signals keep their types.                                           *)
LEMMA SignalTypesStep ==
    ASSUME QueryTypes, SignalTypes, [Next]_vars
    PROVE  SignalTypes'
<1>1. ASSUME NEW p \in Programs, Change(p) PROVE SignalTypes'
  BY <1>1, ChangeIs DEF SignalTypes
<1>2. ASSUME NEW p \in Programs, StartBatch(p) PROVE SignalTypes'
  BY <1>2, StartBatchIs DEF SignalTypes
<1>3. ASSUME NEW p \in Programs, FailBatch(p) PROVE SignalTypes'
  BY <1>3, FailBatchIs DEF SignalTypes
<1>4. ASSUME NEW p \in Programs, Announce(p) PROVE SignalTypes'
  <2>1. \A v \in Viewers : Append(mail[v], call[p].emit) \in Seq(Signal)
    BY <1>4, AnnounceIs DEF SignalTypes
  <2>2. QED
    BY <1>4, <2>1, AnnounceIs DEF SignalTypes
<1>5. ASSUME NEW p \in Programs, Die(p) PROVE SignalTypes'
  BY <1>5, DieIs DEF SignalTypes
<1>6. ASSUME NEW p \in Viewers, HandleSignal(p) PROVE SignalTypes'
  <2>1. mail[p] \in Seq(Signal) /\ mail[p] # <<>>
    BY <1>6 DEF HandleSignal, Dispatch, SignalTypes
  <2>2. Tail(mail[p]) \in Seq(Signal)
    BY <2>1
  <2>3. QED
    BY <1>6, <2>2 DEF HandleSignal, Dispatch, SignalTypes
<1>7. ASSUME NEW p \in Viewers, ViewerStep(p), ~ HandleSignal(p) PROVE UNCHANGED signals
  BY <1>7 DEF ViewerStep, EditQuery, Listing, StartListing, NothingToList, ListNext,
              ListEnds, ListFails, ListAnew, CloseListing, CloseDangling,
              LookAtAttachments
<1>8. UNCHANGED vars => UNCHANGED signals
  BY DEF vars
<1>9. UNCHANGED signals => SignalTypes'
  BY DEF signals, SignalTypes
<1>10. QED
  BY <1>1, <1>2, <1>3, <1>4, <1>5, <1>6, <1>7, <1>8, <1>9, NextIs DEF Calls

---------------------------------------------------------------------------
(* What a step of an iterator makes of it                                  *)

IterOk(it, s) == /\ PassInv(it)
                 /\ it.stmt = "active" => /\ Len(it.pass.got) # 0
                                          /\ BaseKept(it, s) /\ RowKept(it, s)
                 /\ it.stmt = "done" => PassDone(it)
                 /\ it.stmt \in {"reset", "dangling"} => it.columns.id \in Ids

(* An iterator that is about to be stepped over the table.                 *)
Ready(it, s) == it \in Iterator /\ PassInv(it) /\ BaseKept(it, s)

(* One whose pass begins with the step.                                    *)
Begins(it, s) == /\ Len(it.pass.got) = 0 /\ it.pass.touched = {} /\ it.pass.base = s
                 /\ Ahead(it, s) = <<>> <=> Rows(it.sql, s) = <<>>

(* rtcom_el_get_events() makes an iterator that is about to be stepped.     *)
LEMMA FreshIs ==
    ASSUME NEW sql \in SqlText, NEW atomic \in BOOLEAN, NEW sorted \in BOOLEAN,
           NEW s \in Tables, sorted \/ sql.setting.groupBy = "none",
           NEW it, it = [stmt |-> "active", atomic |-> atomic, sorted |-> sorted, sql |-> sql,
                         columns |-> None, pass |-> Pass(sql, s)]
    PROVE  Ready(it, s) /\ Begins(it, s) /\ it.sql = sql
<1>1. it \in Iterator
  <2>1. Pass(sql, s) \in [base : Tables, left : Seq(RowOf(Ids)), got : Seq(Ids),
                          touched : SUBSET Ids]
    BY PassBegins
  <2>2. None \in RowOf(Ids \cup {NULL})
    BY DEF None, RowOf
  <2>3. QED
    BY <2>1, <2>2 DEF Iterator, Tables
<1>2. it.pass = Pass(it.sql, s) /\ it.sql = sql /\ it.sorted = sorted
  OBVIOUS
<1>3. /\ PassInv(it) /\ BaseKept(it, s) /\ Ahead(it, s) = it.pass.left
      /\ it.pass.left = <<>> <=> Rows(it.sql, s) = <<>>
      /\ Len(it.pass.got) = 0 /\ it.pass.touched = {} /\ it.pass.base = s
  BY <1>1, <1>2, NewPassInv
<1>4. QED
  BY <1>1, <1>2, <1>3 DEF Ready, Begins

(* So is one that goes on, or that was reset.                              *)
LEMMA SteppedIs ==
    ASSUME NEW p, iter[p] \in Iterator, NEW s \in Tables, IterOk(iter[p], s),
           iter[p].stmt \in {"active", "reset"},
           NEW it, it = Stepped(p, s)
    PROVE  /\ Ready(it, s) /\ it.sql = iter[p].sql /\ it.sorted = iter[p].sorted
           /\ it.stmt = iter[p].stmt
           /\ it.stmt = "active" => it = iter[p] /\ Len(it.pass.got) # 0
           /\ it.stmt = "reset" => Begins(it, s)
<1>1. CASE iter[p].stmt = "active"
  <2>1. it = iter[p]
    BY <1>1 DEF Stepped
  <2>2. QED
    BY <1>1, <2>1 DEF IterOk, Ready
<1>2. CASE iter[p].stmt = "reset"
  <2>1. it = [iter[p] EXCEPT !.pass = Pass(iter[p].sql, s)]
    BY <1>2 DEF Stepped
  <2>2. iter[p].sql \in SqlText
    BY IteratorIs
  <2>3. Pass(iter[p].sql, s) \in [base : Tables, left : Seq(RowOf(Ids)), got : Seq(Ids),
                                  touched : SUBSET Ids]
    BY <2>2, PassBegins
  <2>4. /\ it \in Iterator /\ it.pass = Pass(it.sql, s) /\ it.sql = iter[p].sql
        /\ it.sorted = iter[p].sorted /\ it.stmt = "reset"
    BY <1>2, <2>1, <2>3 DEF Iterator, Tables
  <2>5. it.sorted \/ it.sql.setting.groupBy = "none"
    BY <2>4 DEF IterOk, PassInv
  <2>6. /\ PassInv(it) /\ BaseKept(it, s) /\ Ahead(it, s) = it.pass.left
        /\ it.pass.left = <<>> <=> Rows(it.sql, s) = <<>>
        /\ Len(it.pass.got) = 0 /\ it.pass.touched = {} /\ it.pass.base = s
    BY <2>4, <2>5, NewPassInv
  <2>7. QED
    BY <1>2, <2>4, <2>6 DEF Ready, Begins
<1>3. QED
  BY <1>1, <1>2

(* A step that delivers a row, and one that finds none.                    *)
LEMMA DeliveredOk ==
    ASSUME NEW s \in Tables, NEW it, Ready(it, s), Ahead(it, s) # <<>>,
           NEW d, d = Delivered(it, s)
    PROVE  d \in Iterator /\ IterOk(d, s) /\ d.stmt = "active"
<1>1. it \in Iterator /\ PassInv(it) /\ BaseKept(it, s)
  BY DEF Ready
<1>2. d \in Iterator /\ d.stmt = "active"
  BY <1>1, DeliveredIs
<1>3. PassInv(d)
  BY <1>1, DeliverKeepsPass
<1>4. BaseKept(d, s) /\ RowKept(d, s) /\ Len(d.pass.got) = Len(it.pass.got) + 1
  BY <1>1, DeliverKeepsRow
<1>5. Len(it.pass.got) \in Nat
  BY <1>1, IteratorIs
<1>6. QED
  BY <1>2, <1>3, <1>4, <1>5 DEF IterOk

(* The statement is reset or finalised, the pass stays as it is.           *)
LEMMA StmtOk ==
    ASSUME NEW it \in Iterator, PassInv(it), NEW s,
           NEW stmt \in {"reset", "done", "dangling"}, stmt = "done" => PassDone(it),
           stmt # "done" => it.columns.id \in Ids,
           NEW new, new = [it EXCEPT !.stmt = stmt]
    PROVE  new \in Iterator /\ IterOk(new, s) /\ new.stmt = stmt
<1>1. /\ new \in Iterator /\ new.sorted = it.sorted /\ new.sql = it.sql
      /\ new.pass = it.pass /\ new.columns = it.columns /\ new.stmt = stmt
  BY DEF Iterator
<1>2. PassInv(new)
  BY <1>1 DEF PassInv
<1>3. PassDone(it) => PassDone(new)
  BY <1>1 DEF PassDone
<1>4. QED
  BY <1>1, <1>2, <1>3 DEF IterOk

(* Its program changes the table.                                          *)
Touched(it, changed) == [it EXCEPT !.pass.touched = @ \cup changed]

LEMMA TouchIs ==
    ASSUME NEW it \in Iterator, NEW changed \in SUBSET Ids,
           NEW new, new = Touched(it, changed)
    PROVE  /\ new \in Iterator /\ new.stmt = it.stmt /\ new.sorted = it.sorted
           /\ new.sql = it.sql /\ new.columns = it.columns
           /\ new.pass.base = it.pass.base /\ new.pass.left = it.pass.left
           /\ new.pass.got = it.pass.got
           /\ new.pass.touched = it.pass.touched \cup changed
<1>1. PICK pass : pass = [it.pass EXCEPT !.touched = @ \cup changed]
  OBVIOUS
<1>2. /\ pass \in [base : [Ids -> Contents \cup {NULL}], left : Seq(RowOf(Ids)),
                   got : Seq(Ids), touched : SUBSET Ids]
      /\ pass.base = it.pass.base /\ pass.left = it.pass.left /\ pass.got = it.pass.got
      /\ pass.touched = it.pass.touched \cup changed
  BY <1>1 DEF Iterator
<1>3. new = [it EXCEPT !.pass = pass]
  BY <1>1 DEF Touched
<1>4. QED
  BY <1>2, <1>3 DEF Iterator

LEMMA TouchOk ==
    ASSUME NEW it \in Iterator, NEW s \in Tables, NEW t \in Tables, IterOk(it, s),
           NEW changed, changed = {id \in Ids : t[id] # s[id]},
           NEW new, new = Touched(it, changed)
    PROVE  new \in Iterator /\ IterOk(new, t) /\ new.stmt = it.stmt
<1>1. changed \in SUBSET Ids
  OBVIOUS
<1>2. /\ new \in Iterator /\ new.stmt = it.stmt /\ new.sorted = it.sorted
      /\ new.sql = it.sql /\ new.columns = it.columns
      /\ new.pass.base = it.pass.base /\ new.pass.left = it.pass.left
      /\ new.pass.got = it.pass.got /\ new.pass.touched = it.pass.touched \cup changed
  BY <1>1, TouchIs
<1>3. PassInv(new)
  <2>0. PICK due, n : due = Rows(it.sql, it.pass.base) /\ n = Len(it.pass.got)
    OBVIOUS
  <2>1. /\ it.sorted \/ it.sql.setting.groupBy = "none"
        /\ Decreasing(it.pass.got)
        /\ it.sorted \/ n = 0 =>
              /\ n + Len(it.pass.left) = Len(due)
              /\ \A k \in 1..Len(it.pass.left) :
                    it.pass.left[k] = Row(due[n + k], it.pass.base)
        /\ it.sorted \/ it.pass.touched = {} =>
              n <= Len(due) /\ \A k \in 1..n : it.pass.got[k] = due[k]
        /\ Plain(it.sql) /\ n # 0 =>
              \A k \in 1..Len(due) :
                 \/ due[k] \in it.pass.touched \/ Given(it.pass.got, due[k])
                 \/ due[k] < it.pass.got[n]
    BY <2>0 DEF IterOk, PassInv
  <2>2. /\ due = Rows(new.sql, new.pass.base) /\ n = Len(new.pass.got)
        /\ new.pass.touched = {} => it.pass.touched = {}
        /\ \A id : id \in it.pass.touched => id \in new.pass.touched
    BY <1>2, <2>0
  <2>3. /\ new.sorted \/ new.sql.setting.groupBy = "none"
        /\ Decreasing(new.pass.got)
        /\ new.sorted \/ n = 0 =>
              /\ n + Len(new.pass.left) = Len(due)
              /\ \A k \in 1..Len(new.pass.left) :
                    new.pass.left[k] = Row(due[n + k], new.pass.base)
    BY <1>2, <2>1
  <2>4. new.sorted \/ new.pass.touched = {} =>
              n <= Len(due) /\ \A k \in 1..n : new.pass.got[k] = due[k]
    <3>1. it.sorted \/ it.pass.touched = {} =>
              n <= Len(due) /\ \A k \in 1..n : it.pass.got[k] = due[k]
      BY <2>1
    <3>2. new.pass.got = it.pass.got
          /\ (new.sorted \/ new.pass.touched = {} => it.sorted \/ it.pass.touched = {})
      BY <1>2, <2>2
    <3>3. QED
      BY <3>1, <3>2
  <2>5. Plain(new.sql) /\ n # 0 =>
              \A k \in 1..Len(due) :
                 \/ due[k] \in new.pass.touched \/ Given(new.pass.got, due[k])
                 \/ due[k] < new.pass.got[n]
    BY <1>2, <2>1, <2>2
  <2>6. PassKept(new, due, n)
    BY ONLY <2>3, <2>4, <2>5 DEF PassKept
  <2>7. QED
    BY <2>2, <2>6, PassInvIs
<1>4. PassDone(it) => PassDone(new)
  BY <1>2 DEF PassDone
<1>5. BaseKept(it, s) => BaseKept(new, t)
  BY <1>2 DEF BaseKept
<1>6. RowKept(it, s) => RowKept(new, t)
  BY <1>2 DEF RowKept
<1>7. QED
  BY <1>2, <1>3, <1>4, <1>5, <1>6 DEF IterOk

---------------------------------------------------------------------------
(* The viewers and their iterators                                         *)

AttachIterator == [stmt : {"active", "reset"}, row : RowOf(Ids), touched : BOOLEAN]

IterTypes == /\ iter \in [Viewers -> Iterator \cup {NULL}]
             /\ attached \in [Viewers -> AttachIterator \cup {NULL}]

IterInv == /\ IterTypes
           /\ \A p \in Viewers : iter[p] # NULL =>
                 /\ IterOk(iter[p], store)
                 /\ iter[p].stmt = "dangling" => p \in failed /\ p \in stale

(* What a step of another program does not change of a viewer.             *)
Left(p) == /\ iter'[p] = iter[p] /\ attached'[p] = attached[p]
           /\ view'[p] = view[p] /\ shows'[p] = shows[p] /\ mixed'[p] = mixed[p]
           /\ unread'[p] = unread[p]
           /\ p \in stale' <=> p \in stale
           /\ p \in failed => p \in failed'

(* The calls of others commit only if the viewer holds no lock.            *)
LEMMA CallsLeave ==
    ASSUME IterTypes, ViewTypes, NEW p \in Viewers, NEW q \in Programs, q # p, Calls(q)
    PROVE  Left(p) /\ (store' = store \/ ~ Holds(p))
<1>1. CASE Change(q)
  <2>1. ~ Holds(p) /\ UNCHANGED views /\ UNCHANGED failed
    BY <1>1 DEF Change, MayCommit
  <2>2. iter'[p] = iter[p] /\ attached'[p] = attached[p]
    BY <1>1 DEF Change, Touch, IterTypes
  <2>3. QED
    BY <2>1, <2>2 DEF Left, views
<1>2. CASE StartBatch(q)
  BY <1>2 DEF StartBatch, SetReadEvents, Left, views, iterators
<1>3. CASE FailBatch(q)
  BY <1>3 DEF FailBatch, UpdateFails, Left, views, iterators
<1>4. CASE Announce(q)
  BY <1>4 DEF Announce, Emit, Left, views, iterators
<1>5. CASE Die(q)
  BY <1>5 DEF Die, End, ListAgain, Left, views, IterTypes, ViewTypes
<1>6. QED
  BY <1>1, <1>2, <1>3, <1>4, <1>5 DEF Calls

(* Other viewers do not commit.                                            *)
LEMMA ViewersLeave ==
    ASSUME IterTypes, ViewTypes, NEW p \in Viewers, NEW q \in Viewers, q # p, ViewerStep(q)
    PROVE  Left(p) /\ store' = store
<1> USE DEF Left, views, iterators, signals, IterTypes, ViewTypes
<1>1. CASE EditQuery(q)
  BY <1>1 DEF EditQuery, ListAgain
<1>2. CASE HandleSignal(q)
  BY <1>2 DEF HandleSignal, Dispatch, ListAgain, Reread
<1>3. CASE StartListing(q)
  BY <1>3 DEF StartListing, Open, Enter
<1>4. CASE NothingToList(q)
  BY <1>4 DEF NothingToList, OpenEmpty, OpenFails
<1>5. CASE ListNext(q)
  BY <1>5 DEF ListNext, NextRow, Enter
<1>6. CASE ListEnds(q)
  BY <1>6 DEF ListEnds, NextEnds
<1>7. CASE ListFails(q)
  BY <1>7 DEF ListFails, NextFails, ListAgain
<1>8. CASE ListAnew(q)
  BY <1>8 DEF ListAnew, First
<1>9. CASE CloseListing(q)
  BY <1>9 DEF CloseListing, Unref, ListAgain
<1>10. CASE CloseDangling(q)
  BY <1>10 DEF CloseDangling, UseDangling
<1>11. CASE LookAtAttachments(q)
  BY <1>11 DEF LookAtAttachments, OpenAttachments, FirstAttachment, RestartAttachments,
               CloseAttachments, AttachmentsBecome
<1>12. QED
  BY <1>1, <1>2, <1>3, <1>4, <1>5, <1>6, <1>7, <1>8, <1>9, <1>10, <1>11
     DEF ViewerStep, Listing

(* A step of one program leaves the state of the viewers a function of the *)
(* viewers.                                                                *)
Functions ==
    /\ iter' = [v \in Viewers |-> iter'[v]] /\ attached' = [v \in Viewers |-> attached'[v]]
    /\ view' = [v \in Viewers |-> view'[v]] /\ shows' = [v \in Viewers |-> shows'[v]]
    /\ mixed' = [v \in Viewers |-> mixed'[v]] /\ unread' = [v \in Viewers |-> unread'[v]]
    /\ stale' \in SUBSET Viewers

LEMMA FunctionsStay ==
    ASSUME IterTypes, ViewTypes, Next
    PROVE  Functions
<1> USE DEF Functions, views, iterators, signals, IterTypes, ViewTypes
<1>1. ASSUME NEW q \in Programs, Change(q) PROVE Functions
  BY <1>1 DEF Change, Touch
<1>2. ASSUME NEW q \in Programs, StartBatch(q) \/ FailBatch(q) \/ Announce(q) PROVE Functions
  BY <1>2 DEF StartBatch, FailBatch, Announce
<1>3. ASSUME NEW q \in Programs, Die(q) PROVE Functions
  BY <1>3 DEF Die, ListAgain
<1>4. ASSUME NEW q \in Viewers, EditQuery(q) PROVE Functions
  BY <1>4 DEF EditQuery, ListAgain
<1>5. ASSUME NEW q \in Viewers, HandleSignal(q) PROVE Functions
  BY <1>5 DEF HandleSignal, ListAgain, Reread
<1>6. ASSUME NEW q \in Viewers, StartListing(q) PROVE Functions
  BY <1>6 DEF StartListing, Open, Enter
<1>7. ASSUME NEW q \in Viewers, NothingToList(q) PROVE Functions
  BY <1>7 DEF NothingToList, OpenEmpty, OpenFails
<1>8. ASSUME NEW q \in Viewers, ListNext(q) PROVE Functions
  BY <1>8 DEF ListNext, NextRow, Enter
<1>9. ASSUME NEW q \in Viewers, ListEnds(q) PROVE Functions
  BY <1>9 DEF ListEnds, NextEnds
<1>10. ASSUME NEW q \in Viewers, ListFails(q) PROVE Functions
  BY <1>10 DEF ListFails, NextFails, ListAgain
<1>11. ASSUME NEW q \in Viewers, ListAnew(q) PROVE Functions
  BY <1>11 DEF ListAnew, First
<1>12. ASSUME NEW q \in Viewers, CloseListing(q) PROVE Functions
  <2>1. /\ iter' = [v \in Viewers |-> iter'[v]] /\ attached' = [v \in Viewers |-> attached'[v]]
    BY <1>12 DEF CloseListing, Unref
  <2>2. CASE UNCHANGED views
    BY <2>1, <2>2
  <2>3. CASE ListAgain(q)
    BY <2>1, <2>3 DEF ListAgain
  <2> QED
    BY <1>12, <2>2, <2>3 DEF CloseListing
<1>13. ASSUME NEW q \in Viewers, CloseDangling(q) PROVE Functions
  BY <1>13 DEF CloseDangling, UseDangling
<1>14. ASSUME NEW q \in Viewers, LookAtAttachments(q) PROVE Functions
  BY <1>14 DEF LookAtAttachments, OpenAttachments, FirstAttachment, RestartAttachments,
               CloseAttachments, AttachmentsBecome
<1>15. QED
  BY <1>1, <1>2, <1>3, <1>4, <1>5, <1>6, <1>7, <1>8, <1>9, <1>10, <1>11, <1>12, <1>13, <1>14,
     NextIs DEF Calls, ViewerStep, Listing

(* The row a step delivers, as the viewer enters it.                       *)
Entered(p, d, starts) ==
    /\ view'[p] = [(IF starts THEN Empty ELSE view[p])
                      EXCEPT ![d.columns.id] = d.columns.content]
    /\ mixed'[p] = (IF starts THEN {} ELSE mixed[p])
                      \cup (d.pass.touched \cap (IF d.sorted THEN {d.columns.id} ELSE {}))
    /\ unread'[p] = IF starts THEN {} ELSE unread[p] \ {d.columns.id}

LEMMA EnterIs ==
    ASSUME ViewTypes, NEW p \in Viewers, NEW d, d = iter'[p], NEW starts \in BOOLEAN,
           starts <=> Len(d.pass.got) = 1, Enter(p)
    PROVE  Entered(p, d, starts)
BY DEF Enter, Entered, ViewTypes

(* What the steps of a listing do, in terms of the iterator that is stepped. *)
LEMMA StartListingIs ==
    ASSUME QueryTypes, SignalTypes, IterTypes, ViewTypes, NEW p \in Viewers, StartListing(p)
    PROVE  \E it : /\ Ready(it, store) /\ Begins(it, store) /\ Ahead(it, store) # <<>>
                   /\ iter'[p] = Delivered(it, store) /\ Entered(p, iter'[p], TRUE)
                   /\ shows'[p] = it.sql /\ p \notin stale'
                   /\ UNCHANGED signals /\ UNCHANGED attached
<1>1. PICK atomic \in BOOLEAN, sorted \in BOOLEAN : Open(p, atomic, sorted, store)
  BY DEF StartListing
<1>2. PICK it : it = [stmt |-> "active", atomic |-> atomic, sorted |-> sorted,
                      sql |-> query[p].sql, columns |-> None,
                      pass |-> Pass(query[p].sql, store)]
  OBVIOUS
<1>3. /\ query[p].sql # NULL /\ Rows(query[p].sql, store) # <<>>
      /\ sorted \/ query[p].sql.setting.groupBy = "none"
      /\ iter' = [iter EXCEPT ![p] = Delivered(it, store)] /\ UNCHANGED attached
  BY <1>1, <1>2 DEF Open
<1>4. query[p].sql \in SqlText /\ store \in Tables
  BY <1>3 DEF QueryTypes, Query, SignalTypes
<1>5. Ready(it, store) /\ Begins(it, store) /\ it.sql = query[p].sql
  BY <1>2, <1>3, <1>4, FreshIs
<1>6. Ahead(it, store) # <<>>
  BY <1>3, <1>5 DEF Begins
<1>7. iter'[p] = Delivered(it, store)
  BY <1>3 DEF IterTypes
<1>8. Len(iter'[p].pass.got) = Len(it.pass.got) + 1
  BY <1>4, <1>5, <1>6, <1>7, DeliverKeepsRow DEF Ready
<1>9. TRUE <=> Len(iter'[p].pass.got) = 1
  BY <1>5, <1>8 DEF Begins
<1>10. Entered(p, iter'[p], TRUE)
  BY <1>9, EnterIs DEF StartListing
<1>11. shows'[p] = query[p].sql /\ p \notin stale' /\ UNCHANGED signals
  BY DEF StartListing, ViewTypes
<1>12. QED
  BY <1>3, <1>5, <1>6, <1>7, <1>10, <1>11

LEMMA ListNextIs ==
    ASSUME SignalTypes, IterInv, ViewTypes, NEW p \in Viewers, ListNext(p)
    PROVE  \E it : /\ Ready(it, store) /\ Ahead(it, store) # <<>>
                   /\ iter[p] # NULL /\ iter[p].stmt \in {"active", "reset"}
                   /\ it.sql = iter[p].sql
                   /\ iter[p].stmt = "active" => it = iter[p] /\ Len(it.pass.got) # 0
                   /\ iter[p].stmt = "reset" => Begins(it, store)
                   /\ iter'[p] = Delivered(it, store)
                   /\ p \notin stale => Entered(p, iter'[p], iter[p].stmt = "reset")
                   /\ p \in stale => view'[p] = view[p] /\ unread'[p] = unread[p]
                   /\ UNCHANGED <<shows, stale>> /\ UNCHANGED signals /\ UNCHANGED attached
<1>1. PICK it : it = Stepped(p, store)
  OBVIOUS
<1>2. /\ iter[p] # NULL /\ iter[p].stmt \in {"active", "reset"} /\ Ahead(it, store) # <<>>
      /\ iter' = [iter EXCEPT ![p] = Delivered(it, store)] /\ UNCHANGED attached
  BY <1>1 DEF ListNext, NextRow
<1>3. iter[p] \in Iterator /\ IterOk(iter[p], store) /\ store \in Tables
  BY <1>2 DEF IterInv, IterTypes, SignalTypes
<1>4. /\ Ready(it, store) /\ it.sql = iter[p].sql
      /\ iter[p].stmt = "active" => it = iter[p] /\ Len(it.pass.got) # 0
      /\ iter[p].stmt = "reset" => Begins(it, store)
  BY <1>1, <1>2, <1>3, SteppedIs
<1>5. iter'[p] = Delivered(it, store)
  BY <1>2 DEF IterInv, IterTypes
<1>6. Len(iter'[p].pass.got) = Len(it.pass.got) + 1
  BY <1>2, <1>3, <1>4, <1>5, DeliverKeepsRow DEF Ready
<1>7. Len(it.pass.got) \in Nat
  BY <1>4, IteratorIs DEF Ready
<1>8. iter[p].stmt = "reset" <=> Len(iter'[p].pass.got) = 1
  <2>1. PICK n, m : n = Len(it.pass.got) /\ m = Len(iter'[p].pass.got)
    OBVIOUS
  <2>2. iter[p].stmt = "reset" => n = 0
    BY <1>4, <2>1 DEF Begins
  <2>3. iter[p].stmt # "reset" => n # 0
    BY <1>2, <1>4, <2>1
  <2>4. m = n + 1 /\ n \in Nat
    BY <1>6, <1>7, <2>1
  <2>5. m = 1 <=> n = 0
    BY <2>4
  <2>6. QED
    BY <2>1, <2>2, <2>3, <2>5
<1>9. p \notin stale => Entered(p, iter'[p], iter[p].stmt = "reset")
  <2>1. p \notin stale => Enter(p)
    BY DEF ListNext
  <2>2. (iter[p].stmt = "reset") \in BOOLEAN
    OBVIOUS
  <2>3. QED
    BY <1>8, <2>1, <2>2, EnterIs
<1>10. UNCHANGED <<shows, stale>> /\ UNCHANGED signals
  BY DEF ListNext
<1>11. p \in stale => view'[p] = view[p] /\ unread'[p] = unread[p]
  BY DEF ListNext
<1>12. QED
  BY <1>2, <1>4, <1>5, <1>9, <1>10, <1>11

LEMMA ListEndsIs ==
    ASSUME SignalTypes, IterInv, ViewTypes, NEW p \in Viewers, ListEnds(p)
    PROVE  \E it : /\ Ready(it, store) /\ Ahead(it, store) = <<>>
                   /\ iter[p] # NULL /\ iter[p].stmt \in {"active", "reset"}
                   /\ it.sql = iter[p].sql
                   /\ iter[p].stmt = "active" => it = iter[p] /\ view'[p] = view[p]
                   /\ iter[p].stmt = "reset" => Begins(it, store) /\ view'[p] = Empty
                   /\ iter'[p] = [it EXCEPT !.stmt = "done"]
                   /\ UNCHANGED <<shows, stale, mixed, unread>>
                   /\ UNCHANGED signals /\ UNCHANGED attached
<1>1. PICK it : it = Stepped(p, store)
  OBVIOUS
<1>2. /\ iter[p] # NULL /\ iter[p].stmt \in {"active", "reset"} /\ Ahead(it, store) = <<>>
      /\ iter' = [iter EXCEPT ![p] = [it EXCEPT !.stmt = "done"]] /\ UNCHANGED attached
  BY <1>1 DEF ListEnds, NextEnds
<1>3. iter[p] \in Iterator /\ IterOk(iter[p], store) /\ store \in Tables
  BY <1>2 DEF IterInv, IterTypes, SignalTypes
<1>4. /\ Ready(it, store) /\ it.sql = iter[p].sql
      /\ iter[p].stmt = "active" => it = iter[p] /\ Len(it.pass.got) # 0
      /\ iter[p].stmt = "reset" => Begins(it, store)
  BY <1>1, <1>2, <1>3, SteppedIs
<1>5. iter'[p] = [it EXCEPT !.stmt = "done"]
  BY <1>2 DEF IterInv, IterTypes
<1>6. it.pass.got \in Seq(Ids) /\ it \in Iterator
  BY <1>4, IteratorIs DEF Ready
<1>7. iter'[p].pass.got = it.pass.got
  BY <1>5, <1>6 DEF Iterator
<1>8. iter[p].stmt = "active" => view'[p] = view[p]
  <2>1. iter[p].stmt = "active" => iter'[p].pass.got # <<>>
    BY <1>4, <1>6, <1>7
  <2>2. QED
    BY <2>1 DEF ListEnds
<1>9. iter[p].stmt = "reset" => view'[p] = Empty
  <2>1. iter[p].stmt = "reset" => iter'[p].pass.got = <<>>
    BY <1>4, <1>6, <1>7 DEF Begins
  <2>2. QED
    BY <2>1 DEF ListEnds, ViewTypes
<1>10. UNCHANGED <<shows, stale, mixed, unread>> /\ UNCHANGED signals
  BY DEF ListEnds
<1>11. QED
  BY <1>2, <1>4, <1>5, <1>8, <1>9, <1>10

(* What the invariant says of the iterator of p after a step.              *)
IterFine(p) ==
    /\ iter'[p] \in Iterator \cup {NULL}
    /\ iter'[p] # NULL => /\ IterOk(iter'[p], store')
                          /\ iter'[p].stmt = "dangling" => p \in failed' /\ p \in stale'

(* An iterator that is left alone.                                         *)
LEMMA SameIterFine ==
    ASSUME IterInv, NEW p \in Viewers, iter'[p] = iter[p],
           store' = store \/ ~ Holds(p), p \in failed => p \in failed',
           iter[p] # NULL /\ p \in stale => p \in stale'
    PROVE  IterFine(p)
<1>1. CASE iter[p] = NULL
  BY <1>1 DEF IterFine
<1>2. CASE iter[p] # NULL
  <2>1. iter[p] \in Iterator /\ IterOk(iter[p], store)
        /\ (iter[p].stmt = "dangling" => p \in failed' /\ p \in stale')
    BY <1>2 DEF IterInv, IterTypes
  <2>2. iter[p].stmt = "active" => store' = store
    BY <1>2 DEF Holds
  <2>3. IterOk(iter[p], store')
    BY <2>1, <2>2 DEF IterOk
  <2>4. QED
    BY <2>1, <2>3 DEF IterFine
<1>3. QED
  BY <1>1, <1>2

(* Every step keeps every iterator as the invariant has it.                *)
LEMMA IterFineStep ==
    ASSUME QueryTypes, SignalTypes, SignalTypes', IterInv, ViewTypes, NEW p \in Viewers, Next
    PROVE  IterFine(p)
<1>0. store \in Tables /\ store' \in Tables /\ IterTypes /\ p \in Programs
  BY ProgramsAssumption DEF SignalTypes, IterInv
<1>1. ASSUME NEW q \in Programs, q # p, Calls(q) PROVE IterFine(p)
  BY <1>0, <1>1, CallsLeave, SameIterFine DEF Left
<1>2. ASSUME NEW q \in Viewers, q # p, ViewerStep(q) PROVE IterFine(p)
  BY <1>0, <1>2, ViewersLeave, SameIterFine DEF Left
<1>3. CASE Change(p)
  <2>1. CASE iter[p] = NULL
    <3>1. iter' = iter
      BY <1>3, <2>1 DEF Change, Touch
    <3>2. QED
      BY <2>1, <3>1 DEF IterFine
  <2>2. CASE iter[p] # NULL
    <3>1. PICK changed : changed = {id \in Ids : store'[id] # store[id]}
      OBVIOUS
    <3>2. iter'[p] = Touched(iter[p], changed)
      BY <1>0, <1>3, <2>2, <3>1 DEF Change, Touch, IterTypes, Touched
    <3>3. /\ iter[p] \in Iterator /\ IterOk(iter[p], store)
          /\ iter[p].stmt = "dangling" => p \in failed /\ p \in stale
      BY <1>0, <2>2 DEF IterInv, IterTypes
    <3>4. iter'[p] \in Iterator /\ IterOk(iter'[p], store') /\ iter'[p].stmt = iter[p].stmt
      <4>1. PICK it, new, t : it = iter[p] /\ new = iter'[p] /\ t = store'
        OBVIOUS
      <4>2. /\ it \in Iterator /\ t \in Tables /\ IterOk(it, store)
            /\ changed = {id \in Ids : t[id] # store[id]}
            /\ new = Touched(it, changed)
        BY <1>0, <3>1, <3>2, <3>3, <4>1
      <4>3. new \in Iterator /\ IterOk(new, t) /\ new.stmt = it.stmt
        BY <1>0, <4>2, TouchOk
      <4>4. QED
        BY <4>1, <4>3
    <3>5. UNCHANGED <<failed, stale>>
      BY <1>3 DEF Change, views
    <3>6. QED
      BY <3>3, <3>4, <3>5 DEF IterFine
  <2>3. QED
    BY <2>1, <2>2
<1>4. CASE StartBatch(p) \/ FailBatch(p) \/ Announce(p)
  <2>1. UNCHANGED <<iter, store, failed, stale>>
    BY <1>4 DEF StartBatch, FailBatch, Announce, SetReadEvents, UpdateFails, Emit, iterators,
                views
  <2>2. QED
    BY <2>1, SameIterFine
<1>5. CASE Die(p)
  <2>1. iter'[p] = NULL
    BY <1>0, <1>5 DEF Die, IterTypes
  <2>2. QED
    BY <2>1 DEF IterFine
<1>6. CASE EditQuery(p) \/ HandleSignal(p) \/ NothingToList(p)
  <2>1. UNCHANGED <<iter, store, failed>> /\ (iter[p] # NULL /\ p \in stale => p \in stale')
    BY <1>6 DEF EditQuery, HandleSignal, NothingToList, OpenEmpty, OpenFails, Dispatch, ListAgain, signals, iterators
  <2>2. QED
    BY <2>1, SameIterFine
<1>7. CASE LookAtAttachments(p)
  <2>1. UNCHANGED <<iter, store, failed, stale>>
    BY <1>7 DEF LookAtAttachments, OpenAttachments, FirstAttachment, RestartAttachments,
                CloseAttachments, AttachmentsBecome, signals, views
  <2>2. QED
    BY <2>1, SameIterFine
<1>8. CASE StartListing(p) \/ ListNext(p)
  <2>1. PICK it : /\ Ready(it, store) /\ Ahead(it, store) # <<>>
                  /\ iter'[p] = Delivered(it, store) /\ UNCHANGED signals
    BY <1>0, <1>8, StartListingIs, ListNextIs
  <2>2. iter'[p] \in Iterator /\ IterOk(iter'[p], store) /\ iter'[p].stmt = "active"
    BY <1>0, <2>1, DeliveredOk
  <2>3. store' = store
    BY <2>1 DEF signals
  <2>4. QED
    BY <2>2, <2>3 DEF IterFine
<1>9. CASE ListEnds(p)
  <2>1. PICK it : /\ Ready(it, store) /\ Ahead(it, store) = <<>>
                  /\ iter'[p] = [it EXCEPT !.stmt = "done"] /\ UNCHANGED signals
    BY <1>0, <1>9, ListEndsIs
  <2>2. it \in Iterator /\ PassInv(it) /\ BaseKept(it, store)
    BY <2>1 DEF Ready
  <2>3. PassDone(it)
    BY <1>0, <2>1, <2>2, EndGivesAll
  <2>4. iter'[p] \in Iterator /\ IterOk(iter'[p], store) /\ iter'[p].stmt = "done"
    BY <2>1, <2>2, <2>3, StmtOk
  <2>5. store' = store
    BY <2>1 DEF signals
  <2>6. QED
    BY <2>4, <2>5 DEF IterFine
<1>10. CASE ListFails(p)
  <2>1. /\ iter[p] # NULL /\ iter'[p] = [iter[p] EXCEPT !.stmt = "dangling"]
        /\ iter[p].stmt \in {"active", "reset"}
        /\ p \in failed' /\ p \in stale' /\ store' = store
    BY <1>0, <1>10 DEF ListFails, NextFails, ListAgain, IterTypes, signals
  <2>2. iter[p] \in Iterator /\ PassInv(iter[p]) /\ iter[p].columns.id \in Ids
    BY <1>0, <2>1 DEF IterInv, IterTypes, IterOk, RowKept
  <2>3. iter'[p] \in Iterator /\ IterOk(iter'[p], store)
    BY <2>1, <2>2, StmtOk
  <2>4. QED
    BY <2>1, <2>3 DEF IterFine
<1>11. CASE ListAnew(p)
  <2>1. /\ iter[p] # NULL /\ iter'[p] = [iter[p] EXCEPT !.stmt = "reset"] /\ store' = store
        /\ iter[p].stmt = "active"
    BY <1>0, <1>11 DEF ListAnew, First, IterTypes, signals
  <2>2. iter[p] \in Iterator /\ PassInv(iter[p]) /\ iter[p].columns.id \in Ids
    BY <1>0, <2>1 DEF IterInv, IterTypes, IterOk, RowKept
  <2>3. iter'[p] \in Iterator /\ IterOk(iter'[p], store) /\ iter'[p].stmt = "reset"
    BY <2>1, <2>2, StmtOk
  <2>4. QED
    BY <2>1, <2>3 DEF IterFine
<1>12. CASE CloseListing(p) \/ CloseDangling(p)
  <2>1. iter'[p] = NULL
    BY <1>0, <1>12 DEF CloseListing, CloseDangling, Unref, UseDangling, IterTypes
  <2>2. QED
    BY <2>1 DEF IterFine
<1>13. QED
  BY <1>1, <1>2, <1>3, <1>4, <1>5, <1>6, <1>7, <1>8, <1>9, <1>10, <1>11, <1>12, NextIs
     DEF Calls, ViewerStep, Listing

(* The attachments listed are those of the row.                            *)
AttachedInv == \A p \in Viewers : attached[p] # NULL /\ attached[p].stmt = "active" =>
                  \/ store[attached[p].row.id] = attached[p].row.content
                  \/ attached[p].touched

AttachedFine(p) ==
    /\ attached'[p] \in AttachIterator \cup {NULL}
    /\ attached'[p] # NULL /\ attached'[p].stmt = "active" =>
          \/ store'[attached'[p].row.id] = attached'[p].row.content
          \/ attached'[p].touched

LEMMA SameAttachedFine ==
    ASSUME IterTypes, AttachedInv, NEW p \in Viewers, attached'[p] = attached[p],
           store' = store \/ ~ Holds(p)
    PROVE  AttachedFine(p)
BY DEF AttachedFine, AttachedInv, IterTypes, Holds

(* Steps over attachments.                                                 *)
LEMMA LookFine ==
    ASSUME SignalTypes, IterInv, AttachedInv, ViewTypes, NEW p \in Viewers,
           LookAtAttachments(p)
    PROVE  AttachedFine(p)
<1>0. store' = store /\ store \in Tables /\ IterTypes
  BY DEF LookAtAttachments, signals, SignalTypes, IterInv
<1>1. CASE OpenAttachments(p, store) /\ iter[p].stmt # "dangling"
  <2>1. iter[p] # NULL /\ iter[p].stmt \notin {"done", "reset", "dangling"}
    BY <1>1 DEF OpenAttachments, GivesWhole
  <2>2. iter[p] \in Iterator /\ IterOk(iter[p], store) /\ iter[p].stmt = "active"
    BY <2>1 DEF IterInv, IterTypes, Iterator
  <2>3. RowKept(iter[p], store)
    BY <2>2 DEF IterOk
  <2>4. iter[p].columns \in RowOf(Ids)
    BY <2>2, <2>3 DEF RowKept, Iterator, RowOf
  <2>5. PICK touched : touched = (iter[p].columns.id \in iter[p].pass.touched)
    OBVIOUS
  <2>7. touched \in BOOLEAN
    BY <2>5
  <2>6. attached'[p] = [stmt |-> "active", row |-> iter[p].columns, touched |-> touched]
    <3>1. attached' = [attached EXCEPT ![p] = [Attachments("active", Values(iter[p])) EXCEPT
                         !.touched = iter[p].stmt # "dangling" /\ touched]]
      BY <1>1, <2>5 DEF OpenAttachments, AttachmentsBecome, Values
    <3>2. QED
      BY <1>0, <1>1, <2>7, <3>1 DEF Attachments, Values, IterTypes
  <2>8. /\ attached'[p] \in AttachIterator /\ attached'[p].row = iter[p].columns
        /\ attached'[p].touched = touched
    BY <2>4, <2>6, <2>7 DEF AttachIterator
  <2>9. QED
    BY <1>0, <2>3, <2>5, <2>8 DEF AttachedFine, RowKept
<1>6. CASE OpenAttachments(p, store) /\ iter[p].stmt = "dangling"
  <2>1. PICK id : id = iter[p].columns.id
    OBVIOUS
  <2>2. id \in Ids
    BY <1>6, <2>1 DEF OpenAttachments, IterInv, IterOk
  <2>3. Row(id, store) \in RowOf(Ids) /\ Row(id, store).id = id
        /\ Row(id, store).content = store[id]
    BY <1>0, <2>2 DEF Row, RowOf, Tables
  <2>4. attached'[p] = [stmt |-> "active", row |-> Row(id, store), touched |-> FALSE]
    BY <1>0, <1>6, <2>1 DEF OpenAttachments, AttachmentsBecome, Attachments, Values, IterTypes
  <2>5. QED
    BY <1>0, <2>3, <2>4 DEF AttachedFine, AttachIterator
<1>2. CASE FirstAttachment(p)
  <2>1. attached[p] \in AttachIterator
    BY <1>0, <1>2 DEF FirstAttachment, IterTypes
  <2>2. attached'[p] = [stmt |-> "reset", row |-> attached[p].row, touched |-> FALSE]
    BY <1>0, <1>2 DEF FirstAttachment, AttachmentsBecome, Attachments, IterTypes
  <2>3. QED
    BY <2>1, <2>2 DEF AttachedFine, AttachIterator
<1>3. CASE RestartAttachments(p, store)
  <2>1. PICK id : id = attached[p].row.id
    OBVIOUS
  <2>2. attached[p] \in AttachIterator
    BY <1>0, <1>3 DEF RestartAttachments, IterTypes
  <2>3. id \in Ids
    BY <2>1, <2>2 DEF AttachIterator, RowOf
  <2>4. attached'[p] = IF store[id] = NULL THEN NULL
                       ELSE [stmt |-> "active", row |-> Row(id, store), touched |-> FALSE]
    BY <1>0, <1>3, <2>1 DEF RestartAttachments, AttachmentsBecome, Attachments, IterTypes
  <2>5. /\ Row(id, store) \in RowOf(Ids)
        /\ Row(id, store).id = id /\ Row(id, store).content = store[id]
    BY <1>0, <2>3 DEF Row, RowOf, Tables
  <2>6. QED
    BY <1>0, <2>4, <2>5 DEF AttachedFine, AttachIterator
<1>4. CASE CloseAttachments(p)
  BY <1>0, <1>4 DEF CloseAttachments, AttachmentsBecome, AttachedFine, IterTypes
<1>5. QED
  BY <1>1, <1>2, <1>3, <1>4, <1>6 DEF LookAtAttachments

(* Every step keeps the attachments those of their row.                    *)
LEMMA AttachedFineStep ==
    ASSUME SignalTypes, IterInv, AttachedInv, ViewTypes, NEW p \in Viewers, Next
    PROVE  AttachedFine(p)
<1>0. IterTypes /\ p \in Programs
  BY ProgramsAssumption DEF IterInv
<1>1. ASSUME NEW q \in Programs, q # p, Calls(q) PROVE AttachedFine(p)
  BY <1>0, <1>1, CallsLeave, SameAttachedFine DEF Left
<1>2. ASSUME NEW q \in Viewers, q # p, ViewerStep(q) PROVE AttachedFine(p)
  BY <1>0, <1>2, ViewersLeave, SameAttachedFine DEF Left
<1>3. CASE Change(p)
  <2>1. PICK changed : changed = {id \in Ids : store'[id] # store[id]}
    OBVIOUS
  <2>2. CASE attached[p] = NULL
    BY <1>3, <2>2 DEF Change, Touch, AttachedFine
  <2>3. CASE attached[p] # NULL
    <3>1. attached[p] \in AttachIterator /\ attached[p].row.id \in Ids
      BY <1>0, <2>3 DEF IterTypes, AttachIterator, RowOf
    <3>2. PICK touched : touched = (attached[p].touched \/ attached[p].row.id \in changed)
      OBVIOUS
    <3>3. attached'[p] = [attached[p] EXCEPT !.touched = touched]
      BY <1>0, <1>3, <2>1, <2>3, <3>2 DEF Change, Touch, IterTypes
    <3>4. touched \in BOOLEAN
      BY <3>2
    <3>5. /\ attached'[p] \in AttachIterator /\ attached'[p].stmt = attached[p].stmt
          /\ attached'[p].row = attached[p].row /\ attached'[p].touched = touched
      BY <3>1, <3>3, <3>4 DEF AttachIterator
    <3>6. QED
      BY <2>1, <2>3, <3>1, <3>2, <3>5 DEF AttachedFine, AttachedInv
  <2>4. QED
    BY <2>2, <2>3
<1>4. CASE StartBatch(p) \/ FailBatch(p) \/ Announce(p)
  <2>1. UNCHANGED <<attached, store>>
    BY <1>4 DEF StartBatch, FailBatch, Announce, SetReadEvents, UpdateFails, Emit, iterators
  <2>2. QED
    BY <1>0, <2>1, SameAttachedFine
<1>5. CASE Die(p)
  BY <1>0, <1>5 DEF Die, IterTypes, AttachedFine
<1>6. CASE LookAtAttachments(p)
  BY <1>6, LookFine
<1>7. CASE ViewerStep(p) /\ ~ LookAtAttachments(p)
  <2>1. UNCHANGED <<attached, store>>
    BY <1>7 DEF ViewerStep, EditQuery, HandleSignal, Dispatch, Listing, StartListing, Open,
       NothingToList, OpenEmpty, OpenFails, ListNext, NextRow, ListEnds, NextEnds, ListFails,
       NextFails, ListAnew, First, CloseListing, Unref, CloseDangling, UseDangling, signals,
       iterators
  <2>2. QED
    BY <1>0, <2>1, SameAttachedFine
<1>8. QED
  BY <1>1, <1>2, <1>3, <1>4, <1>5, <1>6, <1>7, NextIs DEF Calls

---------------------------------------------------------------------------
(* What the viewers show                                                   *)

(* A viewer that has to list again shows nothing; one that lists shows     *)
(* what its iterator lists.                                                *)
ViewInv == /\ ViewTypes
           /\ \A p \in Viewers : /\ p \in stale => view[p] = Empty
                                 /\ p \notin stale /\ iter[p] # NULL
                                        => iter[p].sql = shows[p]

ViewFine(p) ==
    /\ shows'[p] \in SqlText \cup {NULL} /\ view'[p] \in Tables
    /\ mixed'[p] \in SUBSET Ids /\ unread'[p] \in SUBSET Ids
    /\ p \in stale' => view'[p] = Empty
    /\ p \notin stale' /\ iter'[p] # NULL => iter'[p].sql = shows'[p]

(* A view that is left alone, that is cleared, and that gets a row.        *)
LEMMA SameViewFine ==
    ASSUME ViewInv, NEW p \in Viewers, view'[p] = view[p], shows'[p] = shows[p],
           mixed'[p] = mixed[p], unread'[p] = unread[p], p \in stale' <=> p \in stale,
           iter'[p] # NULL => iter[p] # NULL /\ iter'[p].sql = iter[p].sql
    PROVE  ViewFine(p)
BY DEF ViewInv, ViewTypes, ViewFine

LEMMA ListAgainFine ==
    ASSUME ViewInv, NEW p \in Viewers, ListAgain(p)
    PROVE  ViewFine(p)
BY EmptyIs DEF ViewInv, ViewTypes, ViewFine, ListAgain

LEMMA EnteredFine ==
    ASSUME ViewTypes, NEW p \in Viewers, NEW d \in Iterator, d.columns \in RowOf(Ids),
           NEW starts \in BOOLEAN, Entered(p, d, starts)
    PROVE  view'[p] \in Tables /\ mixed'[p] \in SUBSET Ids /\ unread'[p] \in SUBSET Ids
<1>1. /\ d.columns.id \in Ids /\ d.columns.content \in Contents \cup {NULL}
      /\ d.pass.touched \in SUBSET Ids
  BY IteratorIs DEF RowOf
<1>2. /\ Empty \in Tables /\ view[p] \in Tables
      /\ mixed[p] \in SUBSET Ids /\ unread[p] \in SUBSET Ids
  BY EmptyIs DEF ViewTypes
<1>3. QED
  BY <1>1, <1>2 DEF Entered, Tables

LEMMA ShownIs ==
    ASSUME NEW p, NEW id \in Ids, store \in Tables
    PROVE  Shown(p, id) \in Contents \cup {NULL}
BY DEF Shown, Tables

(* What reading an event again makes of the view.                          *)
RereadFine(p, id) ==
    \/ /\ view'[p] = [view[p] EXCEPT ![id] = Shown(p, id)]
       /\ unread'[p] = unread[p] \ {id}
    \/ /\ view'[p] = [view[p] EXCEPT ![id] = NULL]
       /\ unread'[p] = unread[p] \cup {id}

(* A signal that is handled.                                               *)
LEMMA HandleSignalIs ==
    ASSUME SignalTypes, ViewTypes, NEW p \in Viewers, HandleSignal(p)
    PROVE  /\ mail[p] \in Seq(Signal) /\ mail[p] # <<>> /\ mail'[p] = Tail(mail[p])
           /\ \A v \in Viewers \ {p} : mail'[v] = mail[v]
           /\ UNCHANGED <<store, call, untold, iter, attached, failed>>
           /\ \/ ListAgain(p)
              \/ /\ Head(mail[p]).id \in Ids \ {NULL} /\ UNCHANGED <<shows, stale>>
                 /\ mixed'[p] = mixed[p] \ {Head(mail[p]).id}
                 /\ p \in stale => view'[p] = view[p] /\ unread'[p] = unread[p]
                 /\ p \notin stale => RereadFine(p, Head(mail[p]).id)
<1>1. /\ mail[p] \in Seq(Signal) /\ mail[p] # <<>> /\ mail'[p] = Tail(mail[p])
      /\ \A v \in Viewers \ {p} : mail'[v] = mail[v]
  BY DEF HandleSignal, Dispatch, SignalTypes
<1>2. Head(mail[p]).id \in Ids \cup {NULL}
  <2>1. Head(mail[p]) \in Signal
    BY <1>1
  <2>2. QED
    BY <2>1 DEF Signal
<1>3. UNCHANGED <<store, call, untold, iter, attached, failed>>
  BY DEF HandleSignal, Dispatch, iterators, Reread
<1>4. CASE Head(mail[p]).id = NULL
  BY <1>1, <1>3, <1>4 DEF HandleSignal
<1>5. CASE Head(mail[p]).id # NULL
  <2>1. PICK id : id = Head(mail[p]).id
    OBVIOUS
  <2>2. /\ p \in stale => UNCHANGED <<view, unread>>
        /\ p \notin stale => Reread(p, id)
        /\ mixed' = [mixed EXCEPT ![p] = mixed[p] \ {id}]
        /\ UNCHANGED <<shows, stale>>
    BY <1>5, <2>1 DEF HandleSignal
  <2>3. Reread(p, id) => RereadFine(p, id)
    BY DEF Reread, RereadFine, ViewTypes
  <2>4. QED
    BY <1>1, <1>2, <1>3, <1>5, <2>1, <2>2, <2>3 DEF ViewTypes
<1>6. QED
  BY <1>4, <1>5

(* Every step keeps every view as the invariant has it.                    *)
LEMMA ViewFineStep ==
    ASSUME QueryTypes, SignalTypes, IterInv, ViewInv, NEW p \in Viewers, Next
    PROVE  ViewFine(p)
<1>0. store \in Tables /\ IterTypes /\ ViewTypes /\ p \in Programs
  BY ProgramsAssumption DEF SignalTypes, IterInv, ViewInv
<1>1. ASSUME NEW q \in Programs, q # p, Calls(q) PROVE ViewFine(p)
  BY <1>0, <1>1, CallsLeave, SameViewFine DEF Left
<1>2. ASSUME NEW q \in Viewers, q # p, ViewerStep(q) PROVE ViewFine(p)
  BY <1>0, <1>2, ViewersLeave, SameViewFine DEF Left
<1>3. CASE Change(p)
  <2>1. UNCHANGED views
    BY <1>3 DEF Change
  <2>2. iter'[p] # NULL => iter[p] # NULL /\ iter'[p].sql = iter[p].sql
    <3>1. CASE iter[p] = NULL
      BY <1>3, <3>1 DEF Change, Touch
    <3>2. CASE iter[p] # NULL
      <4>1. iter[p] \in Iterator
        BY <1>0, <3>2 DEF IterTypes
      <4>2. PICK changed : iter'[p] = [iter[p] EXCEPT !.pass.touched = @ \cup changed]
        BY <1>0, <1>3, <3>2 DEF Change, Touch, IterTypes
      <4>3. QED
        BY <3>2, <4>1, <4>2 DEF Iterator
    <3>3. QED
      BY <3>1, <3>2
  <2>3. QED
    BY <2>1, <2>2, SameViewFine DEF views
<1>4. CASE StartBatch(p) \/ FailBatch(p) \/ Announce(p) \/ LookAtAttachments(p)
  <2>1. UNCHANGED iter /\ UNCHANGED views
    BY <1>4 DEF StartBatch, FailBatch, Announce, LookAtAttachments, OpenAttachments,
       FirstAttachment, RestartAttachments, CloseAttachments, AttachmentsBecome, iterators
  <2>2. QED
    BY <2>1, SameViewFine DEF views
<1>5. CASE Die(p) \/ EditQuery(p) \/ ListFails(p)
  BY <1>5, ListAgainFine DEF Die, EditQuery, ListFails
<1>6. CASE HandleSignal(p)
  <2>1. CASE ListAgain(p)
    BY <2>1, ListAgainFine
  <2>2. CASE ~ ListAgain(p)
    <3>1. PICK id : id = Head(mail[p]).id
      OBVIOUS
    <3>2. /\ id \in Ids /\ UNCHANGED <<shows, stale, iter>>
          /\ mixed'[p] = mixed[p] \ {id}
          /\ p \in stale => view'[p] = view[p] /\ unread'[p] = unread[p]
          /\ p \notin stale => RereadFine(p, id)
      BY <1>0, <1>6, <2>2, <3>1, HandleSignalIs
    <3>3. /\ [view[p] EXCEPT ![id] = Shown(p, id)] \in Tables
          /\ [view[p] EXCEPT ![id] = NULL] \in Tables
      BY <1>0, <3>2, ShownIs DEF ViewTypes, Tables
    <3>4. RereadFine(p, id) => view'[p] \in Tables /\ unread'[p] \in SUBSET Ids
      BY <1>0, <3>2, <3>3 DEF RereadFine, ViewTypes
    <3>5. QED
      BY <1>0, <3>2, <3>4 DEF ViewFine, ViewInv, ViewTypes
  <2>3. QED
    BY <2>1, <2>2
<1>7. CASE StartListing(p)
  <2>1. PICK it : /\ Ready(it, store) /\ Ahead(it, store) # <<>>
                  /\ iter'[p] = Delivered(it, store) /\ Entered(p, iter'[p], TRUE)
                  /\ shows'[p] = it.sql /\ p \notin stale'
    BY <1>0, <1>7, StartListingIs
  <2>2. iter'[p] \in Iterator /\ iter'[p].columns \in RowOf(Ids) /\ iter'[p].sql = it.sql
    BY <1>0, <2>1, DeliveredIs DEF Ready
  <2>3. view'[p] \in Tables /\ mixed'[p] \in SUBSET Ids /\ unread'[p] \in SUBSET Ids
    BY <1>0, <2>1, <2>2, EnteredFine
  <2>4. it.sql \in SqlText
    BY <2>1, IteratorIs DEF Ready
  <2>5. QED
    BY <2>1, <2>2, <2>3, <2>4 DEF ViewFine
<1>8. CASE NothingToList(p)
  <2>1. /\ iter'[p] = NULL /\ shows'[p] = query[p].sql /\ query[p].sql # NULL
        /\ UNCHANGED <<view, mixed>> /\ p \notin stale'
    BY <1>0, <1>8 DEF NothingToList, OpenEmpty, OpenFails, ViewTypes
  <2>2. query[p].sql \in SqlText
    BY <2>1 DEF QueryTypes, Query
  <2>3. unread'[p] \in SUBSET Ids
    <3>1. Matching(query[p].sql.where, store) \in SUBSET Ids
      BY DEF Matching
    <3>2. QED
      BY <1>0, <1>8, <3>1 DEF NothingToList, ViewTypes
  <2>4. QED
    BY <1>0, <2>1, <2>2, <2>3 DEF ViewFine, ViewTypes
<1>9. CASE ListNext(p)
  <2>1. PICK it : /\ Ready(it, store) /\ Ahead(it, store) # <<>>
                  /\ iter[p] # NULL /\ it.sql = iter[p].sql
                  /\ iter'[p] = Delivered(it, store)
                  /\ p \notin stale => Entered(p, iter'[p], iter[p].stmt = "reset")
                  /\ p \in stale => view'[p] = view[p] /\ unread'[p] = unread[p]
                  /\ UNCHANGED <<shows, stale>>
    BY <1>0, <1>9, ListNextIs
  <2>2. iter'[p] \in Iterator /\ iter'[p].columns \in RowOf(Ids) /\ iter'[p].sql = it.sql
    BY <1>0, <2>1, DeliveredIs DEF Ready
  <2>3. CASE p \in stale
    <3>1. mixed' = mixed
      BY <1>9, <2>3 DEF ListNext
    <3>2. QED
      BY <1>0, <2>1, <2>3, <3>1 DEF ViewFine, ViewInv, ViewTypes
  <2>4. CASE p \notin stale
    <3>1. (iter[p].stmt = "reset") \in BOOLEAN
      OBVIOUS
    <3>2. view'[p] \in Tables /\ mixed'[p] \in SUBSET Ids /\ unread'[p] \in SUBSET Ids
      BY <1>0, <2>1, <2>2, <2>4, <3>1, EnteredFine
    <3>3. QED
      BY <1>0, <2>1, <2>2, <2>4, <3>2 DEF ViewFine, ViewInv, ViewTypes
  <2>5. QED
    BY <2>3, <2>4
<1>10. CASE ListEnds(p)
  <2>1. PICK it : /\ Ready(it, store) /\ it.sql = iter[p].sql /\ iter[p] # NULL
                  /\ iter[p].stmt \in {"active", "reset"}
                  /\ iter[p].stmt = "active" => view'[p] = view[p]
                  /\ iter[p].stmt = "reset" => view'[p] = Empty
                  /\ iter'[p] = [it EXCEPT !.stmt = "done"]
                  /\ UNCHANGED <<shows, stale, mixed, unread>>
    BY <1>0, <1>10, ListEndsIs
  <2>2. iter'[p].sql = iter[p].sql
    BY <2>1 DEF Ready, Iterator
  <2>3. view'[p] = view[p] \/ view'[p] = Empty
    BY <2>1
  <2>4. QED
    BY <1>0, <2>1, <2>2, <2>3, EmptyIs DEF ViewFine, ViewInv, ViewTypes
<1>11. CASE ListAnew(p)
  <2>1. /\ iter[p] # NULL /\ iter'[p] = [iter[p] EXCEPT !.stmt = "reset"]
        /\ UNCHANGED views
    BY <1>0, <1>11 DEF ListAnew, First, IterTypes
  <2>2. iter'[p].sql = iter[p].sql
    BY <1>0, <2>1 DEF IterTypes, Iterator
  <2>3. QED
    BY <2>1, <2>2, SameViewFine DEF views
<1>12. CASE CloseListing(p)
  <2>1. iter'[p] = NULL
    BY <1>0, <1>12 DEF CloseListing, Unref, IterTypes
  <2>2. UNCHANGED views \/ ListAgain(p)
    BY <1>12 DEF CloseListing
  <2>3. QED
    BY <2>1, <2>2, SameViewFine, ListAgainFine DEF views
<1>13. CASE CloseDangling(p)
  <2>1. iter'[p] = NULL /\ UNCHANGED views
    BY <1>0, <1>13 DEF CloseDangling, UseDangling, IterTypes
  <2>2. QED
    BY <2>1, SameViewFine DEF views
<1>14. QED
  BY <1>1, <1>2, <1>3, <1>4, <1>5, <1>6, <1>7, <1>8, <1>9, <1>10, <1>11, <1>12, <1>13, NextIs
     DEF Calls, ViewerStep, Listing

---------------------------------------------------------------------------
(* The inductive invariant                                                 *)

(* A clause is what the last prepare asked for.                            *)
QueryInv == /\ QueryTypes
            /\ \A p \in Viewers : query[p].where # NULL => asked[p] = query[p].where

IInv == /\ QueryInv /\ SignalTypes /\ IterInv /\ AttachedInv /\ ViewInv
        /\ MisusedAfterFailure

(* Every step keeps what the clauses are.                                  *)
LEMMA QueryInvStep ==
    ASSUME QueryInv, [Next]_vars
    PROVE  QueryInv'
<1>1. QueryTypes'
  BY QueryTypesStep DEF QueryInv
<1>2. ASSUME NEW p \in Viewers, Die(p) PROVE QueryInv'
  BY <1>1, <1>2, NewQueryIs DEF Die, QueryInv, QueryTypes
<1>3. ASSUME NEW p \in Viewers, EditQuery(p) PROVE QueryInv'
  <2>1. ASSUME NEW setting \in Settings, Set(p, setting) PROVE QueryInv'
    <3>1. UNCHANGED asked /\ \A v \in Viewers : query'[v].where = query[v].where
      BY <2>1 DEF Set, QueryInv, QueryTypes, Query
    <3>2. QED
      BY <1>1, <3>1 DEF QueryInv
  <2>2. ASSUME Refresh(p) PROVE QueryInv'
    <3>1. UNCHANGED asked /\ \A v \in Viewers : query'[v].where = query[v].where
      BY <2>2 DEF Refresh, QueryInv, QueryTypes, Query
    <3>2. QED
      BY <1>1, <3>1 DEF QueryInv
  <2>3. ASSUME NEW conditions, Prepare(p, conditions) PROVE QueryInv'
    <3>1. /\ query'[p].where = Clause(p, conditions)
          /\ \A v \in Viewers \ {p} : query'[v] = query[v] /\ asked'[v] = asked[v]
      BY <2>3 DEF Prepare, QueryInv, QueryTypes, Query
    <3>2. asked'[p] = IF \A i \in DOMAIN conditions : Builds(conditions[i])
                      THEN conditions ELSE NULL
      BY <2>3 DEF Prepare, QueryInv, QueryTypes
    <3>3. query'[p].where # NULL => asked'[p] = query'[p].where
      BY <3>1, <3>2 DEF Clause
    <3>4. QED
      BY <1>1, <3>1, <3>3 DEF QueryInv
  <2>4. QED
    BY <1>3, <2>1, <2>2, <2>3 DEF EditQuery
<1>4. UNCHANGED <<query, asked>> => QueryInv'
  BY DEF QueryInv, QueryTypes
<1>5. QED
  BY <1>2, <1>3, <1>4, QueryFrame

(* A statement that dangles has failed.                                    *)
LEMMA MisuseStep ==
    ASSUME IterInv, MisusedAfterFailure, [Next]_vars
    PROVE  MisusedAfterFailure'
<1> USE DEF MisusedAfterFailure, iterators
<1>1. ASSUME NEW q \in Programs, Calls(q) PROVE MisusedAfterFailure'
  BY <1>1 DEF Calls, Change, StartBatch, FailBatch, Announce, Die
<1>2. ASSUME NEW q \in Viewers, CloseDangling(q) PROVE MisusedAfterFailure'
  <2>1. iter[q] # NULL /\ iter[q].stmt = "dangling" /\ misused' = misused \cup {q}
        /\ failed' = failed
    BY <1>2 DEF CloseDangling, UseDangling
  <2>2. q \in failed
    BY <2>1 DEF IterInv
  <2>3. QED
    BY <2>1, <2>2
<1>3. ASSUME NEW q \in Viewers, LookAtAttachments(q) PROVE MisusedAfterFailure'
  BY <1>3 DEF LookAtAttachments, OpenAttachments, FirstAttachment, RestartAttachments,
              CloseAttachments, AttachmentsBecome
<1>4. ASSUME NEW q \in Viewers, ViewerStep(q), ~ CloseDangling(q), ~ LookAtAttachments(q)
      PROVE  MisusedAfterFailure'
  BY <1>4 DEF ViewerStep, EditQuery, HandleSignal, Listing, StartListing, Open, NothingToList,
     OpenEmpty, OpenFails, ListNext, NextRow, ListEnds, NextEnds, ListFails, NextFails, ListAnew, First, CloseListing,
     Unref
<1>5. UNCHANGED vars => MisusedAfterFailure'
  BY DEF vars
<1>6. QED
  BY <1>1, <1>2, <1>3, <1>4, <1>5, NextIs

(* The invariant holds at the start, and every step keeps it.              *)
LEMMA InitIInv ==
    ASSUME Init
    PROVE  IInv
<1> USE DEF Init
<1>1. QueryInv
  BY NewQueryIs DEF QueryInv, QueryTypes
<1>2. SignalTypes
  BY EmptyIs, NothingIs DEF SignalTypes
<1>3. IterInv /\ AttachedInv
  BY DEF IterInv, IterTypes, AttachedInv
<1>4. ViewInv
  BY EmptyIs DEF ViewInv, ViewTypes
<1>5. MisusedAfterFailure
  BY DEF MisusedAfterFailure
<1>6. QED
  BY <1>1, <1>2, <1>3, <1>4, <1>5 DEF IInv

LEMMA NextIInv ==
    ASSUME IInv, [Next]_vars
    PROVE  IInv'
<1>1. QueryInv' /\ SignalTypes' /\ MisusedAfterFailure'
  BY QueryInvStep, SignalTypesStep, MisuseStep DEF IInv, QueryInv
<1>2. CASE Next
  <2>0. /\ QueryTypes /\ SignalTypes /\ SignalTypes' /\ IterInv /\ IterTypes /\ AttachedInv
        /\ ViewInv /\ ViewTypes
    BY <1>1 DEF IInv, QueryInv, IterInv, ViewInv
  <2>1. /\ iter' = [v \in Viewers |-> iter'[v]] /\ attached' = [v \in Viewers |-> attached'[v]]
        /\ view' = [v \in Viewers |-> view'[v]] /\ shows' = [v \in Viewers |-> shows'[v]]
        /\ mixed' = [v \in Viewers |-> mixed'[v]] /\ unread' = [v \in Viewers |-> unread'[v]]
        /\ stale' \in SUBSET Viewers
    BY <1>2, <2>0, FunctionsStay DEF Functions
  <2>2. \A p \in Viewers : IterFine(p)
    BY <1>2, <2>0, IterFineStep
  <2>3. \A p \in Viewers : AttachedFine(p)
    BY <1>2, <2>0, AttachedFineStep
  <2>4. \A p \in Viewers : ViewFine(p)
    BY <1>2, <2>0, ViewFineStep
  <2>5. IterTypes'
    <3>1. iter' \in [Viewers -> Iterator \cup {NULL}]
      BY <2>1, <2>2 DEF IterFine
    <3>2. attached' \in [Viewers -> AttachIterator \cup {NULL}]
      BY <2>1, <2>3 DEF AttachedFine
    <3>3. QED
      BY <3>1, <3>2 DEF IterTypes
  <2>6. IterInv'
    BY <2>2, <2>5 DEF IterInv, IterFine
  <2>7. AttachedInv'
    BY <2>3 DEF AttachedInv, AttachedFine
  <2>8. ViewTypes'
    <3>1. view' \in [Viewers -> Tables]
      BY <2>1, <2>4 DEF ViewFine
    <3>2. shows' \in [Viewers -> SqlText \cup {NULL}]
      BY <2>1, <2>4 DEF ViewFine
    <3>3. mixed' \in [Viewers -> SUBSET Ids]
      BY <2>1, <2>4 DEF ViewFine
    <3>4. unread' \in [Viewers -> SUBSET Ids]
      BY <2>1, <2>4 DEF ViewFine
    <3>5. QED
      BY <2>1, <3>1, <3>2, <3>3, <3>4 DEF ViewTypes
  <2>9. ViewInv'
    BY <2>4, <2>8 DEF ViewInv, ViewFine
  <2>10. QED
    BY <1>1, <2>6, <2>7, <2>9 DEF IInv
<1>3. CASE UNCHANGED vars
  <2>1. IterInv' /\ AttachedInv' /\ ViewInv'
    BY <1>3 DEF IInv, vars, signals, iterators, views, IterInv, IterTypes, AttachedInv, ViewInv,
       ViewTypes
  <2>2. QED
    BY <1>1, <2>1 DEF IInv
<1>4. QED
  BY <1>2, <1>3

(* What queries, calls, iterators, attachments and views hold in every      *)
(* reachable state: the inductive invariant of this component.             *)
THEOREM ViewInvariant == Spec => []IInv
<1>1. Init => IInv
  BY InitIInv
<1>2. IInv /\ [Next]_vars => IInv'
  BY NextIInv
<1>3. QED
  BY <1>1, <1>2, PTL DEF Spec

(* rtcom_el_iter_*() uses a finalised statement only after a step of it     *)
(* failed: sqlite3_step() that ends a listing also clears priv->stmt.      *)
THEOREM MisuseFollowsFailure == Spec => []MisusedAfterFailure
<1>1. IInv => MisusedAfterFailure
  BY DEF IInv
<1>2. QED
  BY <1>1, ViewInvariant, PTL

(* Whatever other programs and the viewer itself do while an iterator is    *)
(* open, rtcom_el_iter_next() gives events from the last to the first, each *)
(* once, and has given all that were due when it ends, but for those the    *)
(* viewer changed meanwhile.                                               *)
THEOREM ScansAreComplete == Spec => []ScansMissNothing
<1>1. IInv => ScansMissNothing
  <2>1. SUFFICES ASSUME IInv, NEW p \in Viewers, iter[p] # NULL,
                        NEW due, due = Rows(iter[p].sql, iter[p].pass.base)
                 PROVE  /\ \A i, j \in DOMAIN iter[p].pass.got :
                              i < j => iter[p].pass.got[i] > iter[p].pass.got[j]
                        /\ iter[p].stmt = "done"
                             /\ (iter[p].pass.touched = {} \/ Plain(iter[p].sql))
                           => \A i \in DOMAIN due : due[i] \in iter[p].pass.touched
                                 \/ \E j \in DOMAIN iter[p].pass.got :
                                       iter[p].pass.got[j] = due[i]
    BY DEF ScansMissNothing
  <2>2. iter[p] \in Iterator /\ IterOk(iter[p], store)
    BY <2>1 DEF IInv, IterInv, IterTypes
  <2>3. DOMAIN due = 1..Len(due)
    BY <2>1, <2>2, IteratorIs, RowsAre
  <2>4. QED
    BY <2>1, <2>2, <2>3 DEF IterOk, PassInv, PassDone, Decreasing, Given
<1>2. QED
  BY <1>1, ViewInvariant, PTL

(* rtcom_el_iter_get_full() and the iterators over attachments read the     *)
(* details of the very event the row is of, unless the program changed it. *)
THEOREM WholeEventsAreStored == Spec => []WholeEventIsStored
<1>1. IInv => WholeEventIsStored
  <2>1. SUFFICES ASSUME IInv, NEW p \in Viewers
                 PROVE  /\ iter[p] # NULL /\ GivesWhole(iter[p])
                             /\ iter[p].stmt \notin {"reset", "dangling"} =>
                              \/ store[iter[p].columns.id] = iter[p].columns.content
                              \/ iter[p].columns.id \in iter[p].pass.touched
                        /\ attached[p] # NULL /\ attached[p].stmt = "active" =>
                              \/ store[attached[p].row.id] = attached[p].row.content
                              \/ attached[p].touched
    BY DEF WholeEventIsStored, Values
  <2>2. iter[p] # NULL => iter[p] \in Iterator /\ IterOk(iter[p], store)
    BY <2>1 DEF IInv, IterInv, IterTypes
  <2>3. iter[p] # NULL /\ GivesWhole(iter[p]) /\ iter[p].stmt \notin {"reset", "dangling"}
           => RowKept(iter[p], store)
    BY <2>2 DEF GivesWhole, Iterator, IterOk
  <2>4. QED
    BY <2>1, <2>3 DEF RowKept, IInv, AttachedInv
<1>2. QED
  BY <1>1, ViewInvariant, PTL

(* Every event that a rtcom_el_delete_events() removes is one the last      *)
(* rtcom_el_query_prepare() of its query asked for.                        *)
THEOREM OnlyTheAskedAreDeleted == Spec => DeletesOnlyAsked
<1>1. ASSUME IInv, [Next]_vars
      PROVE  \A p \in Viewers : DeleteEvents(p) =>
                \A id \in Ids : store'[id] # store[id]
                                  => asked[p] # NULL /\ Admits(asked[p], store[id])
  <2>1. SUFFICES ASSUME NEW p \in Viewers, DeleteEvents(p), NEW id \in Ids,
                        store'[id] # store[id]
                 PROVE  asked[p] # NULL /\ Admits(asked[p], store[id])
    OBVIOUS
  <2>2. query[p].where # NULL /\ asked[p] = query[p].where
    BY <1>1, <2>1 DEF DeleteEvents, IInv, QueryInv
  <2>3. store' = Without(store, Matching(query[p].where, store))
    BY <2>1 DEF DeleteEvents, Commits
  <2>4. id \in Matching(query[p].where, store)
    BY <1>1, <2>1, <2>3, WithoutIs DEF IInv, SignalTypes
  <2>5. QED
    BY <2>2, <2>4 DEF Matching
<1>2. QED
  BY <1>1, ViewInvariant, PTL DEF Spec, DeletesOnlyAsked

---------------------------------------------------------------------------
(* Whatever is shown differently from the log is accounted for             *)

Told(p, id) == IsAnnounced(p, id) \/ id \in untold

Accounted(p, id) == \/ view[p][id] = Shown(p, id)
                    \/ Told(p, id) \/ IsAhead(p, id)
                    \/ id \in mixed[p] \/ id \in unread[p]

(* The property, event by event.                                           *)
LEMMA StaleIsAnnouncedIs ==
    StaleIsAnnounced <=> \A p \in Viewers \ stale : Plain(shows[p]) =>
                            \A id \in Ids : Accounted(p, id)
BY DEF StaleIsAnnounced, Accounted, Told

LEMMA IsAheadIs ==
    ASSUME NEW p, NEW id
    PROVE  IsAhead(p, id) <=> /\ ~ Listed(p)
                              /\ iter[p].stmt = "reset" \/ ComesTo(iter[p], store, id)
BY DEF IsAhead, ComesTo

(* An announcement is kept until the viewer dispatches it.                 *)
LEMMA ToldStaysTold ==
    ASSUME QueryTypes, SignalTypes, ViewTypes, Next, NEW p \in Viewers, NEW id \in Ids,
           ~ HandleSignal(p), p \notin stale', Told(p, id)
    PROVE  Told(p, id)'
<1> USE DEF Told, IsAnnounced
<1>0. mail[p] \in Seq(Signal)
  BY DEF SignalTypes
<1>1. ASSUME NEW q \in Programs, call[q].emit = NULL, UNCHANGED <<mail, untold>>,
             \A r \in Programs \ {q} : call'[r] = call[r]
      PROVE  Told(p, id)'
  BY <1>1
<1>2. ASSUME NEW q \in Programs, Change(q) PROVE Told(p, id)'
  BY <1>1, <1>2, ChangeIs
<1>3. ASSUME NEW q \in Programs, StartBatch(q) PROVE Told(p, id)'
  BY <1>1, <1>3, StartBatchIs
<1>4. ASSUME NEW q \in Programs, FailBatch(q) PROVE Told(p, id)'
  BY <1>1, <1>4, FailBatchIs
<1>5. ASSUME NEW q \in Programs, Announce(q) PROVE Told(p, id)'
  <2>1. /\ call[q].emit \in Signal
        /\ mail'[p] = Append(mail[p], call[q].emit)
        /\ untold' = untold \ Concerns(call[q].emit)
        /\ \A r \in Programs \ {q} : call'[r] = call[r]
    BY <1>5, AnnounceIs
  <2>2. /\ Len(mail[p]) + 1 \in DOMAIN mail'[p]
        /\ mail'[p][Len(mail[p]) + 1] = call[q].emit
    BY <1>0, <2>1
  <2>3. \A i \in DOMAIN mail[p] : i \in DOMAIN mail'[p] /\ mail'[p][i] = mail[p][i]
    BY <1>0, <2>1
  <2>4. id \in Concerns(call[q].emit) => Told(p, id)'
    BY <2>2
  <2>5. CASE id \notin Concerns(call[q].emit)
    <3>1. (\E i \in DOMAIN mail[p] : id \in Concerns(mail[p][i])) => Told(p, id)'
      BY <2>3
    <3>2. id \in untold => Told(p, id)'
      BY <2>1, <2>5
    <3>3. (\E r \in Programs : call[r].emit # NULL /\ id \in Concerns(call[r].emit))
             => Told(p, id)'
      BY <2>1, <2>5
    <3>4. QED
      BY <3>1, <3>2, <3>3
  <2>6. QED
    BY <2>4, <2>5
<1>6. ASSUME NEW q \in Programs, Die(q) PROVE Told(p, id)'
  <2>1. q # p
    BY <1>6 DEF Die, ListAgain
  <2>2. /\ mail'[p] = mail[p] /\ \A r \in Programs \ {q} : call'[r] = call[r]
        /\ call[q].emit = NULL => untold' = untold
        /\ call[q].emit # NULL => untold' = untold \cup Concerns(call[q].emit)
    BY <1>6, <2>1, DieIs
  <2>3. QED
    BY <2>2
<1>7. ASSUME NEW q \in Viewers, HandleSignal(q) PROVE Told(p, id)'
  <2>1. q # p
    BY <1>7
  <2>2. mail'[p] = mail[p] /\ UNCHANGED <<call, untold>>
    BY <1>7, <2>1, HandleSignalIs
  <2>3. QED
    BY <2>2
<1>8. ASSUME NEW q \in Viewers, ViewerStep(q), ~ HandleSignal(q) PROVE Told(p, id)'
  <2>1. UNCHANGED signals
    BY <1>8 DEF ViewerStep, EditQuery, Listing, StartListing, NothingToList, ListNext,
       ListEnds, ListFails, ListAnew, CloseListing, CloseDangling, LookAtAttachments
  <2>2. QED
    BY <2>1 DEF signals
<1>9. QED
  BY <1>2, <1>3, <1>4, <1>5, <1>6, <1>7, <1>8, NextIs DEF Calls

(* A signal that is dispatched still leaves the others.                    *)
LEMMA OthersStayTold ==
    ASSUME SignalTypes, ViewTypes, NEW p \in Viewers, HandleSignal(p), NEW id \in Ids,
           Head(mail[p]).id \in Ids \ {NULL}, id # Head(mail[p]).id, Told(p, id)
    PROVE  Told(p, id)'
<1>1. /\ mail[p] \in Seq(Signal) /\ mail[p] # <<>> /\ mail'[p] = Tail(mail[p])
      /\ UNCHANGED <<call, untold>>
  BY HandleSignalIs
<1>2. id \notin Concerns(mail[p][1])
  <2>1. Head(mail[p]) = mail[p][1]
    BY <1>1
  <2>2. QED
    BY <2>1 DEF Concerns
<1>3. ASSUME NEW i \in DOMAIN mail[p], id \in Concerns(mail[p][i])
      PROVE  i - 1 \in DOMAIN mail'[p] /\ mail'[p][i - 1] = mail[p][i]
  <2>1. i \in 1..Len(mail[p]) /\ i # 1 /\ Len(mail[p]) \in Nat
    BY <1>1, <1>2, <1>3
  <2>2. /\ DOMAIN mail'[p] = 1..(Len(mail[p]) - 1)
        /\ \A k \in 1..(Len(mail[p]) - 1) : mail'[p][k] = mail[p][k + 1]
    BY <1>1
  <2>3. i - 1 \in 1..(Len(mail[p]) - 1) /\ (i - 1) + 1 = i
    BY <2>1
  <2>4. QED
    BY <2>2, <2>3
<1>4. QED
  BY <1>1, <1>3 DEF Told, IsAnnounced

(* Nothing that matters to the event has changed.                          *)
LEMMA StaysAccounted ==
    ASSUME NEW p \in Viewers, NEW id \in Ids, Accounted(p, id),
           view'[p][id] = view[p][id], shows'[p] = shows[p], store'[id] = store[id],
           id \in mixed[p] => id \in mixed'[p], id \in unread[p] => id \in unread'[p],
           Told(p, id) => Told(p, id)', IsAhead(p, id) => IsAhead(p, id)'
    PROVE  Accounted(p, id)'
BY DEF Accounted, Shown

(* A listing without rows has nothing to show.                              *)
LEMMA NoRowsNoMatches ==
    ASSUME NEW sql \in SqlText, NEW s \in Tables, Rows(sql, s) = <<>>, Plain(sql)
    PROVE  Matching(sql.where, s) = {}
<1>1. PICK due : due = Rows(sql, s)
  OBVIOUS
<1>2. /\ DOMAIN due = 1..Len(due) /\ Len(due) = 0
      /\ \A id \in Matching(sql.where, s) : Given(due, id)
  BY <1>1, RowsAre
<1>3. QED
  BY <1>2 DEF Given

(* A listing that begins gives the event, comes to it, or need not show it. *)
LEMMA BeginningAccounts ==
    ASSUME store \in Tables, store' = store, NEW p \in Viewers, NEW id \in Ids,
           NEW it, Ready(it, store), Begins(it, store), Ahead(it, store) # <<>>,
           iter'[p] = Delivered(it, store), Entered(p, iter'[p], TRUE),
           shows'[p] = it.sql, Plain(it.sql)
    PROVE  Accounted(p, id)'
<1>1. /\ it \in Iterator /\ PassInv(it) /\ BaseKept(it, store) /\ Len(it.pass.got) = 0
      /\ it.pass.touched = {} /\ it.pass.base = store
  BY DEF Ready, Begins
<1>2. PICK d, row : d = Delivered(it, store) /\ row = Head(Ahead(it, store))
  OBVIOUS
<1>3. /\ d \in Iterator /\ d.stmt = "active" /\ d.columns = row /\ row.id \in Ids
  BY <1>1, <1>2, DeliveredIs
<1>4. view'[p] = [Empty EXCEPT ![row.id] = row.content]
  BY <1>2, <1>3 DEF Entered
<1>5. CASE id = row.id
  <2>1. store[id] = row.content /\ Admits(it.sql.where, store[id])
    <3>1. PICK n : n = Len(it.pass.got)
      OBVIOUS
    <3>2. \/ store[row.id] = row.content /\ Admits(it.sql.where, store[row.id])
          \/ row.id \in it.pass.touched
      BY <1>1, <1>2, <3>1, DeliversTable
    <3>3. QED
      BY <1>1, <1>5, <3>2
  <2>2. view'[p][id] = row.content
    BY <1>4, <1>5, EmptyIs DEF Tables
  <2>3. Shown(p, id)' = store[id]
    BY <2>1 DEF Shown
  <2>4. QED
    BY <2>1, <2>2, <2>3 DEF Accounted
<1>6. CASE id # row.id /\ id \notin Matching(it.sql.where, store)
  <2>1. view'[p][id] = NULL
    BY <1>4, <1>6, EmptyIs DEF Tables
  <2>2. Shown(p, id)' = NULL
    BY <1>6 DEF Shown, Matching
  <2>3. QED
    BY <2>1, <2>2 DEF Accounted
<1>7. CASE id # row.id /\ id \in Matching(it.sql.where, store)
  <2>1. ComesTo(it, store, id)
    BY <1>1, <1>7, BeginningComesTo
  <2>2. ComesTo(d, store, id)
    BY <1>1, <1>2, <1>3, <1>7, <2>1, StaysAhead
  <2>3. ComesTo(iter'[p], store', id) /\ iter'[p] # NULL /\ iter'[p].stmt = "active"
    BY <1>2, <1>3, <2>2, IteratorAssumption
  <2>4. IsAhead(p, id)'
    BY <2>3 DEF IsAhead, ComesTo, Listed
  <2>5. QED
    BY <2>4 DEF Accounted
<1>8. QED
  BY <1>5, <1>6, <1>7

(* So does one that goes on, but for an event its viewer changed before a   *)
(* sorted listing gave it.                                                 *)
LEMMA GoingOnAccounts ==
    ASSUME store \in Tables, store' = store, ViewTypes, NEW p \in Viewers, NEW id \in Ids,
           NEW it, Ready(it, store), iter[p] = it, it.stmt = "active", Len(it.pass.got) # 0,
           Ahead(it, store) # <<>>, iter'[p] = Delivered(it, store),
           Entered(p, iter'[p], FALSE), shows'[p] = shows[p], shows[p] = it.sql,
           Plain(it.sql), Accounted(p, id), Told(p, id) => Told(p, id)'
    PROVE  Accounted(p, id)'
<1>1. it \in Iterator /\ PassInv(it) /\ BaseKept(it, store)
  BY DEF Ready
<1>2. PICK d, row : d = Delivered(it, store) /\ row = Head(Ahead(it, store))
  OBVIOUS
<1>3. /\ d \in Iterator /\ d.stmt = "active" /\ d.columns = row /\ row.id \in Ids
      /\ d.sorted = it.sorted /\ d.pass.touched = it.pass.touched
  BY <1>1, <1>2, DeliveredIs
<1>4. /\ view'[p] = [view[p] EXCEPT ![row.id] = row.content]
      /\ mixed'[p] = mixed[p] \cup (it.pass.touched \cap (IF it.sorted THEN {row.id} ELSE {}))
      /\ unread'[p] = unread[p] \ {row.id}
  BY <1>2, <1>3 DEF Entered
<1>5. CASE id = row.id
  <2>1. \/ store[id] = row.content /\ Admits(it.sql.where, store[id])
        \/ id \in it.pass.touched /\ it.sorted
    <3>1. PICK n : n = Len(it.pass.got)
      OBVIOUS
    <3>2. \/ store[row.id] = row.content /\ Admits(it.sql.where, store[row.id])
          \/ row.id \in it.pass.touched /\ (it.sorted \/ n = 0)
      BY <1>1, <1>2, <3>1, DeliversTable
    <3>3. QED
      BY <1>5, <3>1, <3>2
  <2>2. view'[p][id] = row.content
    BY <1>3, <1>4, <1>5 DEF ViewTypes, Tables
  <2>3. CASE store[id] = row.content /\ Admits(it.sql.where, store[id])
    <3>1. Shown(p, id)' = store[id]
      BY <2>3 DEF Shown
    <3>2. QED
      BY <2>2, <2>3, <3>1 DEF Accounted
  <2>4. CASE id \in it.pass.touched /\ it.sorted
    <3>1. id \in mixed'[p]
      BY <1>4, <1>5, <2>4
    <3>2. QED
      BY <3>1 DEF Accounted
  <2>5. QED
    BY <2>1, <2>3, <2>4
<1>6. CASE id # row.id
  <2>1. view'[p][id] = view[p][id]
    BY <1>3, <1>4, <1>6 DEF ViewTypes, Tables
  <2>2. IsAhead(p, id) => IsAhead(p, id)'
    <3>1. SUFFICES ASSUME IsAhead(p, id) PROVE IsAhead(p, id)'
      OBVIOUS
    <3>2. ComesTo(it, store, id)
      BY <3>1, IsAheadIs
    <3>3. ComesTo(d, store, id)
      BY <1>1, <1>2, <1>3, <1>6, <3>2, StaysAhead
    <3>4. ComesTo(iter'[p], store', id) /\ iter'[p] # NULL /\ iter'[p].stmt = "active"
      BY <1>2, <1>3, <3>3, IteratorAssumption
    <3>5. QED
      BY <3>4 DEF IsAhead, ComesTo, Listed
  <2>3. QED
    BY <1>4, <1>6, <2>1, <2>2, StaysAccounted
<1>7. QED
  BY <1>5, <1>6

(* The rows of a listing that has ended have all been given.               *)
LEMMA EndAccounts ==
    ASSUME store \in Tables, store' = store, NEW p \in Viewers, NEW id \in Ids,
           NEW it, Ready(it, store), Ahead(it, store) = <<>>, it.sql = shows[p],
           iter[p] # NULL, iter[p].stmt \in {"active", "reset"},
           iter[p].stmt = "active" => it = iter[p] /\ view'[p] = view[p],
           iter[p].stmt = "reset" => Begins(it, store) /\ view'[p] = Empty,
           UNCHANGED <<shows, mixed, unread>>, Plain(shows[p]), Accounted(p, id),
           Told(p, id) => Told(p, id)'
    PROVE  Accounted(p, id)'
<1>1. CASE iter[p].stmt = "active"
  <2>1. ~ IsAhead(p, id)
    BY <1>1, IsAheadIs DEF ComesTo
  <2>2. QED
    BY <1>1, <2>1, StaysAccounted
<1>2. CASE iter[p].stmt = "reset"
  <2>1. it.sql \in SqlText /\ Rows(it.sql, store) = <<>>
    BY <1>2, IteratorIs DEF Ready, Begins
  <2>2. id \notin Matching(shows[p].where, store)
    BY <2>1, NoRowsNoMatches
  <2>3. Shown(p, id)' = NULL
    BY <2>2 DEF Shown, Matching
  <2>4. view'[p][id] = NULL
    BY <1>2, EmptyIs
  <2>5. QED
    BY <2>3, <2>4 DEF Accounted
<1>3. QED
  BY <1>1, <1>2

(* A change is announced, and leaves the other events as they were.        *)
LEMMA ChangeAccounts ==
    ASSUME QueryTypes, SignalTypes, IterInv, ViewInv, Next,
           NEW q \in Programs, Change(q), NEW p \in Viewers, NEW id \in Ids,
           p \notin stale, Plain(shows[p]), Accounted(p, id)
    PROVE  Accounted(p, id)'
<1>0. /\ store \in Tables /\ store' \in Tables /\ IterTypes /\ ViewTypes /\ p \in Programs
      /\ call'[q].emit \in Signal
      /\ \A other \in Ids : store'[other] # store[other] => other \in Concerns(call'[q].emit)
  BY ChangeIs, ProgramsAssumption DEF IterInv, ViewInv, SignalTypes
<1>1. UNCHANGED views
  BY DEF Change
<1>2. CASE store'[id] # store[id]
  <2>1. id \in Concerns(call'[q].emit) /\ call'[q].emit # NULL
    BY <1>0, <1>2, SignalAssumption
  <2>2. QED
    BY <2>1 DEF Accounted, Told, IsAnnounced
<1>3. CASE store'[id] = store[id]
  <2>1. Told(p, id) => Told(p, id)'
    <3>1. /\ UNCHANGED <<mail, untold>> /\ call[q].emit = NULL
          /\ \A r \in Programs \ {q} : call'[r] = call[r]
      BY ChangeIs
    <3>2. QED
      BY <3>1 DEF Told, IsAnnounced
  <2>2. IsAhead(p, id) => IsAhead(p, id)'
    <3>1. SUFFICES ASSUME IsAhead(p, id) PROVE IsAhead(p, id)'
      OBVIOUS
    <3>2. /\ iter[p] # NULL /\ iter[p].stmt # "done"
          /\ iter[p].stmt = "reset" \/ ComesTo(iter[p], store, id)
      BY <3>1, IsAheadIs DEF Listed
    <3>3. iter[p] \in Iterator /\ IterOk(iter[p], store) /\ iter[p].sql = shows[p]
      BY <1>0, <3>2 DEF IterInv, IterTypes, ViewInv
    <3>4. iter[p].stmt \in {"active", "reset"}
      BY <3>2, <3>3 DEF IterInv, Iterator
    <3>5. CASE q # p
      <4>1. iter'[p] = iter[p] /\ ~ Holds(p)
        <5>1. ~ Holds(p)
          BY <3>5 DEF Change, MayCommit
        <5>2. Left(p)
          BY <1>0, <3>5, CallsLeave DEF Calls
        <5>3. QED
          BY <5>1, <5>2 DEF Left
      <4>2. iter[p].stmt = "reset"
        BY <3>2, <3>4, <4>1 DEF Holds
      <4>3. QED
        BY <3>2, <4>1, <4>2 DEF IsAhead, Listed
    <3>6. CASE q = p
      <4>1. iter[p].stmt = "active" /\ ComesTo(iter[p], store, id)
        BY <1>0, <3>2, <3>4, <3>6 DEF Change, MayCommit, Heeds, Restarting
      <4>2. PICK it, new, t, changed :
              /\ it = iter[p] /\ new = iter'[p] /\ t = store'
              /\ changed = {other \in Ids : store'[other] # store[other]}
        OBVIOUS
      <4>3. new = Touched(it, changed)
        BY <1>0, <3>2, <3>6, <4>2 DEF Change, Touch, IterTypes, Touched
      <4>4. it \in Iterator /\ t \in Tables /\ changed \in SUBSET Ids
        BY <1>0, <3>3, <4>2
      <4>5. /\ new \in Iterator /\ new.stmt = it.stmt /\ new.sorted = it.sorted
            /\ new.sql = it.sql /\ new.pass.got = it.pass.got /\ new.pass.left = it.pass.left
        BY <4>3, <4>4, TouchIs
      <4>6. Plain(it.sql) /\ t[id] = store[id] /\ ComesTo(it, store, id)
        BY <1>3, <3>3, <4>1, <4>2
      <4>7. ComesTo(new, t, id)
        BY <1>0, <4>4, <4>5, <4>6, ChangeKeepsAhead
      <4>8. new # NULL /\ new.stmt = "active"
        BY <4>1, <4>2, <4>5, IteratorAssumption
      <4>9. QED
        BY <4>2, <4>7, <4>8 DEF IsAhead, ComesTo, Listed
    <3>7. QED
      BY <3>5, <3>6
  <2>3. QED
    BY <1>1, <1>3, <2>1, <2>2, StaysAccounted DEF views
<1>4. QED
  BY <1>2, <1>3

(* Every step accounts for what it leaves shown differently.               *)
LEMMA AccountedStep ==
    ASSUME QueryTypes, SignalTypes, SignalTypes', IterInv, ViewInv, StaleIsAnnounced, Next,
           NEW p \in Viewers, p \notin stale', Plain(shows'[p]), NEW id \in Ids
    PROVE  Accounted(p, id)'
<1>0. store \in Tables /\ IterTypes /\ ViewTypes /\ p \in Programs
  BY ProgramsAssumption DEF SignalTypes, IterInv, ViewInv
<1>1. p \notin stale /\ Plain(shows[p]) => Accounted(p, id)
  BY StaleIsAnnouncedIs
<1>2. ~ HandleSignal(p) => (Told(p, id) => Told(p, id)')
  BY <1>0, ToldStaysTold
<1>3. ASSUME NEW q \in Programs, Change(q) PROVE Accounted(p, id)'
  <2>1. p \notin stale /\ Plain(shows[p])
    BY <1>3 DEF Change, views
  <2>2. QED
    BY <1>1, <1>3, <2>1, ChangeAccounts
<1>4. ASSUME Left(p), store' = store, ~ HandleSignal(p) PROVE Accounted(p, id)'
  <2>1. p \notin stale /\ Plain(shows[p])
    BY <1>4 DEF Left
  <2>2. IsAhead(p, id) => IsAhead(p, id)'
    BY <1>4 DEF Left, IsAhead, Listed
  <2>3. QED
    BY <1>1, <1>2, <1>4, <2>1, <2>2, StaysAccounted DEF Left
<1>5. ASSUME NEW q \in Programs, q # p, Calls(q), ~ Change(q), ~ HandleSignal(p)
      PROVE  Accounted(p, id)'
  <2>1. store' = store
    BY <1>5, StartBatchIs, FailBatchIs, AnnounceIs, DieIs DEF Calls
  <2>2. QED
    BY <1>0, <1>4, <1>5, <2>1, CallsLeave
<1>6. ASSUME NEW q \in Viewers, q # p, ViewerStep(q), ~ HandleSignal(p) PROVE Accounted(p, id)'
  BY <1>0, <1>4, <1>6, ViewersLeave
<1>7. CASE ~ HandleSignal(p) /\ (StartBatch(p) \/ FailBatch(p) \/ Announce(p))
  <2>1. UNCHANGED <<store, iter, attached, failed>> /\ UNCHANGED views
    BY <1>7 DEF StartBatch, FailBatch, Announce, SetReadEvents, UpdateFails, Emit, iterators
  <2>2. QED
    BY <1>4, <1>7, <2>1 DEF Left, views
<1>8. CASE Die(p) \/ EditQuery(p) \/ ListFails(p)
  BY <1>8 DEF Die, EditQuery, ListFails, ListAgain
<1>9. CASE HandleSignal(p)
  <2>1. ~ ListAgain(p)
    BY DEF ListAgain
  <2>2. PICK named : named = Head(mail[p]).id
    OBVIOUS
  <2>3. /\ named \in Ids \ {NULL} /\ UNCHANGED <<shows, stale, store, iter>>
        /\ mixed'[p] = mixed[p] \ {named}
        /\ RereadFine(p, named)
    BY <1>0, <1>9, <2>1, <2>2, HandleSignalIs
  <2>4. CASE id = named
    <3>1. view'[p][id] = Shown(p, id) \/ id \in unread'[p]
      BY <1>0, <2>3, <2>4 DEF RereadFine, ViewTypes, Tables
    <3>2. Shown(p, id)' = Shown(p, id)
      BY <2>3 DEF Shown
    <3>3. QED
      BY <3>1, <3>2 DEF Accounted
  <2>5. CASE id # named
    <3>1. view'[p][id] = view[p][id] /\ (id \in unread[p] => id \in unread'[p])
      BY <1>0, <2>3, <2>5 DEF RereadFine, ViewTypes, Tables
    <3>2. Told(p, id) => Told(p, id)'
      BY <1>0, <1>9, <2>2, <2>3, <2>5, OthersStayTold
    <3>3. IsAhead(p, id) => IsAhead(p, id)'
      BY <2>3 DEF IsAhead, Listed
    <3>4. QED
      BY <1>1, <2>3, <2>5, <3>1, <3>2, <3>3, StaysAccounted
  <2>6. QED
    BY <2>4, <2>5
<1>10. CASE StartListing(p)
  <2>1. PICK it : /\ Ready(it, store) /\ Begins(it, store) /\ Ahead(it, store) # <<>>
                  /\ iter'[p] = Delivered(it, store) /\ Entered(p, iter'[p], TRUE)
                  /\ shows'[p] = it.sql /\ UNCHANGED signals
    BY <1>0, <1>10, StartListingIs
  <2>2. QED
    BY <1>0, <2>1, BeginningAccounts DEF signals
<1>11. CASE NothingToList(p)
  <2>1. /\ p \in stale /\ query[p].sql # NULL
        /\ \/ Rows(query[p].sql, store) = <<>>
           \/ unread'[p] = Matching(query[p].sql.where, store)
        /\ shows'[p] = query[p].sql /\ UNCHANGED view /\ store' = store
    BY <1>0, <1>11 DEF NothingToList, OpenEmpty, OpenFails, signals, ViewTypes
  <2>2. query[p].sql \in SqlText
    BY <2>1 DEF QueryTypes, Query
  <2>3. id \notin Matching(query[p].sql.where, store) \/ id \in unread'[p]
    BY <1>0, <2>1, <2>2, NoRowsNoMatches
  <2>4. id \notin Matching(query[p].sql.where, store) => Shown(p, id)' = NULL
    BY <2>1 DEF Shown, Matching
  <2>5. view'[p][id] = NULL
    BY <2>1, EmptyIs DEF ViewInv
  <2>6. QED
    BY <2>3, <2>4, <2>5 DEF Accounted
<1>12. CASE ~ HandleSignal(p) /\ ListNext(p)
  <2>1. PICK it : /\ Ready(it, store) /\ Ahead(it, store) # <<>>
                  /\ iter[p] # NULL /\ iter[p].stmt \in {"active", "reset"}
                  /\ it.sql = iter[p].sql
                  /\ iter[p].stmt = "active" => it = iter[p] /\ Len(it.pass.got) # 0
                  /\ iter[p].stmt = "reset" => Begins(it, store)
                  /\ iter'[p] = Delivered(it, store)
                  /\ p \notin stale => Entered(p, iter'[p], iter[p].stmt = "reset")
                  /\ UNCHANGED <<shows, stale>> /\ UNCHANGED signals
    BY <1>0, <1>12, ListNextIs
  <2>2. p \notin stale /\ it.sql = shows[p] /\ Plain(it.sql) /\ store' = store
    BY <2>1 DEF ViewInv, signals
  <2>3. CASE iter[p].stmt = "reset"
    <3>1. Entered(p, iter'[p], TRUE)
      BY <2>1, <2>2, <2>3 DEF Entered
    <3>2. Begins(it, store) /\ shows'[p] = it.sql
      BY <2>1, <2>2, <2>3
    <3>3. QED
      BY <1>0, <2>1, <2>2, <3>1, <3>2, BeginningAccounts
  <2>4. CASE iter[p].stmt = "active"
    <3>1. Entered(p, iter'[p], FALSE)
      BY <2>1, <2>2, <2>4 DEF Entered
    <3>2. iter[p] = it /\ it.stmt = "active" /\ Len(it.pass.got) # 0
      BY <2>1, <2>4
    <3>3. shows'[p] = shows[p] /\ shows[p] = it.sql /\ Accounted(p, id)
      BY <1>1, <2>1, <2>2
    <3>4. Told(p, id) => Told(p, id)'
      BY <1>2, <1>12
    <3>5. QED
      BY <1>0, <2>1, <2>2, <3>1, <3>2, <3>3, <3>4, GoingOnAccounts
  <2>5. QED
    BY <2>1, <2>3, <2>4
<1>13. CASE ~ HandleSignal(p) /\ ListEnds(p)
  <2>1. PICK it : /\ Ready(it, store) /\ Ahead(it, store) = <<>>
                  /\ iter[p] # NULL /\ iter[p].stmt \in {"active", "reset"}
                  /\ it.sql = iter[p].sql
                  /\ iter[p].stmt = "active" => it = iter[p] /\ view'[p] = view[p]
                  /\ iter[p].stmt = "reset" => Begins(it, store) /\ view'[p] = Empty
                  /\ UNCHANGED <<shows, stale, mixed, unread>> /\ UNCHANGED signals
    BY <1>0, <1>13, ListEndsIs
  <2>2. p \notin stale /\ it.sql = shows[p] /\ Plain(shows[p]) /\ store' = store
    BY <2>1 DEF ViewInv, signals
  <2>3. Accounted(p, id) /\ (Told(p, id) => Told(p, id)')
    BY <1>1, <1>2, <1>13, <2>2
  <2>4. QED
    BY <1>0, <2>1, <2>2, <2>3, EndAccounts
<1>14. CASE ~ HandleSignal(p) /\ ListAnew(p)
  <2>1. /\ iter'[p] = [iter[p] EXCEPT !.stmt = "reset"] /\ iter[p] \in Iterator
    BY <1>0, <1>14 DEF ListAnew, First, IterTypes
  <2>2. iter'[p] # NULL /\ iter'[p].stmt = "reset"
    <3>1. iter'[p] \in Iterator /\ iter'[p].stmt = "reset"
      BY <2>1 DEF Iterator
    <3>2. QED
      BY <3>1, IteratorAssumption
  <2>3. IsAhead(p, id)'
    BY <2>2 DEF IsAhead, Listed
  <2>4. QED
    BY <2>3 DEF Accounted
<1>15. CASE ~ HandleSignal(p) /\ CloseListing(p)
  <2>1. iter[p] # NULL /\ iter[p].stmt = "done" /\ UNCHANGED views /\ store' = store
    BY <1>15 DEF CloseListing, Unref, ListAgain, signals
  <2>2. ~ IsAhead(p, id)
    BY <2>1 DEF IsAhead, Listed
  <2>3. Accounted(p, id) /\ (Told(p, id) => Told(p, id)')
    BY <1>1, <1>2, <1>15, <2>1 DEF views
  <2>4. QED
    BY <2>1, <2>2, <2>3, StaysAccounted DEF views
<1>16. CASE CloseDangling(p)
  <2>1. iter[p] # NULL /\ iter[p].stmt = "dangling" /\ UNCHANGED stale
    BY <1>16 DEF CloseDangling, UseDangling, views
  <2>2. p \in stale
    BY <2>1 DEF IterInv
  <2>3. QED
    BY <2>1, <2>2
<1>17. CASE ~ HandleSignal(p) /\ LookAtAttachments(p)
  <2>1. UNCHANGED iter /\ UNCHANGED views /\ store' = store
    BY <1>17 DEF LookAtAttachments, OpenAttachments, FirstAttachment, RestartAttachments,
       CloseAttachments, AttachmentsBecome, signals
  <2>2. IsAhead(p, id) => IsAhead(p, id)'
    BY <2>1 DEF IsAhead, Listed
  <2>3. Accounted(p, id) /\ (Told(p, id) => Told(p, id)')
    BY <1>1, <1>2, <1>17, <2>1 DEF views
  <2>4. QED
    BY <2>1, <2>2, <2>3, StaysAccounted DEF views
<1>18. CASE ~ HandleSignal(p)
  <2>1. ASSUME NEW q \in Programs, Calls(q) PROVE Accounted(p, id)'
    BY <1>3, <1>5, <1>7, <1>8, <1>18, <2>1 DEF Calls
  <2>2. ASSUME NEW q \in Viewers, ViewerStep(q) PROVE Accounted(p, id)'
    BY <1>6, <1>8, <1>10, <1>11, <1>12, <1>13, <1>14, <1>15, <1>16, <1>17, <1>18, <2>2
       DEF ViewerStep, Listing
  <2>3. QED
    BY <2>1, <2>2, NextIs
<1>19. QED
  BY <1>9, <1>18

(* Whatever a viewer shows differently from the log is still announced to   *)
(* it, still ahead of its listing, or lost in one of the three holes; what  *)
(* the sql of its listing limits or groups is left out.                    *)
THEOREM StaleIsAlwaysAnnounced == Spec => []StaleIsAnnounced
<1>1. Init => StaleIsAnnounced
  BY DEF Init, StaleIsAnnounced
<1>2. IInv /\ IInv' /\ StaleIsAnnounced /\ [Next]_vars => StaleIsAnnounced'
  <2>1. SUFFICES ASSUME IInv, IInv', StaleIsAnnounced, [Next]_vars PROVE StaleIsAnnounced'
    OBVIOUS
  <2>2. CASE Next
    <3>1. \A p \in Viewers \ stale' : Plain(shows'[p]) => \A id \in Ids : Accounted(p, id)'
      BY <2>1, <2>2, AccountedStep DEF IInv, QueryInv
    <3>2. QED
      BY <3>1 DEF StaleIsAnnounced, Accounted, Told
  <2>3. CASE UNCHANGED vars
    BY <2>1, <2>3 DEF vars, signals, iterators, views, StaleIsAnnounced, IsAnnounced, IsAhead,
       Listed, Shown
  <2>4. QED
    BY <2>1, <2>2, <2>3
<1>3. QED
  BY <1>1, <1>2, ViewInvariant, PTL DEF Spec

=============================================================================
