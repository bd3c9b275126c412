-------------------------- MODULE FormsParsingProofs ---------------------------
(***************************************************************************)
(* Proofs about FormsParsing and OrganisationEdits, for any submissions,   *)
(* answers and payloads.                                                   *)
(***************************************************************************)
EXTENDS OrganisationEdits, LeastNumber, FiniteSetTheorems, SequenceTheorems, TLAPS
--------------------------------------------------------------------------------
(* The pages of a form *)

LEMMA PagesAreRecords ==
    ASSUME submission \in Submissions
    PROVE  /\ Len(pages) \in Nat /\ DOMAIN pages = 1..Len(pages)
           /\ \A i \in DOMAIN pages : /\ Len(pages[i].components) \in Nat
                                      /\ DOMAIN pages[i].components = 1..Len(pages[i].components)
<1> DEFINE Component == [name : STRING, label : STRING]
           Pg == [title : STRING, repeater : STRING, components : Seq(Component)]
<1>1. pages \in Seq(Pg)
  BY SubmissionsAssumption DEF Submission, pages
<1>2. ASSUME NEW i \in DOMAIN pages
      PROVE  pages[i].components \in Seq(Component)
  <2>1. pages[i] \in Pg
    <3> HIDE DEF Pg
    <3> QED BY <1>1
  <2> QED BY <2>1
<1> HIDE DEF Component
<1> QED BY <1>1, <1>2

\* The invariant with its sequences taken apart.
LEMMA AnswersOfPages ==
    ASSUME PagesExtracted
    PROVE  /\ Len(answers) \in Nat /\ Len(answers) <= Len(pages)
           /\ DOMAIN answers = 1..Len(answers) /\ DOMAIN answers \subseteq DOMAIN pages
           /\ \A i \in DOMAIN answers : /\ answers[i].title = pages[i].title
                                        /\ answers[i].entries = AnswersOf(pages[i])
<1>1. Len(pages) \in Nat /\ DOMAIN pages = 1..Len(pages)
  BY PagesAreRecords DEF PagesExtracted
<1>2. PICK n \in 0..Len(pages) :
           answers = [i \in 1..n |-> [title |-> pages[i].title, entries |-> AnswersOf(pages[i])]]
  BY DEF PagesExtracted
<1>3. DOMAIN answers = 1..n /\ n \in Nat /\ n <= Len(pages)
  BY <1>1, <1>2
<1>4. Len(answers) = n
  BY <1>2, <1>3
<1>5. \A i \in 1..n : /\ answers[i].title = pages[i].title
                      /\ answers[i].entries = AnswersOf(pages[i])
  BY <1>2
<1> QED BY <1>1, <1>3, <1>4, <1>5
--------------------------------------------------------------------------------
(* The answers of one page *)

LEMMA MainNamed == submission.main = main
BY DEF main

\* A page that repeats no label keeps every answer under its label.
LEMMA PageKeepsAnswers ==
    ASSUME NEW page, DOMAIN page.components \subseteq Nat, ~Repeats(page),
           NEW c \in Range(page.components), Given(c)
    PROVE  c.label \in DOMAIN AnswersOf(page) /\ AnswersOf(page)[c.label] = main[c.name]
<1>1. c \in Answered(page) /\ c.label \in LabelsOf(page)
  BY DEF Answered, LabelsOf
<1>2. ASSUME NEW d \in Answered(page), d.label = c.label PROVE d = c
  <2>1. PICK i \in DOMAIN page.components : page.components[i] = c
    BY DEF Range
  <2>2. PICK j \in DOMAIN page.components : page.components[j] = d
    BY <1>2 DEF Answered, Range
  <2>3. Given(page.components[i]) /\ Given(page.components[j])
    BY <1>2, <2>1, <2>2 DEF Answered
  <2>4. i = j
    BY <1>2, <2>1, <2>2, <2>3 DEF Repeats
  <2> QED BY <2>1, <2>2, <2>4
<1>3. (CHOOSE d \in Answered(page) : d.label = c.label) = c
  BY <1>1, <1>2
<1> QED BY <1>1, <1>3 DEF AnswersOf

\* All that is kept was answered, under that label.
LEMMA PageAnswersAreGiven ==
    ASSUME NEW page, NEW l \in DOMAIN AnswersOf(page)
    PROVE  \E c \in Range(page.components) :
               Given(c) /\ c.label = l /\ AnswersOf(page)[l] = main[c.name]
<1>1. l \in LabelsOf(page)
  BY DEF AnswersOf
<1>2. \E c \in Answered(page) : c.label = l
  BY <1>1 DEF LabelsOf
<1>3. PICK c : c = (CHOOSE d \in Answered(page) : d.label = l)
  OBVIOUS
<1>4. c \in Answered(page) /\ c.label = l
  BY <1>2, <1>3
<1>5. AnswersOf(page)[l] = main[c.name]
  BY <1>1, <1>3 DEF AnswersOf
<1> QED BY <1>4, <1>5 DEF Answered
--------------------------------------------------------------------------------
(* The answers of all pages *)

\* The last page with a label is a page with it.
LEMMA LastPageWith ==
    ASSUME PagesExtracted, NEW l \in AllLabels(answers)
    PROVE  /\ Max(PagesWith(answers, l)) \in DOMAIN answers
           /\ l \in DOMAIN answers[Max(PagesWith(answers, l))].entries
<1>1. PagesWith(answers, l) \in SUBSET (1..Len(answers)) /\ Len(answers) \in Nat
  BY AnswersOfPages DEF PagesWith
<1>2. PagesWith(answers, l) # {}
  BY DEF PagesWith, AllLabels
<1>3. \E i \in PagesWith(answers, l) : \A j \in PagesWith(answers, l) : j <= i
  BY <1>1, <1>2, GreatestOf
<1>4. Max(PagesWith(answers, l)) \in PagesWith(answers, l)
  <2>1. \E i \in PagesWith(answers, l) : \A j \in PagesWith(answers, l) : i >= j
    BY <1>1, <1>3
  <2> QED BY <2>1 DEF Max
<1> QED BY <1>4 DEF PagesWith

\* An answer is one that was given on some page under its label.
LEMMA FlattenedIsGiven ==
    ASSUME PagesExtracted, NEW l \in DOMAIN Flattened(answers)
    PROVE  \E i \in DOMAIN pages : \E c \in Range(pages[i].components) :
               Given(c) /\ c.label = l /\ Flattened(answers)[l] = main[c.name]
<1> DEFINE i == Max(PagesWith(answers, l))
<1>1. l \in AllLabels(answers)
  BY DEF Flattened
<1>2. i \in DOMAIN answers /\ l \in DOMAIN answers[i].entries
  BY <1>1, LastPageWith
<1>3. Flattened(answers)[l] = answers[i].entries[l]
  BY <1>1 DEF Flattened
<1> HIDE DEF i
<1>4. i \in DOMAIN pages /\ answers[i].entries = AnswersOf(pages[i])
  BY <1>2, AnswersOfPages
<1> QED BY <1>2, <1>3, <1>4, PageAnswersAreGiven

\* Once no label is on two pages, flattening replaces no answer.
LEMMA FlattenedKeeps ==
    ASSUME PagesExtracted, Len(answers) = Len(pages), Duplicates(answers) = {},
           NEW i \in DOMAIN pages, NEW c \in Range(pages[i].components), Given(c)
    PROVE  /\ c.label \in DOMAIN Flattened(answers)
           /\ c.label \in KnownDuplicates \/ Flattened(answers)[c.label] = main[c.name]
<1> DEFINE l == c.label
           P == PagesWith(answers, l)
<1>1. i \in DOMAIN answers /\ answers[i].entries = AnswersOf(pages[i]) /\ ~Repeats(pages[i])
  <2>1. i \in DOMAIN answers
    BY AnswersOfPages, PagesAreRecords DEF PagesExtracted
  <2> QED BY <2>1, AnswersOfPages DEF PagesExtracted
<1>2. l \in DOMAIN answers[i].entries /\ answers[i].entries[l] = main[c.name]
  <2>1. DOMAIN pages[i].components \subseteq Nat
    BY PagesAreRecords DEF PagesExtracted
  <2> QED BY <1>1, <2>1, PageKeepsAnswers
<1>3. l \in AllLabels(answers) /\ i \in P
  BY <1>1, <1>2 DEF AllLabels, PagesWith
<1>4. Flattened(answers)[l] = answers[Max(P)].entries[l] /\ l \in DOMAIN Flattened(answers)
  BY <1>3 DEF Flattened
<1>5. ASSUME l \notin KnownDuplicates PROVE Max(P) = i
  <2>1. ~(Cardinality(P) > 1)
    BY <1>3, <1>5 DEF Duplicates
  <2>2. IsFiniteSet(P) /\ Cardinality(P) \in Nat
    <3>1. P \subseteq 1..Len(answers) /\ Len(answers) \in Nat
      BY AnswersOfPages DEF PagesWith
    <3>2. IsFiniteSet(P)
      <4>1. IsFiniteSet(1..Len(answers))
        BY <3>1, FS_Interval
      <4> HIDE DEF P
      <4> QED BY <3>1, <4>1, FS_Subset
    <3> QED BY <3>2, FS_CardinalityType
  <2>3. Cardinality(P) = 1
    <3>1. Cardinality(P) # 0
      BY <1>3, <2>2, FS_EmptySet
    <3> QED BY <2>1, <2>2, <3>1
  <2>4. PICK x : P = {x}
    BY <2>2, <2>3, FS_Singleton
  <2>5. Max(P) \in P
    <3>1. Max(P) \in DOMAIN answers /\ l \in DOMAIN answers[Max(P)].entries
      BY <1>3, LastPageWith
    <3> QED BY <3>1 DEF PagesWith
  <2> HIDE DEF P
  <2> QED BY <1>3, <2>4, <2>5
<1> QED BY <1>2, <1>4, <1>5
--------------------------------------------------------------------------------
(* What is made of the same answers is the same *)

LEMMA SamePages ==
    ASSUME UNCHANGED submission
    PROVE  /\ pages' = pages /\ main' = main
           /\ \A p : AnswersOf(p)' = AnswersOf(p) /\ Repeats(p)' = Repeats(p)
<1>1. pages' = pages /\ main' = main
  BY DEF pages, main
<1>2. ASSUME NEW c PROVE Given(c)' = Given(c)
  BY <1>1 DEF Given
<1>3. ASSUME NEW p PROVE AnswersOf(p)' = AnswersOf(p)
  <2>1. Answered(p)' = Answered(p)
    BY <1>2 DEF Answered
  <2> QED BY <1>1, <2>1 DEF AnswersOf, LabelsOf
<1>4. ASSUME NEW p PROVE Repeats(p)' = Repeats(p)
  BY <1>2 DEF Repeats
<1> QED BY <1>1, <1>3, <1>4

LEMMA SameOrganisation ==
    ASSUME UNCHANGED <<submission, flat>>
    PROVE  Parses' = Parses /\ ParseOrgSubmission' = ParseOrgSubmission
<1>1. ASSUME NEW l PROVE Answer(l)' = Answer(l)
  BY DEF Answer
<1>2. ASSUME NEW ls PROVE FindFirstValue(ls)' = FindFirstValue(ls)
  BY <1>1 DEF FindFirstValue
<1>3. ASSUME NEW t, NEW n, NEW y PROVE ExtractPartners(t, n, y)' = ExtractPartners(t, n, y)
  BY SamePages DEF ExtractPartners
<1>4. RawPartners' = RawPartners
  BY <1>3 DEF RawPartners
<1>5. Partnership' = Partnership
  BY <1>1, <1>4 DEF Partnership
<1>6. CompanyDetails' = CompanyDetails
  BY <1>1 DEF CompanyDetails, GetAddress
<1>7. HasManagementContact' = HasManagementContact
  BY <1>2 DEF HasManagementContact
<1>8. ManagementContactDetails' = ManagementContactDetails
  BY <1>2, <1>7 DEF ManagementContactDetails
<1>9. SubmitterDetails' = SubmitterDetails
  BY <1>1 DEF SubmitterDetails
<1>10. Parses' = Parses
  BY <1>1, <1>4 DEF Parses
<1>11. FormSubmissionTime' = FormSubmissionTime /\ SubmittedToRegulator' = SubmittedToRegulator
  BY DEF FormSubmissionTime, SubmittedToRegulator
<1> QED BY <1>1, <1>5, <1>6, <1>7, <1>8, <1>9, <1>10, <1>11 DEF ParseOrgSubmission
--------------------------------------------------------------------------------
(* The invariant *)

LEMMA InitInv == ASSUME Init PROVE IInv
<1>1. PagesExtracted
  <2>1. answers = [i \in 1..0 |-> [title |-> pages[i].title, entries |-> AnswersOf(pages[i])]]
    BY DEF Init
  <2>2. 0 \in 0..Len(pages)
    BY PagesAreRecords DEF Init
  <2> QED BY <2>1, <2>2 DEF Init, PagesExtracted
<1>2. AnswersFlattened /\ OrganisationMade
  BY DEF Init, AnswersFlattened, OrganisationMade, IsParsed
<1> QED BY <1>1, <1>2 DEF IInv, Init

LEMMA ExtractPageInv == ASSUME IInv, ExtractPage PROVE IInv'
<1>1. PagesExtracted /\ status = "extracting" /\ UNCHANGED <<submission, flat, organisation>>
  BY DEF IInv, ExtractPage
<1>2. OrganisationMade'
  BY <1>1 DEF IInv, ExtractPage, OrganisationMade, IsParsed
<1>3. CASE UNCHANGED answers
  <2>1. PagesExtracted'
    BY <1>1, <1>3, SamePages DEF PagesExtracted
  <2>2. AnswersFlattened' /\ status' = "failed"
    BY <1>1, <1>3 DEF IInv, ExtractPage, AnswersFlattened, IsParsed, Flattened, AllLabels, PagesWith
  <2> QED BY <1>2, <2>1, <2>2 DEF IInv
<1>4. CASE ~UNCHANGED answers
  <2>. PICK n : n = Len(answers) + 1
    OBVIOUS
  <2> DEFINE page == pages[n]
             Extracted(m) == [i \in 1..m |-> [title |-> pages[i].title, entries |-> AnswersOf(pages[i])]]
  <2>1. /\ Len(answers) \in Nat /\ Len(answers) < Len(pages) /\ Len(pages) \in Nat
        /\ page.title \notin TitlesOf(answers) /\ ~Repeats(page) /\ status' = "extracting"
        /\ answers' = Append(answers, [title |-> page.title, entries |-> AnswersOf(page)])
    <3>1. Len(answers) \in Nat /\ Len(answers) < Len(pages) /\ Len(pages) \in Nat
      BY <1>1, AnswersOfPages, PagesAreRecords DEF ExtractPage, PagesExtracted
    <3>2. IF page.title \in TitlesOf(answers) \/ Repeats(page)
          THEN UNCHANGED answers
          ELSE /\ answers' = Append(answers, [title |-> page.title, entries |-> AnswersOf(page)])
               /\ UNCHANGED status
      BY DEF ExtractPage
    <3> QED BY <1>1, <1>4, <3>1, <3>2
  <2>2. answers = Extracted(Len(answers))
    <3>1. PICK m \in 0..Len(pages) : answers = Extracted(m)
      BY <1>1 DEF PagesExtracted
    <3>2. Len(answers) = m
      BY <2>1, <3>1
    <3> QED BY <3>1, <3>2
  <2>3. answers' = Extracted(n)
    BY <2>1, <2>2
  <2>4. n \in 0..Len(pages)
    BY <2>1
  <2>5. answers' = Extracted(n)' /\ Len(pages)' = Len(pages)
    BY <1>1, <2>3, SamePages
  <2>6. DOMAIN answers' = 1..n
    BY <2>3
  <2>7. \A i \in DOMAIN answers' : ~Repeats(pages[i])'
    <3>1. ASSUME NEW i \in 1..n PROVE ~Repeats(pages[i])
      <4>1. CASE i = n
        BY <2>1, <4>1
      <4>2. CASE i # n
        <5>1. i \in DOMAIN answers
          BY <2>1, <4>2, <1>1, AnswersOfPages
        <5> QED BY <1>1, <5>1 DEF PagesExtracted
      <4> QED BY <4>1, <4>2
    <3>2. ASSUME NEW i \in 1..n PROVE ~Repeats(pages[i])'
      BY <1>1, <3>1, SamePages
    <3> QED BY <2>6, <3>2
  <2>8. ASSUME NEW i \in DOMAIN answers', NEW j \in DOMAIN answers', answers'[i].title = answers'[j].title
        PROVE  i = j
    <3>1. \A k \in 1..n : answers'[k].title = pages[k].title
      BY <2>3
    <3>2. \A k \in 1..(n - 1) : k \in DOMAIN answers /\ answers[k].title = pages[k].title
      BY <1>1, <2>1, AnswersOfPages
    <3>3. \A k \in 1..(n - 1) : pages[k].title # page.title
      BY <2>1, <3>2 DEF TitlesOf
    <3>4. CASE i = n \/ j = n
      BY <2>1, <2>6, <2>8, <3>1, <3>3, <3>4
    <3>5. CASE i # n /\ j # n
      <4>1. i \in 1..(n - 1) /\ j \in 1..(n - 1)
        BY <2>1, <2>6, <3>5
      <4>2. answers[i].title = answers[j].title
        BY <2>6, <2>8, <3>1, <3>2, <4>1
      <4> QED BY <1>1, <3>2, <4>1, <4>2 DEF PagesExtracted
    <3> QED BY <3>4, <3>5
  <2>9. PagesExtracted'
    BY <1>1, <2>4, <2>5, <2>7, <2>8 DEF PagesExtracted
  <2>10. AnswersFlattened'
    <3>1. flat = <<>>
      BY <1>1 DEF IInv, AnswersFlattened
    <3> QED BY <1>1, <2>1, <3>1 DEF AnswersFlattened
  <2> QED BY <1>2, <2>1, <2>9, <2>10 DEF IInv
<1> QED BY <1>3, <1>4

LEMMA FlattenInv == ASSUME IInv, Flatten PROVE IInv'
<1>1. PagesExtracted /\ UNCHANGED <<submission, answers, organisation>> /\ status = "extracting"
  BY DEF IInv, Flatten
<1>2. PagesExtracted'
  BY <1>1, SamePages DEF PagesExtracted
<1>3. OrganisationMade' /\ status' \in {"flattened", "failed"}
  BY <1>1 DEF IInv, Flatten, OrganisationMade, IsParsed
<1>4. Flattened(answers)' = Flattened(answers) /\ Duplicates(answers)' = Duplicates(answers)
  BY <1>1 DEF Flattened, Duplicates, AllLabels, PagesWith
<1>5. Len(answers)' = Len(answers) /\ Len(pages)' = Len(pages)
  BY <1>1, SamePages
<1>6. AnswersFlattened'
  <2>1. flat = <<>> /\ Len(answers) = Len(pages)
    BY <1>1 DEF IInv, AnswersFlattened, Flatten
  <2>2. CASE Duplicates(answers) # {}
    <3>1. status' = "failed" /\ flat' = <<>>
      BY <2>1, <2>2 DEF Flatten
    <3> QED BY <3>1 DEF AnswersFlattened
  <2>3. CASE Duplicates(answers) = {}
    <3>1. status' = "flattened" /\ flat' = Flattened(answers)
      BY <2>3 DEF Flatten
    <3> QED BY <1>4, <1>5, <2>1, <2>3, <3>1 DEF AnswersFlattened
  <2> QED BY <2>2, <2>3
<1> QED BY <1>2, <1>3, <1>6 DEF IInv

\* After the answers are flattened they stay.
LEMMA AnswersStay ==
    ASSUME PagesExtracted, AnswersFlattened, UNCHANGED <<submission, answers, flat>>,
           status' = status \/ status \in {"flattened", "parsed"},
           status' # status => status' # "extracting"
    PROVE  PagesExtracted' /\ AnswersFlattened'
<1>1. PagesExtracted'
  BY SamePages DEF PagesExtracted
<1>2. Flattened(answers)' = Flattened(answers) /\ Duplicates(answers)' = Duplicates(answers)
  BY DEF Flattened, Duplicates, AllLabels, PagesWith
<1>3. Len(answers)' = Len(answers) /\ Len(pages)' = Len(pages)
  BY SamePages
<1> QED BY <1>1, <1>2, <1>3 DEF AnswersFlattened

LEMMA TransformInv == ASSUME IInv, Transform PROVE IInv'
<1>1. UNCHANGED <<submission, answers, flat>> /\ status = "flattened" /\ status' \in {"parsed", "failed"}
  BY DEF Transform
<1>2. PagesExtracted' /\ AnswersFlattened'
  BY <1>1, AnswersStay DEF IInv
<1>3. OrganisationMade'
  <2>1. CASE Parses
    <3>1. status' = "parsed" /\ organisation' = ParseOrgSubmission
      BY <2>1 DEF Transform
    <3> QED BY <1>1, <2>1, <3>1, SameOrganisation DEF OrganisationMade, IsParsed
  <2>2. CASE ~Parses
    <3>1. status' = "failed" /\ organisation' = organisation
      BY <2>2 DEF Transform
    <3>2. organisation = NoOrganisation
      BY <1>1 DEF IInv, OrganisationMade, IsParsed
    <3> QED BY <3>1, <3>2 DEF OrganisationMade, IsParsed, NoOrganisation
  <2> QED BY <2>1, <2>2
<1> QED BY <1>1, <1>2, <1>3 DEF IInv

LEMMA ValidateInv == ASSUME IInv, Validate PROVE IInv'
<1>1. UNCHANGED <<submission, answers, flat, organisation>> /\ status = "parsed"
      /\ status' \in {"accepted", "refused"}
  BY DEF Validate
<1>2. PagesExtracted' /\ AnswersFlattened'
  BY <1>1, AnswersStay DEF IInv
<1>3. OrganisationMade'
  <2>1. Parses /\ organisation = ParseOrgSubmission
    BY <1>1 DEF IInv, OrganisationMade, IsParsed
  <2> QED BY <1>1, <2>1, SameOrganisation DEF OrganisationMade, IsParsed
<1> QED BY <1>1, <1>2, <1>3 DEF IInv

LEMMA StutterInv == ASSUME IInv, UNCHANGED vars PROVE IInv'
<1>1. UNCHANGED <<submission, answers, flat, organisation, status>>
  BY DEF vars
<1>2. PagesExtracted' /\ AnswersFlattened'
  BY <1>1, AnswersStay DEF IInv
<1>3. OrganisationMade'
  BY <1>1, SameOrganisation DEF IInv, OrganisationMade, IsParsed, NoOrganisation
<1> QED BY <1>1, <1>2, <1>3 DEF IInv

\* The answers that are left are those of the pages, and an organisation is made of
\* them and of nothing else (parseOrgSubmission).
THEOREM InductiveInvariant == Spec => []IInv
<1>1. IInv /\ [Next]_vars => IInv'
  BY ExtractPageInv, FlattenInv, TransformInv, ValidateInv, StutterInv DEF Next
<1> QED BY <1>1, InitInv, PTL DEF Spec
--------------------------------------------------------------------------------
(* Types *)

LEMMA OrganisationFields ==
    ASSUME Parses
    PROVE  LET o == ParseOrgSubmission
           IN  /\ o.wasteProcessingTypes \subseteq {"reprocessor", "exporter"}
               /\ Range(o.reprocessingNations) \subseteq Range(NationMapping)
               /\ o.businessType \in Range(BusinessTypeMapping) \cup {None}
               /\ o.submittedToRegulator \in Range(RegulatorMapping) \cup {None}
               /\ DOMAIN o.companyDetails.address = AddressFields
               /\ DOMAIN o.managementContactDetails = ContactFields
<1>1. WasteProcessingTypesMapping[Answer("Currently operational?")[1]] \subseteq {"reprocessor", "exporter"}
  <2>1. Answer("Currently operational?")[1] \in DOMAIN WasteProcessingTypesMapping
    BY DEF Parses, IsIn
  <2>2. \A x \in DOMAIN WasteProcessingTypesMapping :
            WasteProcessingTypesMapping[x] \subseteq {"reprocessor", "exporter"}
    BY DEF WasteProcessingTypesMapping
  <2> QED BY <2>1, <2>2
<1>2. Range(ParseOrgSubmission.reprocessingNations) \subseteq Range(NationMapping)
  <2> DEFINE nations == Answer("Nations with sites")
  <2>1. \A i \in DOMAIN nations : nations[i] \in DOMAIN NationMapping
    BY DEF Parses, Range
  <2> HIDE DEF nations
  <2>2. Range([i \in DOMAIN nations |-> NationMapping[nations[i]]]) \subseteq Range(NationMapping)
    BY <2>1 DEF Range
  <2> QED BY <2>2 DEF ParseOrgSubmission, nations
<1>3. MapOptional(BusinessTypeMapping, Answer("Organisation type")) \in Range(BusinessTypeMapping) \cup {None}
  BY DEF Parses, Maps, MapOptional, IsIn, Range
<1>4. SubmittedToRegulator \in Range(RegulatorMapping) \cup {None}
  BY DEF Parses, SubmittedToRegulator, Range
<1>5. DOMAIN GetAddress = AddressFields
  BY DEF GetAddress, ParseUkAddress, PlaceMiddle, NoAddress
<1>6. DOMAIN ManagementContactDetails = ContactFields
  BY DEF ManagementContactDetails, NoContact
<1> QED BY <1>1, <1>2, <1>3, <1>4, <1>5, <1>6 DEF ParseOrgSubmission, CompanyDetails

LEMMA TitlesAreDistinct ==
    ASSUME PagesExtracted
    PROVE  TitlesOf(answers) \subseteq TitlesOf(pages) /\ Len(answers) = Cardinality(TitlesOf(answers))
<1> DEFINE title == [i \in 1..Len(answers) |-> answers[i].title]
<1>1. Len(answers) \in Nat /\ DOMAIN answers = 1..Len(answers)
  BY AnswersOfPages
<1>2. TitlesOf(answers) \subseteq TitlesOf(pages)
  BY AnswersOfPages DEF TitlesOf
<1>3. title \in Bijection(1..Len(answers), TitlesOf(answers))
  BY <1>1 DEF PagesExtracted, TitlesOf, Bijection, Injection, Surjection, IsInjective
<1>4. ExistsBijection(1..Len(answers), TitlesOf(answers))
  BY <1>3 DEF ExistsBijection
<1>5. Cardinality(1..Len(answers)) = Len(answers) /\ IsFiniteSet(1..Len(answers))
  <2>1. PICK n : n = Len(answers)
    OBVIOUS
  <2>2. 1 \in Int /\ n \in Int /\ (IF 1 > n THEN 0 ELSE n - 1 + 1) = n
    BY <1>1, <2>1
  <2> QED BY <2>1, <2>2, FS_Interval
<1> QED BY <1>1, <1>2, <1>4, <1>5, FS_Bijection

LEMMA InvType == ASSUME IInv PROVE TypeOK
<1>1. PagesExtracted /\ AnswersFlattened /\ OrganisationMade
  BY DEF IInv
<1>2. \A l \in DOMAIN flat : IsGiven(flat[l]) /\ flat[l] \in Range(main)
  <2>1. CASE flat = <<>>
    BY <2>1
  <2>2. CASE flat = Flattened(answers)
    <3> SUFFICES ASSUME NEW l \in DOMAIN flat PROVE IsGiven(flat[l]) /\ flat[l] \in Range(main)
      OBVIOUS
    <3>1. \E c : Given(c) /\ flat[l] = main[c.name]
      BY <1>1, <2>2, FlattenedIsGiven
    <3> QED BY <3>1 DEF Given, Range
  <2> QED BY <1>1, <2>1, <2>2 DEF AnswersFlattened
<1>3. (organisation # NoOrganisation) <=> IsParsed
  <2>1. ParseOrgSubmission # NoOrganisation
    BY DEF ParseOrgSubmission, NoOrganisation, None
  <2> QED BY <1>1, <2>1 DEF OrganisationMade
<1> QED BY <1>1, <1>2, <1>3, TitlesAreDistinct, OrganisationFields DEF IInv, TypeOK, OrganisationMade

\* No blank answer is kept, and whatever does not throw makes a whole organisation.
THEOREM TypeCorrect == Spec => []TypeOK
BY InductiveInvariant, InvType, PTL
--------------------------------------------------------------------------------
(* No answer is replaced *)

\* Of a parsed submission every answer stands under its label, unless its label is
\* one that pages may share (extractAnswers, flattenAnswersByShortDesc).
THEOREM AnswersKept == Spec => []AnswersAreKept
<1>1. ASSUME IInv, IsParsed, NEW i \in DOMAIN pages, NEW c \in Range(pages[i].components), Given(c)
      PROVE  Answer(c.label) = main[c.name] \/ c.label \in KnownDuplicates
  <2>1. /\ PagesExtracted /\ flat = Flattened(answers)
        /\ Len(answers) = Len(pages) /\ Duplicates(answers) = {}
    BY <1>1 DEF IInv, AnswersFlattened, IsParsed
  <2> QED BY <1>1, <2>1, FlattenedKeeps DEF Answer
<1>2. IInv => AnswersAreKept
  BY <1>1 DEF AnswersAreKept
<1> QED BY <1>2, InductiveInvariant, PTL
--------------------------------------------------------------------------------
(* Addresses *)

\* The numbers from 1 to n are in order.
LEMMA OrderOfAll == ASSUME NEW n \in Nat PROVE InOrder(1..n) = [k \in 1..n |-> k]
<1>1. \A i \in 0..n : IsFiniteSet(1..i) /\ Cardinality(1..i) = i
  <2> SUFFICES ASSUME NEW i \in 0..n PROVE IsFiniteSet(1..i) /\ Cardinality(1..i) = i
    OBVIOUS
  <2>1. 1 \in Int /\ i \in Int /\ (IF 1 > i THEN 0 ELSE i - 1 + 1) = i
    OBVIOUS
  <2> QED BY <2>1, FS_Interval
<1>2. \A i \in 1..n : {j \in 1..n : j <= i} = 1..i
  OBVIOUS
<1>3. Cardinality(1..n) = n
  BY <1>1
<1>4. ASSUME NEW k \in 1..n
      PROVE  (CHOOSE i \in 1..n : Cardinality({j \in 1..n : j <= i}) = k) = k
  <2>1. ASSUME NEW i \in 1..n PROVE Cardinality({j \in 1..n : j <= i}) = i
    <3>1. {j \in 1..n : j <= i} = 1..i
      BY <1>2
    <3>2. Cardinality(1..i) = i
      BY <1>1
    <3> QED BY <3>1, <3>2
  <2> QED BY <2>1
<1> QED BY <1>3, <1>4 DEF InOrder

\* What the boxes of a UK address are joined to.
LEMMA JoinedParts ==
    ASSUME NEW s, EnteredAddress(s)
    PROVE  LET e == s.entered
               v == Joined(e)
           IN  /\ v \in Seq(STRING) /\ NoPart \notin Range(v) /\ Len(v) >= 3
               /\ \A f \in Boxes : e[f] \in Seq(STRING)
<1> DEFINE e == s.entered
           v == Joined(e)
           Given1(x) == x \in Seq(STRING) /\ NoPart \notin Range(x)
<1>1. ASSUME NEW x, NEW y, Given1(x), Given1(y)
      PROVE  Given1(x \o y) /\ Len(x \o y) = Len(x) + Len(y)
  <2>1. x \o y \in Seq(STRING) /\ Len(x \o y) = Len(x) + Len(y)
    BY <1>1
  <2>2. ASSUME NEW i \in DOMAIN (x \o y) PROVE (x \o y)[i] # NoPart
    <3>1. CASE i <= Len(x)
      <4>1. i \in DOMAIN x /\ (x \o y)[i] = x[i]
        BY <1>1, <3>1
      <4> QED BY <1>1, <4>1 DEF Range
    <3>2. CASE ~(i <= Len(x))
      <4>1. i - Len(x) \in DOMAIN y /\ (x \o y)[i] = y[i - Len(x)]
        BY <1>1, <3>2
      <4> QED BY <1>1, <4>1 DEF Range
    <3> QED BY <3>1, <3>2
  <2> QED BY <2>1, <2>2 DEF Range
<1>2. /\ Given1(e.line1) /\ Given1(e.line2) /\ Given1(e.town) /\ Given1(e.county) /\ Given1(e.postcode)
      /\ e.line1 # <<>> /\ e.town # <<>> /\ e.postcode # <<>>
      /\ \A f \in Boxes : e[f] \in Seq(STRING)
  BY DEF EnteredAddress, Boxes, Undefined
<1>3. ASSUME NEW x, Given1(x) PROVE Len(x) \in Nat /\ (x # <<>> => Len(x) >= 1)
  BY <1>3
<1> HIDE DEF Given1
<1> DEFINE v2 == e.line1 \o e.line2
           v3 == v2 \o e.town
           v4 == v3 \o e.county
<1>4. Given1(v2) /\ Len(v2) = Len(e.line1) + Len(e.line2)
  BY <1>1, <1>2
<1> HIDE DEF v2
<1>5. Given1(v3) /\ Len(v3) = Len(v2) + Len(e.town)
  BY <1>1, <1>2, <1>4
<1> HIDE DEF v3
<1>6. Given1(v4) /\ Len(v4) = Len(v3) + Len(e.county)
  BY <1>1, <1>2, <1>5
<1> HIDE DEF v4
<1>7. v = v4 \o e.postcode
  BY DEF Joined, v2, v3, v4
<1>8. Given1(v) /\ Len(v) = Len(v4) + Len(e.postcode)
  BY <1>1, <1>2, <1>6, <1>7
<1> HIDE DEF v
<1>9. Len(v) >= 3
  <2>1. /\ Len(e.line1) >= 1 /\ Len(e.town) >= 1 /\ Len(e.postcode) >= 1
        /\ Len(e.line1) \in Nat /\ Len(e.line2) \in Nat /\ Len(e.town) \in Nat
        /\ Len(e.county) \in Nat /\ Len(e.postcode) \in Nat
    BY <1>2, <1>3
  <2>2. /\ Len(v2) = Len(e.line1) + Len(e.line2) /\ Len(v3) = Len(v2) + Len(e.town)
        /\ Len(v4) = Len(v3) + Len(e.county) /\ Len(v) = Len(v4) + Len(e.postcode)
    BY <1>4, <1>5, <1>6, <1>8
  <2>3. \A a, b, c, d, f \in Nat : a >= 1 /\ c >= 1 /\ f >= 1 => a + b + c + d + f >= 3
    OBVIOUS
  <2>4. Len(v) = Len(e.line1) + Len(e.line2) + Len(e.town) + Len(e.county) + Len(e.postcode)
    BY <2>2, Zenon
  <2>5. Len(e.line1) + Len(e.line2) + Len(e.town) + Len(e.county) + Len(e.postcode) >= 3
    BY <2>1, <2>3
  <2> QED BY <2>4, <2>5, Zenon
<1> QED BY <1>2, <1>8, <1>9 DEF v, Given1

\* A value with three parts or more and no blank one is taken apart at its commas.
LEMMA ParsedParts ==
    ASSUME NEW v \in Seq(STRING), NoPart \notin Range(v), Len(v) >= 3
    PROVE  LET n == Len(v)
               a == ParseUkAddress(v)
           IN  /\ a.line1 = <<v[1]>> /\ a.postcode = <<v[n]>> /\ a # NoAddress
               /\ n = 3 => /\ a.town = <<v[2]>> /\ a.line2 = <<>> /\ a.county = <<>>
               /\ n = 5 => /\ a.line2 = <<v[2]>> /\ a.town = <<v[3]>> /\ a.county = <<v[4]>>
               /\ n \notin {3, 5} => /\ a.line2 = <<>> /\ a.town = <<>> /\ a.county = <<>>
                                     /\ a.fullAddress = v
<1> PICK n : n = Len(v)
  OBVIOUS
<1> DEFINE places == InOrder({i \in DOMAIN v : v[i] # NoPart})
           parts == [k \in DOMAIN places |-> v[places[k]]]
           b == [[NoAddress EXCEPT !.country = <<"UK">>] EXCEPT !.line1 = <<v[1]>>, !.postcode = <<v[n]>>]
           middle == SubSeq(v, 2, n - 1)
<1>0. n \in Nat /\ n >= 3 /\ DOMAIN v = 1..n /\ v = [k \in 1..n |-> v[k]]
  OBVIOUS
<1>1. parts = v
  <2>1. {i \in DOMAIN v : v[i] # NoPart} = 1..n
    BY DEF Range
  <2>2. places = [k \in 1..n |-> k]
    BY <1>0, <2>1, OrderOfAll
  <2> HIDE DEF places
  <2>3. parts = [k \in 1..n |-> v[k]]
    BY <2>2
  <2> QED BY <1>0, <2>3
<1>2. IsGiven(v)
  <2>1. Len(<<>>) = 0 /\ \A x : Len(<<x>>) = 1
    OBVIOUS
  <2>2. v # <<>> /\ \A x : v # <<x>>
    BY <1>0, <2>1
  <2> QED BY <2>2 DEF IsGiven, Undefined, Blank
<1>3. ParseUkAddress(v) = PlaceMiddle(b, middle, v)
  <2> DEFINE uk == [NoAddress EXCEPT !.country = <<"UK">>]
             R(q) == IF ~IsGiven(v) THEN NoAddress
                     ELSE IF Len(q) < 3 THEN [uk EXCEPT !.fullAddress = v]
                     ELSE PlaceMiddle([uk EXCEPT !.line1 = <<q[1]>>, !.postcode = <<q[Len(q)]>>],
                                      SubSeq(q, 2, Len(q) - 1), v)
  <2>1. ParseUkAddress(v) = R(parts)
    BY DEF ParseUkAddress
  <2>2. R(v) = PlaceMiddle(b, middle, v)
    <3>1. ~(Len(v) < 3) /\ Len(v) = n
      BY <1>0
    <3> QED BY <1>2, <3>1, Zenon
  <2> HIDE DEF R, parts
  <2> QED BY <1>1, <2>1, <2>2
<1>4. /\ Len(middle) = n - 2 /\ n \in Nat
      /\ n = 3 => middle[1] = v[2]
      /\ n = 5 => middle[1] = v[2] /\ middle[2] = v[3] /\ middle[3] = v[4]
  <2>1. middle = [i \in 1..(n - 1 - 2 + 1) |-> v[i + 2 - 1]]
    BY <1>0, SMTT(30)
  <2>2. PICK k \in Nat : k = n - 2 /\ k = n - 1 - 2 + 1
    BY <1>0
  <2> HIDE DEF middle
  <2>3. Len(middle) = k /\ \A i \in 1..k : middle[i] = v[i + 1]
    <3>1. \A i \in 1..k : i + 2 - 1 = i + 1
      OBVIOUS
    <3> QED BY <2>1, <2>2, <3>1
  <2>4. n = 3 => k = 1 /\ 1 \in 1..k /\ 1 + 1 = 2
    BY <2>2
  <2>5. n = 5 => k = 3 /\ 1 \in 1..k /\ 2 \in 1..k /\ 3 \in 1..k /\ 2 + 1 = 3 /\ 3 + 1 = 4 /\ 1 + 1 = 2
    BY <2>2
  <2>6. n = 3 => middle[1] = v[2]
    BY <2>3, <2>4
  <2>7. n = 5 => middle[1] = v[2] /\ middle[2] = v[3] /\ middle[3] = v[4]
    BY <2>3, <2>5
  <2> QED BY <1>0, <2>2, <2>3, <2>6, <2>7
<1> HIDE DEF middle
<1>5. /\ DOMAIN b = AddressFields
      /\ b.line1 = <<v[1]>> /\ b.postcode = <<v[n]>>
      /\ \A f \in {"line2", "town", "county"} : b[f] = <<>>
  BY DEF NoAddress, AddressFields, Undefined
<1> HIDE DEF b
<1>6. n = 3 => /\ PlaceMiddle(b, middle, v) = [b EXCEPT !.town = <<v[2]>>]
  BY <1>4 DEF PlaceMiddle
<1>7. n = 5 => PlaceMiddle(b, middle, v) =
                  [b EXCEPT !.line2 = <<v[2]>>, !.town = <<v[3]>>, !.county = <<v[4]>>]
  <2> SUFFICES ASSUME n = 5
               PROVE  PlaceMiddle(b, middle, v) =
                        [b EXCEPT !.line2 = <<v[2]>>, !.town = <<v[3]>>, !.county = <<v[4]>>]
    OBVIOUS
  <2>1. Len(middle) # 1 /\ Len(middle) = 3 /\ middle[1] = v[2] /\ middle[2] = v[3] /\ middle[3] = v[4]
    BY <1>4
  <2>2. PlaceMiddle(b, middle, v) =
           [b EXCEPT !.line2 = <<middle[1]>>, !.town = <<middle[2]>>, !.county = <<middle[3]>>]
    BY <2>1, Zenon DEF PlaceMiddle
  <2> QED BY <2>1, <2>2, Zenon
<1>8. n \notin {3, 5} => PlaceMiddle(b, middle, v) = [b EXCEPT !.fullAddress = v]
  BY <1>4 DEF PlaceMiddle
<1>9. ASSUME NEW a, a.line1 = <<v[1]>> PROVE a # NoAddress
  BY <1>9 DEF NoAddress, AddressFields, Undefined
<1> DEFINE a == ParseUkAddress(v)
<1>10. a.line1 = <<v[1]>> /\ a.postcode = <<v[n]>>
  <2>1. \/ a = [b EXCEPT !.town = <<v[2]>>]
        \/ a = [b EXCEPT !.line2 = <<v[2]>>, !.town = <<v[3]>>, !.county = <<v[4]>>]
        \/ a = [b EXCEPT !.fullAddress = v]
    BY <1>3, <1>6, <1>7, <1>8
  <2> QED BY <1>5, <2>1 DEF AddressFields
<1>11. n = 3 => a.town = <<v[2]>> /\ a.line2 = <<>> /\ a.county = <<>>
  BY <1>3, <1>5, <1>6 DEF AddressFields
<1>12. n = 5 => a.line2 = <<v[2]>> /\ a.town = <<v[3]>> /\ a.county = <<v[4]>>
  BY <1>3, <1>5, <1>7 DEF AddressFields
<1>13. n \notin {3, 5} => /\ a.line2 = <<>> /\ a.town = <<>> /\ a.county = <<>>
                         /\ a.fullAddress = v
  BY <1>3, <1>5, <1>8 DEF AddressFields
<1> HIDE DEF a
<1> QED BY <1>9, <1>10, <1>11, <1>12, <1>13 DEF a

\* A sequence is made of its elements.
LEMMA SeqIsTuple ==
    ASSUME NEW S, NEW r \in Seq(S)
    PROVE  /\ Len(r) = 1 => r = <<r[1]>>
           /\ Len(r) = 2 => r = <<r[1], r[2]>>
           /\ Len(r) = 3 => r = <<r[1], r[2], r[3]>>
           /\ Len(r) = 4 => r = <<r[1], r[2], r[3], r[4]>>
           /\ Len(r) = 5 => r = <<r[1], r[2], r[3], r[4], r[5]>>
<1>1. ASSUME Len(r) = 1 PROVE r = <<r[1]>>
  BY <1>1
<1>2. ASSUME Len(r) = 2 PROVE r = <<r[1], r[2]>>
  BY <1>2
<1>3. ASSUME Len(r) = 3 PROVE r = <<r[1], r[2], r[3]>>
  BY <1>3
<1>4. ASSUME Len(r) = 4 PROVE r = <<r[1], r[2], r[3], r[4]>>
  BY <1>4
<1>5. ASSUME Len(r) = 5 PROVE r = <<r[1], r[2], r[3], r[4], r[5]>>
  BY <1>5
<1> QED BY <1>1, <1>2, <1>3, <1>4, <1>5

\* Sequences put together, one element after the other.
LEMMA JoinsOne1 ==
    ASSUME NEW x, NEW y
    PROVE  (<<x>> \o <<y>>) = <<x, y>>
<1> PICK S : S = {x, y}
  OBVIOUS
<1> PICK s : s = <<x>>
  OBVIOUS
<1> PICK t : t = <<y>>
  OBVIOUS
<1> PICK r : r = s \o t
  OBVIOUS
<1>1. /\ s \in Seq(S) /\ Len(s) = 1 /\ s[1] = x
      /\ t \in Seq(S) /\ Len(t) = 1 /\ t[1] = y
  OBVIOUS
<1>2. r \in Seq(S) /\ Len(r) = 2 /\ r[1] = x /\ r[2] = y
  BY <1>1
<1>3. r = <<r[1], r[2]>>
  BY <1>2, SeqIsTuple, Zenon
<1> QED BY <1>2, <1>3

LEMMA JoinsOne2 ==
    ASSUME NEW x, NEW y, NEW z
    PROVE  (<<x, y>> \o <<z>>) = <<x, y, z>>
<1> PICK S : S = {x, y, z}
  OBVIOUS
<1> PICK s : s = <<x, y>>
  OBVIOUS
<1> PICK t : t = <<z>>
  OBVIOUS
<1> PICK r : r = s \o t
  OBVIOUS
<1>1. /\ s \in Seq(S) /\ Len(s) = 2 /\ s[1] = x /\ s[2] = y
      /\ t \in Seq(S) /\ Len(t) = 1 /\ t[1] = z
  OBVIOUS
<1>2. r \in Seq(S) /\ Len(r) = 3 /\ r[1] = x /\ r[2] = y /\ r[3] = z
  BY <1>1
<1>3. r = <<r[1], r[2], r[3]>>
  BY <1>2, SeqIsTuple, Zenon
<1> QED BY <1>2, <1>3

LEMMA JoinsOne3 ==
    ASSUME NEW x, NEW y, NEW z, NEW u
    PROVE  (<<x, y, z>> \o <<u>>) = <<x, y, z, u>>
<1> PICK S : S = {x, y, z, u}
  OBVIOUS
<1> PICK s : s = <<x, y, z>>
  OBVIOUS
<1> PICK t : t = <<u>>
  OBVIOUS
<1> PICK r : r = s \o t
  OBVIOUS
<1>1. /\ s \in Seq(S) /\ Len(s) = 3 /\ s[1] = x /\ s[2] = y /\ s[3] = z
      /\ t \in Seq(S) /\ Len(t) = 1 /\ t[1] = u
  OBVIOUS
<1>2. r \in Seq(S) /\ Len(r) = 4 /\ r[1] = x /\ r[2] = y /\ r[3] = z /\ r[4] = u
  BY <1>1
<1>3. r = <<r[1], r[2], r[3], r[4]>>
  BY <1>2, SeqIsTuple, Zenon
<1> QED BY <1>2, <1>3

LEMMA JoinsOne4 ==
    ASSUME NEW x, NEW y, NEW z, NEW u, NEW w
    PROVE  (<<x, y, z, u>> \o <<w>>) = <<x, y, z, u, w>>
<1> PICK S : S = {x, y, z, u, w}
  OBVIOUS
<1> PICK s : s = <<x, y, z, u>>
  OBVIOUS
<1> PICK t : t = <<w>>
  OBVIOUS
<1> PICK r : r = s \o t
  OBVIOUS
<1>1. /\ s \in Seq(S) /\ Len(s) = 4 /\ s[1] = x /\ s[2] = y /\ s[3] = z /\ s[4] = u
      /\ t \in Seq(S) /\ Len(t) = 1 /\ t[1] = w
  OBVIOUS
<1>2. r \in Seq(S) /\ Len(r) = 5 /\ r[1] = x /\ r[2] = y /\ r[3] = z /\ r[4] = u /\ r[5] = w
  BY <1>1
<1>3. r = <<r[1], r[2], r[3], r[4], r[5]>>
  BY <1>2, SeqIsTuple, Zenon
<1> QED BY <1>2, <1>3

LEMMA JoinsNone ==
    ASSUME NEW x, NEW y, NEW z
    PROVE  /\ (<<x>> \o <<>>) = <<x>> /\ (<<x, y>> \o <<>>) = <<x, y>>
           /\ (<<x, y, z>> \o <<>>) = <<x, y, z>>
OBVIOUS

\* Five sequences of one part or none.
LEMMA JoinsSingles ==
    ASSUME NEW a, NEW b, NEW c, NEW d, NEW f
    PROVE  /\ (<<a>> \o <<>> \o <<b>> \o <<>> \o <<c>>) = <<a, b, c>>
           /\ (<<a>> \o <<b>> \o <<c>> \o <<>> \o <<d>>) = <<a, b, c, d>>
           /\ (<<a>> \o <<>> \o <<b>> \o <<c>> \o <<d>>) = <<a, b, c, d>>
           /\ (<<a>> \o <<b>> \o <<c>> \o <<d>> \o <<f>>) = <<a, b, c, d, f>>
<1>1. (<<a>> \o <<>> \o <<b>> \o <<>> \o <<c>>) = <<a, b, c>>
  <2>1. (<<a>> \o <<>>) = <<a>>
    BY JoinsNone
  <2>2. (<<a>> \o <<b>>) = <<a, b>>
    BY JoinsOne1
  <2>3. (<<a, b>> \o <<>>) = <<a, b>>
    BY JoinsNone
  <2>4. (<<a, b>> \o <<c>>) = <<a, b, c>>
    BY JoinsOne2
  <2> QED BY <2>1, <2>2, <2>3, <2>4, Zenon
<1>2. (<<a>> \o <<b>> \o <<c>> \o <<>> \o <<d>>) = <<a, b, c, d>>
  <2>1. (<<a>> \o <<b>>) = <<a, b>>
    BY JoinsOne1
  <2>2. (<<a, b>> \o <<c>>) = <<a, b, c>>
    BY JoinsOne2
  <2>3. (<<a, b, c>> \o <<>>) = <<a, b, c>>
    BY JoinsNone
  <2>4. (<<a, b, c>> \o <<d>>) = <<a, b, c, d>>
    BY JoinsOne3
  <2> QED BY <2>1, <2>2, <2>3, <2>4, Zenon
<1>3. (<<a>> \o <<>> \o <<b>> \o <<c>> \o <<d>>) = <<a, b, c, d>>
  <2>1. (<<a>> \o <<>>) = <<a>>
    BY JoinsNone
  <2>2. (<<a>> \o <<b>>) = <<a, b>>
    BY JoinsOne1
  <2>3. (<<a, b>> \o <<c>>) = <<a, b, c>>
    BY JoinsOne2
  <2>4. (<<a, b, c>> \o <<d>>) = <<a, b, c, d>>
    BY JoinsOne3
  <2> QED BY <2>1, <2>2, <2>3, <2>4, Zenon
<1>4. (<<a>> \o <<b>> \o <<c>> \o <<d>> \o <<f>>) = <<a, b, c, d, f>>
  <2>1. (<<a>> \o <<b>>) = <<a, b>>
    BY JoinsOne1
  <2>2. (<<a, b>> \o <<c>>) = <<a, b, c>>
    BY JoinsOne2
  <2>3. (<<a, b, c>> \o <<d>>) = <<a, b, c, d>>
    BY JoinsOne3
  <2>4. (<<a, b, c, d>> \o <<f>>) = <<a, b, c, d, f>>
    BY JoinsOne4
  <2> QED BY <2>1, <2>2, <2>3, <2>4, Zenon
<1> QED BY <1>1, <1>2, <1>3, <1>4

\* The parts of an entered address stay, and in their boxes if these have no commas.
LEMMA AddressStays ==
    ASSUME NEW s, EnteredAddress(s)
    PROVE  LET e == s.entered
               a == ParseUkAddress(Joined(e))
           IN  /\ a # NoAddress
               /\ Joined(e) \in {a.fullAddress, Joined(a)}
               /\ WithoutCommas(e) => \A f \in Boxes : a[f] \in {Undefined, e[f]}
<1> PICK e : e = s.entered
  OBVIOUS
<1> PICK v : v = Joined(e)
  OBVIOUS
<1> PICK a : a = ParseUkAddress(v)
  OBVIOUS
<1>1. v \in Seq(STRING) /\ NoPart \notin Range(v) /\ Len(v) >= 3 /\ \A f \in Boxes : e[f] \in Seq(STRING)
  BY JoinedParts
<1>2. /\ a.line1 = <<v[1]>> /\ a.postcode = <<v[Len(v)]>> /\ a # NoAddress
      /\ Len(v) = 3 => a.town = <<v[2]>> /\ a.line2 = <<>> /\ a.county = <<>>
      /\ Len(v) = 5 => a.line2 = <<v[2]>> /\ a.town = <<v[3]>> /\ a.county = <<v[4]>>
      /\ Len(v) \notin {3, 5} => /\ a.line2 = <<>> /\ a.town = <<>> /\ a.county = <<>>
                                 /\ a.fullAddress = v
  BY <1>1, ParsedParts
<1>3. v \in {a.fullAddress, Joined(a)}
  <2>1. CASE Len(v) = 3
    <3>0. Joined(a) = <<v[1]>> \o <<>> \o <<v[2]>> \o <<>> \o <<v[3]>>
      BY <1>2, <2>1, Zenon DEF Joined
    <3>9. (<<v[1]>> \o <<>> \o <<v[2]>> \o <<>> \o <<v[3]>>) = <<v[1], v[2], v[3]>>
      BY JoinsSingles
    <3>1. Joined(a) = <<v[1], v[2], v[3]>>
      BY <3>0, <3>9, Zenon
    <3>2. v = <<v[1], v[2], v[3]>>
      BY <1>1, <2>1
    <3> QED BY <3>1, <3>2
  <2>2. CASE Len(v) = 5
    <3>0. Joined(a) = <<v[1]>> \o <<v[2]>> \o <<v[3]>> \o <<v[4]>> \o <<v[5]>>
      BY <1>2, <2>2, Zenon DEF Joined
    <3>9. (<<v[1]>> \o <<v[2]>> \o <<v[3]>> \o <<v[4]>> \o <<v[5]>>) = <<v[1], v[2], v[3], v[4], v[5]>>
      BY JoinsSingles
    <3>1. Joined(a) = <<v[1], v[2], v[3], v[4], v[5]>>
      BY <3>0, <3>9, Zenon
    <3>2. v = <<v[1], v[2], v[3], v[4], v[5]>>
      BY <1>1, <2>2
    <3> QED BY <3>1, <3>2
  <2>3. CASE Len(v) \notin {3, 5}
    BY <1>2, <2>3
  <2> QED BY <2>1, <2>2, <2>3
<1>4. ASSUME WithoutCommas(e), NEW f \in Boxes PROVE a[f] \in {Undefined, e[f]}
  <2>1. ASSUME NEW x \in Seq(STRING), Len(x) <= 1 PROVE x = <<>> \/ \E y : x = <<y>>
    <3>1. CASE Len(x) = 0
      BY <3>1
    <3>2. CASE Len(x) = 1
      <4>1. x = <<x[1]>>
        BY <3>2, SeqIsTuple
      <4> QED BY <4>1
    <3>3. Len(x) \in Nat
      OBVIOUS
    <3>4. Len(x) = 0 \/ Len(x) = 1
      <4>1. \A k \in Nat : k <= 1 => k = 0 \/ k = 1
        OBVIOUS
      <4> QED BY <2>1, <3>3, <4>1, Zenon
    <3> QED BY <3>1, <3>2, <3>4
  <2>2. \A g \in Boxes : e[g] = <<>> \/ \E y : e[g] = <<y>>
    BY <1>1, <1>4, <2>1 DEF WithoutCommas
  <2>3. e.line1 # <<>> /\ e.town # <<>> /\ e.postcode # <<>>
    BY DEF EnteredAddress, Undefined
  <2>4. PICK l : e.line1 = <<l>>
    BY <2>2, <2>3 DEF Boxes
  <2>5. PICK t : e.town = <<t>>
    BY <2>2, <2>3 DEF Boxes
  <2>6. PICK p : e.postcode = <<p>>
    BY <2>2, <2>3 DEF Boxes
  <2>7. v = e.line1 \o e.line2 \o e.town \o e.county \o e.postcode
    BY DEF Joined
  <2>8. CASE e.line2 = <<>> /\ e.county = <<>>
    <3>0. v = <<l>> \o <<>> \o <<t>> \o <<>> \o <<p>>
      BY <2>4, <2>5, <2>6, <2>7, <2>8, Zenon
    <3>9. (<<l>> \o <<>> \o <<t>> \o <<>> \o <<p>>) = <<l, t, p>>
      BY JoinsSingles
    <3>1. v = <<l, t, p>>
      BY <3>0, <3>9, Zenon
    <3> QED BY <1>2, <2>4, <2>5, <2>6, <2>8, <3>1 DEF Boxes, Undefined
  <2>9. CASE e.line2 # <<>> /\ e.county = <<>>
    <3>1. PICK k : e.line2 = <<k>>
      BY <2>2, <2>9 DEF Boxes
    <3>0. v = <<l>> \o <<k>> \o <<t>> \o <<>> \o <<p>>
      BY <2>4, <2>5, <2>6, <2>7, <2>9, <3>1, Zenon
    <3>9. (<<l>> \o <<k>> \o <<t>> \o <<>> \o <<p>>) = <<l, k, t, p>>
      BY JoinsSingles
    <3>2. v = <<l, k, t, p>>
      BY <3>0, <3>9, Zenon
    <3> QED BY <1>2, <2>4, <2>5, <2>6, <2>9, <3>2 DEF Boxes, Undefined
  <2>10. CASE e.line2 = <<>> /\ e.county # <<>>
    <3>1. PICK c : e.county = <<c>>
      BY <2>2, <2>10 DEF Boxes
    <3>0. v = <<l>> \o <<>> \o <<t>> \o <<c>> \o <<p>>
      BY <2>4, <2>5, <2>6, <2>7, <2>10, <3>1, Zenon
    <3>9. (<<l>> \o <<>> \o <<t>> \o <<c>> \o <<p>>) = <<l, t, c, p>>
      BY JoinsSingles
    <3>2. v = <<l, t, c, p>>
      BY <3>0, <3>9, Zenon
    <3> QED BY <1>2, <2>4, <2>5, <2>6, <2>10, <3>2 DEF Boxes, Undefined
  <2>11. CASE e.line2 # <<>> /\ e.county # <<>>
    <3>1. PICK k : e.line2 = <<k>>
      BY <2>2, <2>11 DEF Boxes
    <3>2. PICK c : e.county = <<c>>
      BY <2>2, <2>11 DEF Boxes
    <3>0. v = <<l>> \o <<k>> \o <<t>> \o <<c>> \o <<p>>
      BY <2>4, <2>5, <2>6, <2>7, <3>1, <3>2, Zenon
    <3>9. (<<l>> \o <<k>> \o <<t>> \o <<c>> \o <<p>>) = <<l, k, t, c, p>>
      BY JoinsSingles
    <3>3. v = <<l, k, t, c, p>>
      BY <3>0, <3>9, Zenon
    <3> QED BY <1>2, <2>4, <2>5, <2>6, <3>1, <3>2, <3>3 DEF Boxes, Undefined
  <2> QED BY <2>8, <2>9, <2>10, <2>11
<1> QED BY <1>2, <1>3, <1>4

\* The address of an organisation is the one that was entered.
LEMMA AddressIsEntered ==
    ASSUME IInv, IsParsed, submission.entered # NoAddress
    PROVE  /\ EnteredAddress(submission)
           /\ UkAddressOf(organisation) = ParseUkAddress(Joined(submission.entered))
<1> DEFINE v == Joined(submission.entered)
           Registered == "Registered office address"
           Address == "Organisation address"
<1>1. /\ PagesExtracted /\ flat = Flattened(answers) /\ organisation = ParseOrgSubmission
      /\ Len(answers) = Len(pages) /\ Duplicates(answers) = {}
  BY DEF IInv, AnswersFlattened, OrganisationMade, IsParsed
<1>2. EnteredAddress(submission)
  BY <1>1, EnteredAssumption DEF PagesExtracted
<1>3. ASSUME NEW l \in UkAddressLabels \cap DOMAIN flat PROVE Answer(l) = v
  <2>1. PICK i \in DOMAIN pages : \E c \in Range(pages[i].components) :
             Given(c) /\ c.label = l /\ flat[l] = main[c.name]
    BY <1>1, FlattenedIsGiven
  <2>2. PICK c \in Range(pages[i].components) : Given(c) /\ c.label = l /\ flat[l] = main[c.name]
    BY <2>1
  <2>3. submission.main[c.name] = v
    BY <1>2, <2>2 DEF EnteredAddress, Given, pages, main
  <2> QED BY <2>2, <2>3 DEF Answer, main
<1>4. IsGiven(v)
  <2>1. Len(v) >= 3
    BY <1>2, JoinedParts
  <2>2. Len(<<>>) = 0 /\ \A x : Len(<<x>>) = 1
    OBVIOUS
  <2> HIDE DEF v
  <2>3. v # <<>> /\ \A x : v # <<x>>
    BY <2>1, <2>2
  <2> QED BY <2>3 DEF IsGiven, Undefined, Blank
<1>5. ParseUkAddress(v) # NoAddress
  BY <1>2, AddressStays
<1>6. \E l \in UkAddressLabels : l \in DOMAIN flat
  <2>1. PICK i \in DOMAIN pages : \E c \in Range(pages[i].components) :
            c.label \in UkAddressLabels /\ c.name \in DOMAIN main /\ main[c.name] = v
    BY <1>2 DEF EnteredAddress, pages, main
  <2>2. PICK c \in Range(pages[i].components) :
            c.label \in UkAddressLabels /\ c.name \in DOMAIN main /\ main[c.name] = v
    BY <2>1
  <2>3. Given(c)
    BY <1>4, <2>2 DEF Given, UkAddressLabels
  <2>4. c.label \in DOMAIN flat
    BY <1>1, <2>3, FlattenedKeeps
  <2> QED BY <2>2, <2>4
<1> HIDE DEF v
<1>7. CASE Registered \in DOMAIN flat
  <2>1. Answer(Registered) = v
    BY <1>3, <1>7 DEF UkAddressLabels
  <2>2. organisation.companyDetails.registeredAddress = ParseUkAddress(v)
    BY <1>1, <2>1 DEF ParseOrgSubmission, CompanyDetails
  <2> QED BY <1>2, <1>5, <2>2 DEF UkAddressOf, v
<1>8. CASE Registered \notin DOMAIN flat
  <2>1. Address \in DOMAIN flat /\ Answer(Address) = v /\ Answer(Registered) = Undefined
    BY <1>3, <1>6, <1>8 DEF UkAddressLabels, Answer
  <2>2. ParseUkAddress(Undefined) = NoAddress
    BY DEF ParseUkAddress, IsGiven
  <2>3. GetAddress = ParseUkAddress(v)
    BY <1>4, <2>1 DEF GetAddress
  <2>4. /\ organisation.companyDetails.registeredAddress = NoAddress
        /\ organisation.companyDetails.address = ParseUkAddress(v)
    BY <1>1, <2>1, <2>2, <2>3 DEF ParseOrgSubmission, CompanyDetails
  <2> QED BY <1>2, <2>4 DEF UkAddressOf, v
<1> QED BY <1>7, <1>8

\* Whatever is entered into the boxes of a UK address, no part of it is lost, and
\* without commas in them no part ends up in another field (parseUkAddress).
THEOREM AddressPartsKept == Spec => []AddressPartsKeepTheirPlace
<1>1. IInv => AddressPartsKeepTheirPlace
  BY AddressIsEntered, AddressStays DEF AddressPartsKeepTheirPlace
<1> QED BY <1>1, InductiveInvariant, PTL
--------------------------------------------------------------------------------
(* Paths *)

LEMMA Appended ==
    ASSUME NEW S, NEW p \in Seq(S), NEW n \in S
    PROVE  /\ Append(p, n) \in Seq(S) /\ Append(p, n) # <<>>
           /\ Len(Append(p, n)) = Len(p) + 1 /\ Append(p, n)[Len(p) + 1] = n
           /\ \A i \in 1..Len(p) : Append(p, n)[i] = p[i]
           /\ Last(Append(p, n)) = n /\ Front(Append(p, n)) = p
<1>1. /\ Append(p, n) \in Seq(S)
      /\ Len(Append(p, n)) = Len(p) + 1 /\ Append(p, n)[Len(p) + 1] = n
      /\ \A i \in 1..Len(p) : Append(p, n)[i] = p[i]
  OBVIOUS
<1>2. Front(Append(p, n)) \in Seq(S) /\ Len(Front(Append(p, n))) = Len(p)
      /\ \A i \in 1..Len(p) : Front(Append(p, n))[i] = Append(p, n)[i]
  BY <1>1, SubSeqProperties DEF Front
<1>3. Front(Append(p, n)) = p
  BY <1>1, <1>2, SeqEqual
<1> QED BY <1>1, <1>3 DEF Last

LEMMA TakenApart ==
    ASSUME NEW S, NEW p \in Seq(S), p # <<>>
    PROVE  /\ Len(p) \in Nat \ {0} /\ p[1] \in S
           /\ Front(p) \in Seq(S) /\ Len(Front(p)) = Len(p) - 1 /\ Last(p) \in S
           /\ \A i \in 1..(Len(p) - 1) : Front(p)[i] = p[i]
           /\ p = Append(Front(p), Last(p))
<1>1. Len(p) \in Nat \ {0} /\ DOMAIN p = 1..Len(p) /\ \A i \in 1..Len(p) : p[i] \in S
  BY EmptySeq
<1>2. Front(p) \in Seq(S) /\ Len(Front(p)) = Len(p) - 1
      /\ \A i \in 1..(Len(p) - 1) : Front(p)[i] = p[i]
  BY <1>1, SubSeqProperties, SMTT(30) DEF Front
<1>3. Last(p) \in S /\ Last(p) = p[Len(p)]
  BY <1>1 DEF Last
<1>4. ASSUME NEW f \in Seq(S), NEW l \in S, Len(f) = Len(p) - 1, l = p[Len(p)],
             \A i \in 1..(Len(p) - 1) : f[i] = p[i]
      PROVE  p = Append(f, l)
  <2>1. Append(f, l) \in Seq(S) /\ Len(Append(f, l)) = Len(p) /\ Append(f, l)[Len(p)] = p[Len(p)]
        /\ \A i \in 1..(Len(p) - 1) : Append(f, l)[i] = p[i]
    <3>1. Append(f, l) \in Seq(S) /\ Len(Append(f, l)) = Len(f) + 1 /\ Append(f, l)[Len(f) + 1] = l
          /\ \A i \in 1..Len(f) : Append(f, l)[i] = f[i]
      BY Appended
    <3>2. Len(f) + 1 = Len(p) /\ 1..Len(f) = 1..(Len(p) - 1)
      BY <1>1, <1>4
    <3> QED BY <3>1, <3>2, <1>4
  <2>2. \A i \in 1..Len(p) : Append(f, l)[i] = p[i]
    BY <1>1, <2>1
  <2> QED BY <1>1, <2>1, <2>2, SeqEqual
<1>5. p = Append(Front(p), Last(p))
  BY <1>2, <1>3, <1>4
<1>6. p[1] \in S
  BY <1>1
<1> QED BY <1>1, <1>2, <1>3, <1>5, <1>6, Zenon

LEMMA Prefixed ==
    ASSUME NEW S, NEW p \in Seq(S), NEW q \in Seq(S)
    PROVE  /\ p \o q \in Seq(S) /\ Len(p \o q) = Len(p) + Len(q)
           /\ \A i \in 1..Len(p) : (p \o q)[i] = p[i]
           /\ \A i \in 1..Len(q) : (p \o q)[Len(p) + i] = q[i]
           /\ SubSeq(p \o q, Len(p) + 1, Len(p \o q)) = q
           /\ \A n \in S : Append(p \o q, n) = p \o Append(q, n)
<1>1. /\ p \o q \in Seq(S) /\ Len(p \o q) = Len(p) + Len(q)
      /\ Len(p) \in Nat /\ Len(q) \in Nat
      /\ \A i \in 1..(Len(p) + Len(q)) : (p \o q)[i] = IF i <= Len(p) THEN p[i] ELSE q[i - Len(p)]
  BY ConcatProperties
<1>2. /\ \A i \in 1..Len(p) : (p \o q)[i] = p[i]
      /\ \A i \in 1..Len(q) : (p \o q)[Len(p) + i] = q[i]
  BY <1>1
<1> DEFINE s == SubSeq(p \o q, Len(p) + 1, Len(p \o q))
<1>3. s \in Seq(S) /\ Len(s) = Len(q) /\ \A i \in 1..Len(q) : s[i] = (p \o q)[Len(p) + i]
  <2>1. \A i \in (Len(p) + 1)..Len(p \o q) : (p \o q)[i] \in S
    BY <1>1
  <2>2. /\ s \in Seq(S)
        /\ Len(s) = IF Len(p) + 1 <= Len(p \o q) THEN Len(p \o q) - (Len(p) + 1) + 1 ELSE 0
        /\ \A i \in 1 .. (Len(p \o q) - (Len(p) + 1) + 1) : s[i] = (p \o q)[(Len(p) + 1) + i - 1]
    <3> Len(p) + 1 \in Int /\ Len(p \o q) \in Int
      BY <1>1
    <3> QED BY <2>1, SubSeqProperties
  <2> HIDE DEF s
  <2>3. Len(s) = Len(q)
    BY <2>2, <1>1
  <2>4. ASSUME NEW i \in 1..Len(q) PROVE s[i] = (p \o q)[Len(p) + i]
    <3>1. i \in 1..(Len(p \o q) - (Len(p) + 1) + 1) /\ (Len(p) + 1) + i - 1 = Len(p) + i
      BY <1>1
    <3> QED BY <3>1, <2>2
  <2> QED BY <2>2, <2>3, <2>4
<1>4. s = q
  <2> HIDE DEF s
  <2>1. s \in Seq(S) /\ q \in Seq(S) /\ Len(s) = Len(q) BY <1>3
  <2>2. \A i \in 1..Len(s) : s[i] = q[i]
    BY <1>2, <1>3
  <2> QED BY <2>1, <2>2, SeqEqual
<1>5. ASSUME NEW n \in S PROVE Append(p \o q, n) = p \o Append(q, n)
  <2>1. Append(q, n) \in Seq(S) /\ Len(Append(q, n)) = Len(q) + 1 /\ Append(q, n)[Len(q) + 1] = n
        /\ \A i \in 1..Len(q) : Append(q, n)[i] = q[i]
    BY Appended
  <2>2. Append(p \o q, n) \in Seq(S) /\ Len(Append(p \o q, n)) = Len(p) + Len(q) + 1
        /\ Append(p \o q, n)[Len(p) + Len(q) + 1] = n
        /\ \A i \in 1..(Len(p) + Len(q)) : Append(p \o q, n)[i] = (p \o q)[i]
    BY <1>1, Appended
  <2>3. /\ p \o Append(q, n) \in Seq(S) /\ Len(p \o Append(q, n)) = Len(p) + Len(q) + 1
        /\ \A i \in 1..(Len(p) + Len(q) + 1) :
              (p \o Append(q, n))[i] = IF i <= Len(p) THEN p[i] ELSE Append(q, n)[i - Len(p)]
    BY <2>1, <1>1, ConcatProperties
  <2>4. \A i \in 1..(Len(p) + Len(q) + 1) : Append(p \o q, n)[i] = (p \o Append(q, n))[i]
    BY <1>1, <2>1, <2>2, <2>3
  <2> QED BY <2>2, <2>3, <2>4, SeqEqual
<1> QED BY <1>1, <1>2, <1>4, <1>5

LEMMA Within ==
    ASSUME NEW S, NEW a \in S, NEW b \in S, NEW p \in Seq(S), Len(p) > 2, p[1] = a, p[2] = b
    PROVE  /\ SubSeq(p, 3, Len(p)) \in Seq(S) /\ SubSeq(p, 3, Len(p)) # <<>>
           /\ <<a, b>> \o SubSeq(p, 3, Len(p)) = p
<1> DEFINE s == SubSeq(p, 3, Len(p))
<1>1. Len(p) \in Nat /\ \A i \in 1..Len(p) : p[i] \in S
  OBVIOUS
<1>2. s \in Seq(S) /\ Len(s) = Len(p) - 2 /\ \A i \in 1..(Len(p) - 2) : s[i] = p[2 + i]
  <2>1. \A i \in 3..Len(p) : p[i] \in S BY <1>1
  <2>2. /\ s \in Seq(S) /\ Len(s) = IF 3 <= Len(p) THEN Len(p) - 3 + 1 ELSE 0
        /\ \A i \in 1..(Len(p) - 3 + 1) : s[i] = p[3 + i - 1]
    BY <2>1, <1>1, SubSeqProperties
  <2> HIDE DEF s
  <2> QED BY <2>2, <1>1
<1> HIDE DEF s
<1>3. <<a, b>> \in Seq(S) /\ Len(<<a, b>>) = 2 /\ <<a, b>>[1] = a /\ <<a, b>>[2] = b
  OBVIOUS
<1>4. <<a, b>> \o s \in Seq(S) /\ Len(<<a, b>> \o s) = 2 + Len(s)
      /\ (\A i \in 1..2 : (<<a, b>> \o s)[i] = <<a, b>>[i])
      /\ (\A i \in 1..Len(s) : (<<a, b>> \o s)[2 + i] = s[i])
  BY <1>2, <1>3, Prefixed
<1>5. \A i \in 1..Len(p) : (<<a, b>> \o s)[i] = p[i]
  <2> TAKE i \in 1..Len(p)
  <2>1. CASE i \in 1..2
    <3>1. i = 1 \/ i = 2 BY <2>1
    <3>2. (<<a, b>> \o s)[i] = <<a, b>>[i] BY <2>1, <1>4
    <3>3. <<a, b>>[1] = p[1] /\ <<a, b>>[2] = p[2] BY <1>3
    <3>4. <<a, b>>[i] = p[i] BY <3>1, <3>3, Zenon
    <3> QED BY <3>2, <3>4, Zenon
  <2>2. CASE i > 2
    <3>1. i - 2 \in 1..Len(s) /\ 2 + (i - 2) = i BY <2>2, <1>1, <1>2
    <3>2. PICK j : j = i - 2 OBVIOUS
    <3>3. j \in 1..Len(s) /\ j \in 1..(Len(p) - 2) /\ i = 2 + j BY <3>1, <3>2, <1>2
    <3>4. (<<a, b>> \o s)[2 + j] = s[j] /\ s[j] = p[2 + j] BY <3>3, <1>2, <1>4
    <3> QED BY <3>3, <3>4
  <2>3. i \in 1..2 \/ i > 2 BY <1>1
  <2> QED BY <2>1, <2>2, <2>3, Zenon
<1>6. <<a, b>> \o s = p
  <2>1. Len(<<a, b>> \o s) = Len(p) BY <1>1, <1>2, <1>4
  <2>2. \A i \in 1..Len(<<a, b>> \o s) : (<<a, b>> \o s)[i] = p[i] BY <2>1, <1>5
  <2> QED BY <1>4, <2>1, <2>2, SeqEqual
<1>7. s # <<>>
  BY <1>1, <1>2, EmptySeq
<1> QED BY <1>2, <1>6, <1>7 DEF s
--------------------------------------------------------------------------------
\* The names that the schemas use are strings, which the provers cannot know.
Names == STRING \cup {
    "*", "accreditationId", "accreditationNumber", "accreditations", "address",
    "approvedPersons", "authorisedMaterials", "authorisedWeight", "businessPlan",
    "businessType", "companyDetails", "contaminants", "country", "county",
    "defraFormUploadedFileId", "defraFormUserDownloadLink", "detailedExplanation", "email",
    "exemptionCode", "exemptions", "exportPorts", "formSubmissionTime", "fullAddress",
    "fullName", "gridReference", "id", "input", "line1", "line2", "managementContactDetails",
    "material", "name", "nonPackagingWaste", "nonUkPackagingWaste", "noticeAddress", "orgId",
    "orgName", "orsFileUploads", "output", "partners", "partnership", "percentIncomeSpent",
    "permitNumber", "pernIncomeBusinessPlan", "pernIssuance", "phone", "plantEquipmentDetails",
    "postcode", "prnIncomeBusinessPlan", "prnIssuance", "processLoss",
    "productsMadeFromRecycling", "rawMaterialInputs", "recyclingProcess", "reference",
    "region", "registeredAddress", "registrationNumber", "registrations",
    "reprocessingNations", "role", "s3Uri", "samplingInspectionPlanFileUploads",
    "schemaVersion", "sentToAnotherSite", "signatories", "site", "siteCapacity",
    "siteCapacityTimescale", "siteCapacityWeight", "status", "statusHistory",
    "submittedToRegulator", "submitterContactDetails", "suppliers", "timeScale", "title",
    "tonnage", "tonnageBand", "town", "tradingName", "type", "ukPackagingWaste",
    "usageDescription", "validFrom", "validTo", "version", "wasteManagementPermits",
    "wasteProcessingType", "wasteProcessingTypes", "wasteRegistrationNumber", "weight", "year",
    "yearlyMetrics"}

LEMMA Star == "*" \in Names
BY DEF Names

LEMMA StringsAreNames == Seq(STRING) \subseteq Seq(Names)
BY SeqMonotonic DEF Names

LEMMA OneName ==
    ASSUME NEW n \in Names
    PROVE  /\ <<n>> \in Seq(Names) /\ <<n>> # <<>> /\ Len(<<n>>) = 1 /\ <<n>>[1] = n
           /\ Last(<<n>>) = n /\ Front(<<n>>) = <<>> /\ Append(<<>>, n) = <<n>>
<1>1. <<>> \in Seq(Names) /\ Len(<<>>) = 0
  BY EmptySeq
<1>2. Append(<<>>, n) = <<n>>
  OBVIOUS
<1>3. /\ Append(<<>>, n) \in Seq(Names) /\ Append(<<>>, n) # <<>>
      /\ Last(Append(<<>>, n)) = n /\ Front(Append(<<>>, n)) = <<>>
  <2>1. \A x \in Seq(Names) : /\ Append(x, n) \in Seq(Names) /\ Append(x, n) # <<>>
                               /\ Last(Append(x, n)) = n /\ Front(Append(x, n)) = x
    BY Appended
  <2> QED BY <1>1, <2>1
<1>4. Len(<<n>>) = 1 /\ <<n>>[1] = n
  OBVIOUS
<1> QED BY <1>2, <1>3, <1>4, Zenon

LEMMA GenericPath ==
    ASSUME NEW p \in Seq(Names)
    PROVE  /\ Generic(p) \in Seq(Names) /\ Len(Generic(p)) = Len(p)
           /\ \A i \in 1..Len(p) : Generic(p)[i] = IF p[i] \in Range(Elements) THEN "*" ELSE p[i]
<1>1. Len(p) \in Nat /\ DOMAIN p = 1..Len(p) /\ \A i \in 1..Len(p) : p[i] \in Names
  OBVIOUS
<1>2. Generic(p) \in [1..Len(p) -> Names]
  <2>1. \A i \in 1..Len(p) : (IF p[i] \in Range(Elements) THEN "*" ELSE p[i]) \in Names
    <3> TAKE i \in 1..Len(p)
    <3>1. p[i] \in Names /\ "*" \in Names
      BY <1>1, Star
    <3> QED BY <3>1, Zenon
  <2> QED BY <1>1, <2>1 DEF Generic
<1>3. Generic(p) \in Seq(Names) /\ Len(Generic(p)) = Len(p)
  BY <1>1, <1>2
<1> QED BY <1>1, <1>3 DEF Generic

LEMMA GenericOfNone == Generic(<<>>) = <<>>
<1>1. <<>> \in Seq(Names) /\ Len(<<>>) = 0
  BY EmptySeq
<1>2. Generic(<<>>) \in Seq(Names) /\ Len(Generic(<<>>)) = 0
  BY <1>1, GenericPath
<1> QED BY <1>2, EmptySeq

LEMMA GenericAppended ==
    ASSUME NEW p \in Seq(Names), NEW n \in Names, n \notin Range(Elements)
    PROVE  Generic(Append(p, n)) = Append(Generic(p), n)
<1> PICK S : S = Names
  OBVIOUS
<1>1. p \in Seq(S) /\ n \in S
  OBVIOUS
<1> PICK a : a = Append(p, n)
  OBVIOUS
<1> PICK g : g = Generic(p)
  OBVIOUS
<1>2. a \in Seq(S) /\ Len(a) = Len(p) + 1 /\ a[Len(p) + 1] = n
      /\ \A i \in 1..Len(p) : a[i] = p[i]
  <2>1. /\ Append(p, n) \in Seq(S) /\ Len(Append(p, n)) = Len(p) + 1 /\ Append(p, n)[Len(p) + 1] = n
        /\ \A i \in 1..Len(p) : Append(p, n)[i] = p[i]
    BY <1>1, Appended
  <2> QED BY <2>1, Zenon
<1>3. g \in Seq(Names) /\ Len(g) = Len(p)
      /\ \A i \in 1..Len(p) : g[i] = IF p[i] \in Range(Elements) THEN "*" ELSE p[i]
  BY GenericPath
<1> PICK ga : ga = Generic(a)
  OBVIOUS
<1> PICK ag : ag = Append(g, n)
  OBVIOUS
<1>4. ga \in Seq(Names) /\ Len(ga) = Len(a)
      /\ \A i \in 1..Len(a) : ga[i] = IF a[i] \in Range(Elements) THEN "*" ELSE a[i]
  BY <1>2, GenericPath
<1>5. ag \in Seq(S) /\ Len(ag) = Len(g) + 1 /\ ag[Len(g) + 1] = n
      /\ \A i \in 1..Len(g) : ag[i] = g[i]
  BY <1>1, <1>3, Appended
<1>6. Len(p) \in Nat
  OBVIOUS
<1>7. \A i \in 1..Len(ga) : ga[i] = ag[i]
  <2> TAKE i \in 1..Len(ga)
  <2>1. CASE i \in 1..Len(p) BY <2>1, <1>2, <1>3, <1>4, <1>5
  <2>2. CASE i = Len(p) + 1 BY <2>2, <1>2, <1>3, <1>4, <1>5
  <2>3. i \in 1..Len(p) \/ i = Len(p) + 1 BY <1>2, <1>4, <1>6
  <2> QED BY <2>1, <2>2, <2>3
<1>8. Len(ga) = Len(ag)
  BY <1>2, <1>3, <1>4, <1>5
<1>9. ga = ag
  BY <1>4, <1>5, <1>7, <1>8, SeqEqual
<1> QED BY <1>9

LEMMA GenericPrefixed ==
    ASSUME NEW p \in Seq(Names), NEW q \in Seq(Names)
    PROVE  Generic(p \o q) = Generic(p) \o Generic(q)
<1> PICK S : S = Names
  OBVIOUS
<1>1. p \in Seq(S) /\ q \in Seq(S)
  OBVIOUS
<1> PICK c : c = p \o q
  OBVIOUS
<1> PICK g : g = Generic(p)
  OBVIOUS
<1> PICK h : h = Generic(q)
  OBVIOUS
<1> PICK gc : gc = Generic(c)
  OBVIOUS
<1> PICK gh : gh = g \o h
  OBVIOUS
<1>2. c \in Seq(S) /\ Len(c) = Len(p) + Len(q)
      /\ (\A i \in 1..Len(p) : c[i] = p[i])
      /\ (\A i \in 1..Len(q) : c[Len(p) + i] = q[i])
  BY <1>1, Prefixed
<1>3. g \in Seq(Names) /\ Len(g) = Len(p)
      /\ \A i \in 1..Len(p) : g[i] = IF p[i] \in Range(Elements) THEN "*" ELSE p[i]
  BY GenericPath
<1>4. h \in Seq(Names) /\ Len(h) = Len(q)
      /\ \A i \in 1..Len(q) : h[i] = IF q[i] \in Range(Elements) THEN "*" ELSE q[i]
  BY GenericPath
<1>5. gc \in Seq(Names) /\ Len(gc) = Len(c)
      /\ \A i \in 1..Len(c) : gc[i] = IF c[i] \in Range(Elements) THEN "*" ELSE c[i]
  BY <1>2, GenericPath
<1>6. gh \in Seq(S) /\ Len(gh) = Len(g) + Len(h)
      /\ (\A i \in 1..Len(g) : gh[i] = g[i])
      /\ (\A i \in 1..Len(h) : gh[Len(g) + i] = h[i])
  <2>1. g \in Seq(S) /\ h \in Seq(S)
    BY <1>3, <1>4
  <2>2. /\ g \o h \in Seq(S) /\ Len(g \o h) = Len(g) + Len(h)
        /\ (\A i \in 1..Len(g) : (g \o h)[i] = g[i])
        /\ (\A i \in 1..Len(h) : (g \o h)[Len(g) + i] = h[i])
    BY <2>1, Prefixed
  <2> QED BY <2>2, Zenon
<1>7. Len(p) \in Nat /\ Len(q) \in Nat
  OBVIOUS
<1>8. \A i \in 1..Len(gc) : gc[i] = gh[i]
  <2> TAKE i \in 1..Len(gc)
  <2>1. CASE i \in 1..Len(p)
    BY <2>1, <1>2, <1>3, <1>5, <1>6
  <2>2. CASE i > Len(p)
    <3>1. PICK j : j = i - Len(p)
      OBVIOUS
    <3>2. j \in 1..Len(q) /\ i = Len(p) + j
      BY <3>1, <2>2, <1>2, <1>5, <1>7
    <3>3. c[Len(p) + j] = q[j] /\ gh[Len(g) + j] = h[j]
      BY <3>2, <1>2, <1>4, <1>6
    <3> QED BY <3>2, <3>3, <1>2, <1>3, <1>4, <1>5
  <2>3. i \in 1..Len(p) \/ i > Len(p) BY <1>2, <1>5, <1>7
  <2> QED BY <2>1, <2>2, <2>3
<1>9. Len(gc) = Len(gh)
  BY <1>2, <1>3, <1>4, <1>5, <1>6
<1>10. gc = gh
  BY <1>5, <1>6, <1>8, <1>9, SeqEqual
<1> QED BY <1>10
--------------------------------------------------------------------------------
(* What the schemas have in common *)

StatusNames == {"status", "statusHistory"}

\* No field is part of a status, only a status is forbidden, and whoever has a role
\* may have a title.
Regular(schema) ==
    \A p \in DOMAIN schema :
        /\ p \in Seq(Names) /\ p # <<>>
        /\ \A i \in 1..Len(p) : p[i] # "statusHistory" /\ (p[i] = "status" => i = Len(p))
        /\ schema[p] = "forbidden" <=> Last(p) = "status"
        /\ Last(p) = "role" => Append(Front(p), "title") \in DOMAIN schema

LEMMA RegularKeys ==
    ASSUME NEW names \in SUBSET Names, NEW presence, presence # "forbidden",
           names \cap StatusNames = {}, "role" \in names => "title" \in names
    PROVE  Regular(Keys(names, presence))
<1> DEFINE s == Keys(names, presence)
<1>1. DOMAIN s = {<<n>> : n \in names} /\ \A p \in DOMAIN s : s[p] = presence
  BY DEF Keys
<1> HIDE DEF s
<1>2. ASSUME NEW p \in DOMAIN s
      PROVE  /\ p \in Seq(Names) /\ p # <<>>
             /\ \A i \in 1..Len(p) : p[i] # "statusHistory" /\ (p[i] = "status" => i = Len(p))
             /\ s[p] = "forbidden" <=> Last(p) = "status"
             /\ Last(p) = "role" => Append(Front(p), "title") \in DOMAIN s
  <2>1. PICK n \in names : p = <<n>>
    BY <1>1
  <2>2. n \in Names /\ n # "status" /\ n # "statusHistory"
    BY DEF StatusNames
  <2>3. p \in Seq(Names) /\ p # <<>> /\ Len(p) = 1 /\ p[1] = n /\ Last(p) = n /\ Front(p) = <<>>
    BY <2>1, <2>2, OneName
  <2>4. \A i \in 1..Len(p) : p[i] # "statusHistory" /\ (p[i] = "status" => i = Len(p))
    BY <2>2, <2>3
  <2>5. s[p] # "forbidden"
    BY <1>1
  <2>6. ASSUME n = "role" PROVE Append(Front(p), "title") \in DOMAIN s
    <3>1. "title" \in names /\ "title" \in Names
      BY <2>6
    <3>2. Append(<<>>, "title") = <<"title">>
      BY <3>1, OneName
    <3> QED BY <1>1, <2>3, <3>1, <3>2
  <2> QED BY <2>2, <2>3, <2>4, <2>5, <2>6
<1> QED BY <1>2 DEF Regular, s

LEMMA RegularStatus == Regular(Keys({"status"}, "forbidden"))
<1> DEFINE s == Keys({"status"}, "forbidden")
<1>1. DOMAIN s = {<<"status">>} /\ s[<<"status">>] = "forbidden"
  BY DEF Keys
<1> HIDE DEF s
<1>2. "status" \in Names
  BY DEF Names
<1>3. LET p == <<"status">>
      IN  /\ p \in Seq(Names) /\ p # <<>> /\ Len(p) = 1 /\ p[1] = "status" /\ Last(p) = "status"
  BY <1>2, OneName
<1>4. \A p \in DOMAIN s : p = <<"status">>
  BY <1>1
<1>5. PICK p : p = <<"status">>
  OBVIOUS
<1>6. /\ p \in Seq(Names) /\ p # <<>> /\ Last(p) = "status" /\ s[p] = "forbidden"
      /\ \A i \in 1..Len(p) : p[i] # "statusHistory" /\ (p[i] = "status" => i = Len(p))
  BY <1>1, <1>3, <1>5
<1> QED BY <1>4, <1>5, <1>6 DEF Regular, s

LEMMA PartsTogether ==
    ASSUME NEW parts
    PROVE  /\ DOMAIN Together(parts) = UNION {DOMAIN s : s \in parts}
           /\ \A p \in DOMAIN Together(parts) :
                 \E s \in parts : p \in DOMAIN s /\ Together(parts)[p] = s[p]
BY DEF Together

LEMMA RegularTogether ==
    ASSUME NEW parts, \A s \in parts : Regular(s)
    PROVE  Regular(Together(parts))
<1> DEFINE both == Together(parts)
<1>1. DOMAIN both = UNION {DOMAIN s : s \in parts}
      /\ \A p \in DOMAIN both : \E s \in parts : p \in DOMAIN s /\ both[p] = s[p]
  BY PartsTogether
<1> HIDE DEF both
<1>2. ASSUME NEW p \in DOMAIN both
      PROVE  /\ p \in Seq(Names) /\ p # <<>>
             /\ \A i \in 1..Len(p) : p[i] # "statusHistory" /\ (p[i] = "status" => i = Len(p))
             /\ both[p] = "forbidden" <=> Last(p) = "status"
             /\ Last(p) = "role" => Append(Front(p), "title") \in DOMAIN both
  <2>1. PICK s \in parts : p \in DOMAIN s /\ both[p] = s[p]
    BY <1>1
  <2>2. Regular(s)
    OBVIOUS
  <2>3. /\ p \in Seq(Names) /\ p # <<>>
        /\ \A i \in 1..Len(p) : p[i] # "statusHistory" /\ (p[i] = "status" => i = Len(p))
        /\ s[p] = "forbidden" <=> Last(p) = "status"
        /\ Last(p) = "role" => Append(Front(p), "title") \in DOMAIN s
    BY <2>1, <2>2 DEF Regular
  <2>4. DOMAIN s \subseteq DOMAIN both
    BY <1>1
  <2> QED BY <2>1, <2>3, <2>4
<1> QED BY <1>2 DEF Regular, both

LEMMA RegularUnder ==
    ASSUME NEW n \in Names, n \notin StatusNames, NEW schema, Regular(schema)
    PROVE  Regular(Under(<<n>>, schema))
<1> DEFINE u == Under(<<n>>, schema)
<1>1. <<n>> \in Seq(Names) /\ Len(<<n>>) = 1 /\ <<n>>[1] = n
  BY OneName
<1>2. DOMAIN u = {<<n>> \o q : q \in DOMAIN schema}
      /\ \A p \in DOMAIN u : u[p] = schema[SubSeq(p, Len(<<n>>) + 1, Len(p))]
  BY DEF Under
<1> HIDE DEF u
<1>3. ASSUME NEW p \in DOMAIN u
      PROVE  /\ p \in Seq(Names) /\ p # <<>>
             /\ \A i \in 1..Len(p) : p[i] # "statusHistory" /\ (p[i] = "status" => i = Len(p))
             /\ u[p] = "forbidden" <=> Last(p) = "status"
             /\ Last(p) = "role" => Append(Front(p), "title") \in DOMAIN u
  <2>1. PICK q \in DOMAIN schema : p = <<n>> \o q
    BY <1>2
  <2>2. /\ q \in Seq(Names) /\ q # <<>>
        /\ \A i \in 1..Len(q) : q[i] # "statusHistory" /\ (q[i] = "status" => i = Len(q))
        /\ schema[q] = "forbidden" <=> Last(q) = "status"
        /\ Last(q) = "role" => Append(Front(q), "title") \in DOMAIN schema
    BY DEF Regular
  <2>3. /\ p \in Seq(Names) /\ Len(p) = 1 + Len(q) /\ p[1] = n
        /\ \A i \in 1..Len(q) : p[1 + i] = q[i]
        /\ SubSeq(p, Len(<<n>>) + 1, Len(p)) = q
    <3>1. /\ <<n>> \o q \in Seq(Names) /\ Len(<<n>> \o q) = Len(<<n>>) + Len(q)
          /\ \A i \in 1..Len(<<n>>) : (<<n>> \o q)[i] = <<n>>[i]
          /\ \A i \in 1..Len(q) : (<<n>> \o q)[Len(<<n>>) + i] = q[i]
          /\ SubSeq(<<n>> \o q, Len(<<n>>) + 1, Len(<<n>> \o q)) = q
      BY <1>1, <2>2, Prefixed
    <3> QED BY <1>1, <2>1, <3>1
  <2>4. Len(q) \in Nat \ {0}
    BY <2>2, EmptySeq
  <2>5. p # <<>> /\ Last(p) = Last(q)
    <3>1. Last(p) = p[1 + Len(q)] /\ Last(q) = q[Len(q)]
      BY <2>3 DEF Last
    <3>2. p[1 + Len(q)] = q[Len(q)]
      BY <2>3, <2>4
    <3>3. p # <<>>
      BY <2>3, <2>4, EmptySeq
    <3> QED BY <3>1, <3>2, <3>3
  <2>6. \A i \in 1..Len(p) : p[i] # "statusHistory" /\ (p[i] = "status" => i = Len(p))
    <3> TAKE i \in 1..Len(p)
    <3>1. CASE i = 1
      BY <3>1, <2>3 DEF StatusNames
    <3>2. CASE i > 1
      <4>1. PICK j : j = i - 1
        OBVIOUS
      <4>2. j \in 1..Len(q) /\ i = 1 + j
        BY <4>1, <3>2, <2>3, <2>4
      <4>3. p[1 + j] = q[j] /\ q[j] # "statusHistory" /\ (q[j] = "status" => j = Len(q))
        BY <4>2, <2>2, <2>3
      <4> QED BY <4>2, <4>3, <2>3
    <3>3. i = 1 \/ i > 1
      BY <2>3, <2>4
    <3> QED BY <3>1, <3>2, <3>3
  <2>7. u[p] = schema[q]
    BY <1>2, <2>3
  <2>8. ASSUME Last(q) = "role" PROVE Append(Front(p), "title") \in DOMAIN u
    <3>1. Front(q) \in Seq(Names) /\ q = Append(Front(q), Last(q)) /\ Last(q) \in Names
      BY <2>2, TakenApart
    <3>2. \A x \in Names : Append(<<n>> \o Front(q), x) = <<n>> \o Append(Front(q), x)
          /\ <<n>> \o Front(q) \in Seq(Names)
      BY <1>1, <3>1, Prefixed
    <3>3. p = Append(<<n>> \o Front(q), Last(q))
      BY <2>1, <3>1, <3>2
    <3>4. Front(p) = <<n>> \o Front(q)
      <4>1. PICK f : f = <<n>> \o Front(q)
        OBVIOUS
      <4>2. Front(Append(f, Last(q))) = f
        <5>1. f \in Seq(Names) /\ Last(q) \in Names
          BY <4>1, <3>1, <3>2
        <5> QED BY <5>1, Appended
      <4> QED BY <3>3, <4>1, <4>2
    <3>5. "title" \in Names
      BY DEF Names
    <3>6. Append(Front(p), "title") = <<n>> \o Append(Front(q), "title")
      BY <3>2, <3>4, <3>5
    <3> QED BY <1>2, <2>2, <2>8, <3>6
  <2> QED BY <2>2, <2>3, <2>5, <2>6, <2>7, <2>8
<1> QED BY <1>3 DEF Regular, u

LEMMA RegularObject ==
    ASSUME NEW n \in Names, n \notin StatusNames, n # "role",
           NEW presence, presence # "forbidden", NEW schema, Regular(schema)
    PROVE  Regular(Object(n, presence, schema))
<1>1. Regular(Keys({n}, presence))
  BY RegularKeys
<1>2. Regular(Under(<<n>>, schema))
  BY RegularUnder
<1>3. \A s \in {Keys({n}, presence), Under(<<n>>, schema)} : Regular(s)
  BY <1>1, <1>2
<1> QED BY <1>3, RegularTogether DEF Object

LEMMA RegularList ==
    ASSUME NEW n \in Names, n \notin StatusNames, n # "role",
           NEW presence, presence # "forbidden", NEW schema, Regular(schema)
    PROVE  Regular(ListOf(n, presence, schema))
<1>1. "*" \in Names /\ "*" \notin StatusNames
  BY Star DEF StatusNames
<1> QED BY <1>1, RegularObject DEF ListOf
--------------------------------------------------------------------------------
LEMMA RegularAddress == Regular(AddressSchema)
<1>1. {"line1", "line2", "town", "county", "country", "postcode", "region", "fullAddress"} \in SUBSET Names
  BY DEF Names
<1> QED BY <1>1, RegularKeys DEF AddressSchema, StatusNames

LEMMA RegularUser == Regular(UserSchema)
<1>1. {"fullName", "email", "phone"} \in SUBSET Names /\ {"role", "title"} \in SUBSET Names
  BY DEF Names
<1>2. Regular(Keys({"fullName", "email", "phone"}, "required")) /\ Regular(Keys({"role", "title"}, "optional"))
  BY <1>1, RegularKeys DEF StatusNames
<1> QED BY <1>2, RegularTogether DEF UserSchema

LEMMA RegularCompany == Regular(CompanyDetailsSchema)
<1>1. {"name"} \in SUBSET Names /\ {"tradingName", "registrationNumber"} \in SUBSET Names
      /\ "registeredAddress" \in Names /\ "address" \in Names
  BY DEF Names
<1>2. Regular(Keys({"name"}, "required")) /\ Regular(Keys({"tradingName", "registrationNumber"}, "optional"))
  BY <1>1, RegularKeys DEF StatusNames
<1>3. /\ Regular(Object("registeredAddress", "optional", AddressSchema))
      /\ Regular(Object("address", "optional", AddressSchema))
  BY <1>1, RegularObject, RegularAddress DEF StatusNames
<1> QED BY <1>2, <1>3, RegularTogether DEF CompanyDetailsSchema

LEMMA RegularPartnership == Regular(PartnershipSchema)
<1>1. /\ {"type"} \in SUBSET Names
      /\ {"name", "type"} \in SUBSET Names
      /\ "partners" \in Names
  BY DEF Names
<1>2. /\ Regular(Keys({"type"}, "required"))
      /\ Regular(Keys({"name", "type"}, "required"))
  BY <1>1, RegularKeys DEF StatusNames
<1>3. /\ Regular(ListOf("partners", "optional", Keys({"name", "type"}, "required")))
  BY <1>1, <1>2, RegularList DEF StatusNames
<1> QED BY <1>2, <1>3, RegularTogether DEF PartnershipSchema

LEMMA RegularPermit == Regular(WasteManagementPermitSchema)
<1>1. /\ {"type"} \in SUBSET Names
      /\ {"permitNumber"} \in SUBSET Names
      /\ {"reference", "exemptionCode"} \in SUBSET Names
      /\ {"material"} \in SUBSET Names
      /\ {"authorisedWeight", "timeScale"} \in SUBSET Names
      /\ "exemptions" \in Names
      /\ "authorisedMaterials" \in Names
  BY DEF Names
<1>2. /\ Regular(Keys({"type"}, "required"))
      /\ Regular(Keys({"permitNumber"}, "optional"))
      /\ Regular(Keys({"reference", "exemptionCode"}, "required"))
      /\ Regular(Keys({"material"}, "required"))
      /\ Regular(Keys({"authorisedWeight", "timeScale"}, "optional"))
  BY <1>1, RegularKeys DEF StatusNames
<1>3. /\ Regular(Together({Keys({"material"}, "required"), Keys({"authorisedWeight", "timeScale"}, "optional")}))
  BY <1>2, RegularTogether
<1>4. /\ Regular(ListOf("exemptions", "optional", Keys({"reference", "exemptionCode"}, "required")))
      /\ Regular(ListOf("authorisedMaterials", "optional", Together({Keys({"material"}, "required"), Keys({"authorisedWeight", "timeScale"}, "optional")})))
  BY <1>1, <1>2, <1>3, RegularList DEF StatusNames
<1> QED BY <1>2, <1>4, RegularTogether DEF WasteManagementPermitSchema

LEMMA RegularSite == Regular(SiteSchema)
<1>1. /\ {"gridReference"} \in SUBSET Names
      /\ {"material"} \in SUBSET Names
      /\ {"siteCapacityWeight", "siteCapacityTimescale"} \in SUBSET Names
      /\ "address" \in Names
      /\ "siteCapacity" \in Names
  BY DEF Names
<1>2. /\ Regular(Keys({"gridReference"}, "optional"))
      /\ Regular(Keys({"material"}, "required"))
      /\ Regular(Keys({"siteCapacityWeight", "siteCapacityTimescale"}, "optional"))
  BY <1>1, RegularKeys DEF StatusNames
<1>3. /\ Regular(Together({Keys({"material"}, "required"), Keys({"siteCapacityWeight", "siteCapacityTimescale"}, "optional")}))
  BY <1>2, RegularTogether
<1>4. /\ Regular(Object("address", "required", AddressSchema))
      /\ Regular(ListOf("siteCapacity", "optional", Together({Keys({"material"}, "required"), Keys({"siteCapacityWeight", "siteCapacityTimescale"}, "optional")})))
  BY <1>1, <1>2, <1>3, RegularList, RegularObject, RegularAddress DEF StatusNames
<1> QED BY <1>2, <1>4, RegularTogether DEF SiteSchema

LEMMA RegularMetrics == Regular(YearlyMetricsSchema)
<1>1. /\ {"year"} \in SUBSET Names
      /\ {"type", "ukPackagingWaste", "nonUkPackagingWaste", "nonPackagingWaste"} \in SUBSET Names
      /\ {"material", "tonnage"} \in SUBSET Names
      /\ {"type", "sentToAnotherSite", "contaminants", "processLoss"} \in SUBSET Names
      /\ {"name", "weight"} \in SUBSET Names
      /\ "input" \in Names
      /\ "rawMaterialInputs" \in Names
      /\ "output" \in Names
      /\ "productsMadeFromRecycling" \in Names
  BY DEF Names
<1>2. /\ Regular(Keys({"year"}, "required"))
      /\ Regular(Keys({"type", "ukPackagingWaste", "nonUkPackagingWaste", "nonPackagingWaste"}, "optional"))
      /\ Regular(Keys({"material", "tonnage"}, "optional"))
      /\ Regular(Keys({"type", "sentToAnotherSite", "contaminants", "processLoss"}, "optional"))
      /\ Regular(Keys({"name", "weight"}, "optional"))
  BY <1>1, RegularKeys DEF StatusNames
<1>3. /\ Regular(Object("input", "optional", Keys({"type", "ukPackagingWaste", "nonUkPackagingWaste", "nonPackagingWaste"}, "optional")))
      /\ Regular(Object("rawMaterialInputs", "optional", Keys({"material", "tonnage"}, "optional")))
      /\ Regular(Object("output", "optional", Keys({"type", "sentToAnotherSite", "contaminants", "processLoss"}, "optional")))
      /\ Regular(ListOf("productsMadeFromRecycling", "optional", Keys({"name", "weight"}, "optional")))
  BY <1>1, <1>2, RegularList, RegularObject DEF StatusNames
<1> QED BY <1>2, <1>3, RegularTogether DEF YearlyMetricsSchema

LEMMA RegularUpload == Regular(FormFileUploadSchema)
<1>1. /\ {"defraFormUploadedFileId", "defraFormUserDownloadLink"} \in SUBSET Names
      /\ {"s3Uri"} \in SUBSET Names
  BY DEF Names
<1>2. /\ Regular(Keys({"defraFormUploadedFileId", "defraFormUserDownloadLink"}, "required"))
      /\ Regular(Keys({"s3Uri"}, "optional"))
  BY <1>1, RegularKeys DEF StatusNames
<1> QED BY <1>2, RegularTogether DEF FormFileUploadSchema

LEMMA RegularIssuance ==
    ASSUME NEW plan \in Names, plan \notin StatusNames, plan # "role"
    PROVE  Regular(IssuanceSchema(plan))
<1>1. /\ {"tonnageBand"} \in SUBSET Names /\ "signatories" \in Names
      /\ {"percentIncomeSpent", "usageDescription", "detailedExplanation"} \in SUBSET Names
  BY DEF Names
<1>2. /\ Regular(Keys({"tonnageBand"}, "optional"))
      /\ Regular(Keys({"percentIncomeSpent", "usageDescription", "detailedExplanation"}, "optional"))
  BY <1>1, RegularKeys DEF StatusNames
<1>3. /\ Regular(ListOf("signatories", "optional", UserSchema))
      /\ Regular(ListOf(plan, "optional",
              Keys({"percentIncomeSpent", "usageDescription", "detailedExplanation"}, "optional")))
  BY <1>1, <1>2, RegularList, RegularUser DEF StatusNames
<1> QED BY <1>2, <1>3, RegularTogether DEF IssuanceSchema

LEMMA RegularItem == Regular(ItemSchema)
<1>1. /\ {"id", "formSubmissionTime", "submittedToRegulator", "material", "wasteProcessingType"} \in SUBSET Names
      /\ {"validFrom", "validTo", "orgName"} \in SUBSET Names
      /\ "site" \in Names
      /\ "noticeAddress" \in Names
      /\ "submitterContactDetails" \in Names
      /\ "samplingInspectionPlanFileUploads" \in Names
      /\ "orsFileUploads" \in Names
  BY DEF Names
<1>2. /\ Regular(Keys({"id", "formSubmissionTime", "submittedToRegulator", "material", "wasteProcessingType"}, "required"))
      /\ Regular(Keys({"validFrom", "validTo", "orgName"}, "optional"))
  BY <1>1, RegularKeys DEF StatusNames
<1>3. /\ Regular(Object("site", "optional", SiteSchema))
      /\ Regular(Object("noticeAddress", "optional", AddressSchema))
      /\ Regular(Object("submitterContactDetails", "optional", UserSchema))
      /\ Regular(ListOf("samplingInspectionPlanFileUploads", "optional", FormFileUploadSchema))
      /\ Regular(ListOf("orsFileUploads", "optional", FormFileUploadSchema))
  BY <1>1, RegularList, RegularObject, RegularSite, RegularAddress, RegularUser, RegularUpload DEF StatusNames
<1> QED BY <1>2, <1>3, RegularStatus, RegularTogether DEF ItemSchema

LEMMA RegularRegistration == Regular(RegistrationSchema)
<1>1. /\ {"registrationNumber", "accreditationId", "recyclingProcess", "wasteRegistrationNumber", "suppliers", "exportPorts", "plantEquipmentDetails"} \in SUBSET Names
      /\ "wasteManagementPermits" \in Names
      /\ "approvedPersons" \in Names
      /\ "yearlyMetrics" \in Names
  BY DEF Names
<1>2. /\ Regular(Keys({"registrationNumber", "accreditationId", "recyclingProcess", "wasteRegistrationNumber", "suppliers", "exportPorts", "plantEquipmentDetails"}, "optional"))
  BY <1>1, RegularKeys DEF StatusNames
<1>3. /\ Regular(ListOf("wasteManagementPermits", "optional", WasteManagementPermitSchema))
      /\ Regular(ListOf("approvedPersons", "optional", UserSchema))
      /\ Regular(ListOf("yearlyMetrics", "optional", YearlyMetricsSchema))
  BY <1>1, RegularList, RegularPermit, RegularUser, RegularMetrics DEF StatusNames
<1> QED BY <1>2, <1>3, RegularItem, RegularTogether DEF RegistrationSchema

LEMMA RegularAccreditation == Regular(AccreditationSchema)
<1>1. /\ {"accreditationNumber", "businessPlan"} \in SUBSET Names
      /\ "prnIssuance" \in Names /\ "prnIncomeBusinessPlan" \in Names
      /\ "pernIssuance" \in Names /\ "pernIncomeBusinessPlan" \in Names
  BY DEF Names
<1>2. Regular(Keys({"accreditationNumber", "businessPlan"}, "optional"))
  BY <1>1, RegularKeys DEF StatusNames
<1>3. Regular(IssuanceSchema("prnIncomeBusinessPlan")) /\ Regular(IssuanceSchema("pernIncomeBusinessPlan"))
  BY <1>1, RegularIssuance DEF StatusNames
<1>4. /\ Regular(Object("prnIssuance", "optional", IssuanceSchema("prnIncomeBusinessPlan")))
      /\ Regular(Object("pernIssuance", "optional", IssuanceSchema("pernIncomeBusinessPlan")))
  BY <1>1, <1>3, RegularObject DEF StatusNames
<1> QED BY <1>2, <1>4, RegularItem, RegularTogether DEF AccreditationSchema

LEMMA RegularInsert == Regular(OrganisationInsertSchema)
<1>1. /\ {"id", "orgId", "wasteProcessingTypes", "formSubmissionTime", "submittedToRegulator"} \in SUBSET Names
      /\ {"schemaVersion", "version", "reprocessingNations", "businessType"} \in SUBSET Names
      /\ "companyDetails" \in Names
      /\ "partnership" \in Names
      /\ "submitterContactDetails" \in Names
      /\ "managementContactDetails" \in Names
      /\ "registrations" \in Names
      /\ "accreditations" \in Names
  BY DEF Names
<1>2. /\ Regular(Keys({"id", "orgId", "wasteProcessingTypes", "formSubmissionTime", "submittedToRegulator"}, "required"))
      /\ Regular(Keys({"schemaVersion", "version", "reprocessingNations", "businessType"}, "optional"))
  BY <1>1, RegularKeys DEF StatusNames
<1>3. /\ Regular(Object("companyDetails", "optional", CompanyDetailsSchema))
      /\ Regular(Object("partnership", "optional", PartnershipSchema))
      /\ Regular(Object("submitterContactDetails", "required", UserSchema))
      /\ Regular(Object("managementContactDetails", "optional", UserSchema))
      /\ Regular(ListOf("registrations", "optional", RegistrationSchema))
      /\ Regular(ListOf("accreditations", "optional", AccreditationSchema))
  BY <1>1, RegularList, RegularObject, RegularCompany, RegularPartnership, RegularUser, RegularRegistration, RegularAccreditation DEF StatusNames
<1> QED BY <1>2, <1>3, RegularStatus, RegularTogether DEF OrganisationInsertSchema
--------------------------------------------------------------------------------
(* Fields of registrations and accreditations *)

LEMMA ShortEqual ==
    ASSUME NEW S, NEW s \in Seq(S), NEW t \in Seq(S), Len(s) = Len(t), Len(s) \in {2, 3},
           s[1] = t[1], s[2] = t[2], Len(s) = 3 => s[3] = t[3]
    PROVE  s = t
<1>1. \A i \in 1..Len(s) : s[i] = t[i]
  <2> TAKE i \in 1..Len(s)
  <2>1. i = 1 \/ i = 2 \/ (i = 3 /\ Len(s) = 3)
    OBVIOUS
  <2> QED BY <2>1
<1> QED BY <1>1, SeqEqual

LEMMA ShortPaths ==
    ASSUME NEW S, NEW a \in S, NEW b \in S, NEW c \in S
    PROVE  /\ Append(<<a>>, b) = <<a, b>> /\ Append(<<a, b>>, c) = <<a, b, c>>
           /\ <<a>> \o <<b, c>> = <<a, b, c>> /\ <<a, b>> \o <<c>> = <<a, b, c>>
           /\ <<a>> \o <<b>> = <<a, b>>
<1> PICK x : x = <<a>> OBVIOUS
<1> PICK y : y = <<b>> OBVIOUS
<1> PICK z : z = <<c>> OBVIOUS
<1> PICK xy : xy = <<a, b>> OBVIOUS
<1> PICK yz : yz = <<b, c>> OBVIOUS
<1> PICK xyz : xyz = <<a, b, c>> OBVIOUS
<1>1. /\ x \in Seq(S) /\ Len(x) = 1 /\ x[1] = a
      /\ y \in Seq(S) /\ Len(y) = 1 /\ y[1] = b
      /\ z \in Seq(S) /\ Len(z) = 1 /\ z[1] = c
  OBVIOUS
<1>2. /\ xy \in Seq(S) /\ Len(xy) = 2 /\ xy[1] = a /\ xy[2] = b
      /\ yz \in Seq(S) /\ Len(yz) = 2 /\ yz[1] = b /\ yz[2] = c
  OBVIOUS
<1>3. xyz \in Seq(S) /\ Len(xyz) = 3 /\ xyz[1] = a /\ xyz[2] = b /\ xyz[3] = c
  OBVIOUS
<1>4. Append(x, b) = xy
  <2>1. /\ Append(x, b) \in Seq(S) /\ Len(Append(x, b)) = Len(x) + 1 /\ Append(x, b)[Len(x) + 1] = b
        /\ \A i \in 1..Len(x) : Append(x, b)[i] = x[i]
    BY <1>1, Appended
  <2>2. PICK s : s = Append(x, b) OBVIOUS
  <2>3. s \in Seq(S) /\ Len(s) = 2 /\ s[1] = a /\ s[2] = b
    BY <1>1, <2>1, <2>2
  <2> QED BY <1>2, <2>2, <2>3, ShortEqual
<1>5. Append(xy, c) = xyz
  <2>1. /\ Append(xy, c) \in Seq(S) /\ Len(Append(xy, c)) = Len(xy) + 1 /\ Append(xy, c)[Len(xy) + 1] = c
        /\ \A i \in 1..Len(xy) : Append(xy, c)[i] = xy[i]
    BY <1>2, Appended
  <2>2. PICK s : s = Append(xy, c) OBVIOUS
  <2>3. s \in Seq(S) /\ Len(s) = 3 /\ s[1] = a /\ s[2] = b /\ s[3] = c
    BY <1>2, <2>1, <2>2
  <2> QED BY <1>3, <2>2, <2>3, ShortEqual
<1>6. x \o yz = xyz
  <2>1. /\ x \o yz \in Seq(S) /\ Len(x \o yz) = Len(x) + Len(yz)
        /\ \A i \in 1..Len(x) : (x \o yz)[i] = x[i]
        /\ \A i \in 1..Len(yz) : (x \o yz)[Len(x) + i] = yz[i]
    BY <1>1, <1>2, Prefixed
  <2>2. PICK s : s = x \o yz OBVIOUS
  <2>3. s \in Seq(S) /\ Len(s) = 3 /\ s[1] = a /\ s[2] = b /\ s[3] = c
    BY <1>1, <1>2, <2>1, <2>2
  <2> QED BY <1>3, <2>2, <2>3, ShortEqual
<1>7. xy \o z = xyz
  <2>1. /\ xy \o z \in Seq(S) /\ Len(xy \o z) = Len(xy) + Len(z)
        /\ \A i \in 1..Len(xy) : (xy \o z)[i] = xy[i]
        /\ \A i \in 1..Len(z) : (xy \o z)[Len(xy) + i] = z[i]
    BY <1>1, <1>2, Prefixed
  <2>2. PICK s : s = xy \o z OBVIOUS
  <2>3. s \in Seq(S) /\ Len(s) = 3 /\ s[1] = a /\ s[2] = b /\ s[3] = c
    BY <1>1, <1>2, <2>1, <2>2
  <2> QED BY <1>3, <2>2, <2>3, ShortEqual
<1>8. x \o y = xy
  <2>1. /\ x \o y \in Seq(S) /\ Len(x \o y) = Len(x) + Len(y)
        /\ \A i \in 1..Len(x) : (x \o y)[i] = x[i]
        /\ \A i \in 1..Len(y) : (x \o y)[Len(x) + i] = y[i]
    BY <1>1, Prefixed
  <2>2. PICK s : s = x \o y OBVIOUS
  <2>3. s \in Seq(S) /\ Len(s) = 2 /\ s[1] = a /\ s[2] = b
    BY <1>1, <2>1, <2>2
  <2> QED BY <1>2, <2>2, <2>3, ShortEqual
<1> QED BY <1>4, <1>5, <1>6, <1>7, <1>8

LEMMA NamePaths ==
    \A a, b, c \in Names :
        /\ Append(<<a>>, b) = <<a, b>> /\ Append(<<a, b>>, c) = <<a, b, c>>
        /\ <<a>> \o <<b, c>> = <<a, b, c>> /\ <<a, b>> \o <<c>> = <<a, b, c>>
        /\ <<a>> \o <<b>> = <<a, b>>
BY ShortPaths

LEMMA ObjectFields ==
    ASSUME NEW n \in Names, NEW presence, NEW schema, Regular(schema)
    PROVE  /\ DOMAIN Object(n, presence, schema) = {<<n>>} \cup {<<n>> \o q : q \in DOMAIN schema}
           /\ \A p \in DOMAIN Object(n, presence, schema) : p[1] = n
           /\ \A q \in DOMAIN schema : Object(n, presence, schema)[<<n>> \o q] = schema[q]
           /\ Object(n, presence, schema)[<<n>>] = presence
<1> DEFINE k == Keys({n}, presence)
           u == Under(<<n>>, schema)
           o == Object(n, presence, schema)
<1>1. DOMAIN k = {<<n>>} /\ k[<<n>>] = presence
  BY DEF Keys
<1>2. DOMAIN u = {<<n>> \o q : q \in DOMAIN schema}
      /\ \A p \in DOMAIN u : u[p] = schema[SubSeq(p, Len(<<n>>) + 1, Len(p))]
  BY DEF Under
<1>3. o = Together({k, u})
  BY DEF Object
<1> HIDE DEF k, u, o
<1>4. DOMAIN o = DOMAIN k \cup DOMAIN u
      /\ \A p \in DOMAIN o : \E s \in {k, u} : p \in DOMAIN s /\ o[p] = s[p]
  <2>1. PICK parts : parts = {k, u}
    OBVIOUS
  <2>2. DOMAIN Together(parts) = UNION {DOMAIN s : s \in parts}
        /\ \A p \in DOMAIN Together(parts) : \E s \in parts : p \in DOMAIN s /\ Together(parts)[p] = s[p]
    BY PartsTogether
  <2>3. UNION {DOMAIN s : s \in parts} = DOMAIN k \cup DOMAIN u
    BY <2>1
  <2> QED BY <1>3, <2>1, <2>2, <2>3
<1>5. <<n>> \in Seq(Names) /\ Len(<<n>>) = 1 /\ <<n>>[1] = n
  BY OneName
<1>6. ASSUME NEW q \in DOMAIN schema
      PROVE  /\ (<<n>> \o q)[1] = n /\ <<n>> \o q # <<n>>
             /\ SubSeq(<<n>> \o q, Len(<<n>>) + 1, Len(<<n>> \o q)) = q
  <2>1. q \in Seq(Names) /\ q # <<>>
    BY DEF Regular
  <2>2. /\ Len(<<n>> \o q) = Len(<<n>>) + Len(q)
        /\ \A i \in 1..Len(<<n>>) : (<<n>> \o q)[i] = <<n>>[i]
        /\ SubSeq(<<n>> \o q, Len(<<n>>) + 1, Len(<<n>> \o q)) = q
    BY <1>5, <2>1, Prefixed
  <2>3. Len(q) \in Nat \ {0}
    BY <2>1, EmptySeq
  <2> QED BY <1>5, <2>2, <2>3
<1>7. ASSUME NEW q \in DOMAIN schema PROVE o[<<n>> \o q] = schema[q]
  BY <1>1, <1>2, <1>4, <1>6
<1>8. \A p \in DOMAIN o : p[1] = n
  BY <1>1, <1>2, <1>4, <1>5, <1>6
<1>9. o[<<n>>] = presence
  <2>1. <<n>> \notin DOMAIN u
    BY <1>2, <1>6
  <2> QED BY <1>1, <1>4, <2>1
<1> QED BY <1>1, <1>2, <1>4, <1>7, <1>8, <1>9 DEF k, u, o

LEMMA KeysFields ==
    ASSUME NEW names \in SUBSET Names, NEW presence
    PROVE  /\ \A p \in DOMAIN Keys(names, presence) : p \in Seq(Names) /\ Len(p) = 1 /\ p[1] \in names
           /\ \A n \in names : <<n>> \in DOMAIN Keys(names, presence) /\ Keys(names, presence)[<<n>>] = presence
BY OneName DEF Keys

LEMMA OnePart ==
    ASSUME NEW parts, NEW s \in parts, NEW p \in DOMAIN s,
           \A t \in parts : p \in DOMAIN t => t = s
    PROVE  p \in DOMAIN Together(parts) /\ Together(parts)[p] = s[p]
<1>1. DOMAIN Together(parts) = UNION {DOMAIN t : t \in parts}
      /\ \A q \in DOMAIN Together(parts) : \E t \in parts : q \in DOMAIN t /\ Together(parts)[q] = t[q]
  BY PartsTogether
<1>2. p \in DOMAIN Together(parts)
  BY <1>1
<1> QED BY <1>1, <1>2

LEMMA ItemFields ==
    /\ <<"id">> \in DOMAIN ItemSchema /\ ItemSchema[<<"id">>] = "required"
    /\ <<"status">> \in DOMAIN ItemSchema
<1> DEFINE s == Keys({"id", "formSubmissionTime", "submittedToRegulator", "material", "wasteProcessingType"}, "required")
           t == Keys({"status"}, "forbidden")
           u == Keys({"validFrom", "validTo", "orgName"}, "optional")
           v == Object("site", "optional", SiteSchema)
           w == Object("noticeAddress", "optional", AddressSchema)
           x == Object("submitterContactDetails", "optional", UserSchema)
           y == ListOf("samplingInspectionPlanFileUploads", "optional", FormFileUploadSchema)
           z == ListOf("orsFileUploads", "optional", FormFileUploadSchema)
           parts == {s, t, u, v, w, x, y, z}
           p == <<"id">>
<1>1. /\ {"id", "formSubmissionTime", "submittedToRegulator", "material", "wasteProcessingType"} \in SUBSET Names
      /\ {"status"} \in SUBSET Names
      /\ {"validFrom", "validTo", "orgName"} \in SUBSET Names
      /\ "site" \in Names /\ "noticeAddress" \in Names /\ "submitterContactDetails" \in Names
      /\ "samplingInspectionPlanFileUploads" \in Names /\ "orsFileUploads" \in Names
      /\ "*" \in Names /\ "id" \in Names
  BY DEF Names
<1>2. p \in DOMAIN s /\ s[p] = "required" /\ <<"status">> \in DOMAIN t
  BY <1>1, KeysFields
<1>3. p[1] = "id"
  BY <1>1, OneName
<1>4. \A q \in DOMAIN t : q[1] \in {"status"}
  BY <1>1, KeysFields
<1>5. \A q \in DOMAIN u : q[1] \in {"validFrom", "validTo", "orgName"}
  BY <1>1, KeysFields
<1>6. /\ \A q \in DOMAIN v : q[1] = "site"
      /\ \A q \in DOMAIN w : q[1] = "noticeAddress"
      /\ \A q \in DOMAIN x : q[1] = "submitterContactDetails"
  BY <1>1, ObjectFields, RegularSite, RegularAddress, RegularUser
<1>7. /\ \A q \in DOMAIN y : q[1] = "samplingInspectionPlanFileUploads"
      /\ \A q \in DOMAIN z : q[1] = "orsFileUploads"
  <2>1. Regular(Object("*", "optional", FormFileUploadSchema))
    BY <1>1, RegularObject, RegularUpload DEF StatusNames
  <2> QED BY <1>1, <2>1, ObjectFields DEF ListOf
<1>8. ItemSchema = Together(parts)
  BY DEF ItemSchema
<1> HIDE DEF s, t, u, v, w, x, y, z
<1>9. p \notin DOMAIN t /\ p \notin DOMAIN u /\ p \notin DOMAIN v /\ p \notin DOMAIN w
      /\ p \notin DOMAIN x /\ p \notin DOMAIN y /\ p \notin DOMAIN z
  BY <1>3, <1>4, <1>5, <1>6, <1>7
<1>10. s \in parts /\ t \in parts /\ \A r \in parts : p \in DOMAIN r => r = s
  BY <1>9
<1> HIDE DEF parts, p
<1>11. p \in DOMAIN Together(parts) /\ Together(parts)[p] = s[p]
  BY <1>2, <1>10, OnePart
<1>12. <<"status">> \in DOMAIN Together(parts)
  <2>1. DOMAIN Together(parts) = UNION {DOMAIN r : r \in parts}
    BY PartsTogether
  <2> QED BY <1>2, <1>10, <2>1
<1> QED BY <1>2, <1>8, <1>11, <1>12 DEF p

LEMMA RegistrationFields ==
    /\ <<"id">> \in DOMAIN RegistrationSchema /\ RegistrationSchema[<<"id">>] = "required"
    /\ <<"status">> \in DOMAIN RegistrationSchema
<1> DEFINE s == ItemSchema
           t == Keys({"registrationNumber", "accreditationId", "recyclingProcess", "wasteRegistrationNumber",
                      "suppliers", "exportPorts", "plantEquipmentDetails"}, "optional")
           u == ListOf("wasteManagementPermits", "optional", WasteManagementPermitSchema)
           v == ListOf("approvedPersons", "optional", UserSchema)
           w == ListOf("yearlyMetrics", "optional", YearlyMetricsSchema)
           parts == {s, t, u, v, w}
           p == <<"id">>
<1>1. /\ {"registrationNumber", "accreditationId", "recyclingProcess", "wasteRegistrationNumber",
          "suppliers", "exportPorts", "plantEquipmentDetails"} \in SUBSET Names
      /\ "wasteManagementPermits" \in Names /\ "approvedPersons" \in Names /\ "yearlyMetrics" \in Names
      /\ "*" \in Names /\ "id" \in Names
  BY DEF Names
<1>2. p \in DOMAIN s /\ s[p] = "required" /\ <<"status">> \in DOMAIN s
  BY ItemFields
<1>3. p[1] = "id"
  BY <1>1, OneName
<1>4. \A q \in DOMAIN t : q[1] \in {"registrationNumber", "accreditationId", "recyclingProcess",
          "wasteRegistrationNumber", "suppliers", "exportPorts", "plantEquipmentDetails"}
  BY <1>1, KeysFields
<1>5. /\ Regular(Object("*", "optional", WasteManagementPermitSchema))
      /\ Regular(Object("*", "optional", UserSchema))
      /\ Regular(Object("*", "optional", YearlyMetricsSchema))
  BY <1>1, RegularObject, RegularPermit, RegularUser, RegularMetrics DEF StatusNames
<1>6. /\ \A q \in DOMAIN u : q[1] = "wasteManagementPermits"
      /\ \A q \in DOMAIN v : q[1] = "approvedPersons"
      /\ \A q \in DOMAIN w : q[1] = "yearlyMetrics"
  BY <1>1, <1>5, ObjectFields DEF ListOf
<1>7. RegistrationSchema = Together(parts)
  BY DEF RegistrationSchema
<1> HIDE DEF s, t, u, v, w
<1>8. p \notin DOMAIN t /\ p \notin DOMAIN u /\ p \notin DOMAIN v /\ p \notin DOMAIN w
  BY <1>3, <1>4, <1>6
<1>9. s \in parts /\ \A r \in parts : p \in DOMAIN r => r = s
  BY <1>8
<1> HIDE DEF parts, p
<1>10. p \in DOMAIN Together(parts) /\ Together(parts)[p] = s[p]
  BY <1>2, <1>9, OnePart
<1>11. <<"status">> \in DOMAIN Together(parts)
  <2>1. DOMAIN Together(parts) = UNION {DOMAIN r : r \in parts}
    BY PartsTogether
  <2> QED BY <1>2, <1>9, <2>1
<1> QED BY <1>2, <1>7, <1>10, <1>11 DEF p

LEMMA AccreditationFields ==
    /\ <<"id">> \in DOMAIN AccreditationSchema /\ AccreditationSchema[<<"id">>] = "required"
    /\ <<"status">> \in DOMAIN AccreditationSchema
<1> DEFINE s == ItemSchema
           t == Keys({"accreditationNumber", "businessPlan"}, "optional")
           u == Object("prnIssuance", "optional", IssuanceSchema("prnIncomeBusinessPlan"))
           v == Object("pernIssuance", "optional", IssuanceSchema("pernIncomeBusinessPlan"))
           parts == {s, t, u, v}
           p == <<"id">>
<1>1. /\ {"accreditationNumber", "businessPlan"} \in SUBSET Names
      /\ "prnIssuance" \in Names /\ "pernIssuance" \in Names
      /\ "prnIncomeBusinessPlan" \in Names /\ "pernIncomeBusinessPlan" \in Names
      /\ "id" \in Names
  BY DEF Names
<1>2. p \in DOMAIN s /\ s[p] = "required" /\ <<"status">> \in DOMAIN s
  BY ItemFields
<1>3. p[1] = "id"
  BY <1>1, OneName
<1>4. \A q \in DOMAIN t : q[1] \in {"accreditationNumber", "businessPlan"}
  BY <1>1, KeysFields
<1>5. Regular(IssuanceSchema("prnIncomeBusinessPlan")) /\ Regular(IssuanceSchema("pernIncomeBusinessPlan"))
  BY <1>1, RegularIssuance DEF StatusNames
<1>6. /\ \A q \in DOMAIN u : q[1] = "prnIssuance"
      /\ \A q \in DOMAIN v : q[1] = "pernIssuance"
  BY <1>1, <1>5, ObjectFields
<1>7. AccreditationSchema = Together(parts)
  BY DEF AccreditationSchema
<1> HIDE DEF s, t, u, v
<1>8. p \notin DOMAIN t /\ p \notin DOMAIN u /\ p \notin DOMAIN v
  BY <1>3, <1>4, <1>6
<1>9. s \in parts /\ \A r \in parts : p \in DOMAIN r => r = s
  BY <1>8
<1> HIDE DEF parts, p
<1>10. p \in DOMAIN Together(parts) /\ Together(parts)[p] = s[p]
  BY <1>2, <1>9, OnePart
<1>11. <<"status">> \in DOMAIN Together(parts)
  <2>1. DOMAIN Together(parts) = UNION {DOMAIN r : r \in parts}
    BY PartsTogether
  <2> QED BY <1>2, <1>9, <2>1
<1> QED BY <1>2, <1>7, <1>10, <1>11 DEF p

LEMMA ListFields ==
    ASSUME NEW l \in Names, NEW schema, Regular(schema)
    PROVE  LET list == ListOf(l, "optional", schema)
           IN  /\ \A p \in DOMAIN list :
                    p[1] = l /\ (Len(p) = 2 => p = <<l, "*">> /\ list[p] = "optional")
               /\ <<l>> \in DOMAIN list /\ <<l, "*">> \in DOMAIN list
               /\ \A n \in Names : <<n>> \in DOMAIN schema =>
                    <<l, "*", n>> \in DOMAIN list /\ list[<<l, "*", n>>] = schema[<<n>>]
<1> DEFINE any == Object("*", "optional", schema)
           list == ListOf(l, "optional", schema)
<1>1. "*" \in Names
  BY Star
<1>2. /\ DOMAIN any = {<<"*">>} \cup {<<"*">> \o q : q \in DOMAIN schema}
      /\ \A q \in DOMAIN schema : any[<<"*">> \o q] = schema[q]
      /\ any[<<"*">>] = "optional"
  <2>1. PICK n \in Names : n = "*"
    BY <1>1
  <2>2. PICK presence : presence = "optional"
    OBVIOUS
  <2>3. /\ DOMAIN Object(n, presence, schema) = {<<n>>} \cup {<<n>> \o q : q \in DOMAIN schema}
        /\ \A p \in DOMAIN Object(n, presence, schema) : p[1] = n
        /\ \A q \in DOMAIN schema : Object(n, presence, schema)[<<n>> \o q] = schema[q]
        /\ Object(n, presence, schema)[<<n>>] = presence
    BY ObjectFields, Zenon
  <2> QED BY <2>1, <2>2, <2>3, Zenon
<1>3. Regular(any)
  BY <1>1, RegularObject DEF StatusNames
<1> HIDE DEF any
<1>4. /\ DOMAIN list = {<<l>>} \cup {<<l>> \o q : q \in DOMAIN any}
      /\ \A p \in DOMAIN list : p[1] = l
      /\ \A q \in DOMAIN any : list[<<l>> \o q] = any[q]
  <2>1. list = Object(l, "optional", any)
    BY DEF ListOf, any
  <2> HIDE DEF list
  <2>2. PICK presence : presence = "optional"
    OBVIOUS
  <2>3. /\ DOMAIN Object(l, presence, any) = {<<l>>} \cup {<<l>> \o q : q \in DOMAIN any}
        /\ \A p \in DOMAIN Object(l, presence, any) : p[1] = l
        /\ \A q \in DOMAIN any : Object(l, presence, any)[<<l>> \o q] = any[q]
        /\ Object(l, presence, any)[<<l>>] = presence
    BY <1>3, ObjectFields, Zenon
  <2> QED BY <2>1, <2>2, <2>3, Zenon
<1> HIDE DEF list
<1>5. <<l>> \in Seq(Names) /\ Len(<<l>>) = 1
  BY OneName
<1>6. ASSUME NEW p \in DOMAIN list, Len(p) = 2
      PROVE  p = <<l, "*">> /\ list[p] = "optional"
  <2>1. PICK q \in DOMAIN any : p = <<l>> \o q
    <3>1. p # <<l>>
      BY <1>5, <1>6
    <3> QED BY <1>4, <3>1, Zenon
  <2>2. q \in Seq(Names) /\ q # <<>>
    BY <1>3 DEF Regular
  <2>3. Len(p) = 1 + Len(q)
    <3>1. Len(<<l>> \o q) = Len(<<l>>) + Len(q)
      BY <1>5, <2>2, Prefixed
    <3> QED BY <3>1, <1>5, <2>1
  <2>4. Len(q) = 1
    <3>1. PICK m \in Nat : m = Len(q)
      BY <2>2
    <3>2. 2 = 1 + m
      BY <1>6, <2>3, <3>1, Zenon
    <3> QED BY <3>1, <3>2
  <2>5. q = <<"*">>
    <3>1. ASSUME NEW r \in DOMAIN schema, q = <<"*">> \o r PROVE FALSE
      <4>1. r \in Seq(Names) /\ r # <<>> /\ <<"*">> \in Seq(Names) /\ Len(<<"*">>) = 1
        BY <1>1, OneName DEF Regular
      <4>2. Len(<<"*">> \o r) = Len(<<"*">>) + Len(r)
        BY <4>1, Prefixed
      <4>3. Len(r) \in Nat \ {0}
        BY <4>1, EmptySeq
      <4> QED BY <2>4, <3>1, <4>1, <4>2, <4>3
    <3> QED BY <1>2, <3>1
  <2>6. <<l>> \o <<"*">> = <<l, "*">>
    BY <1>1, ShortPaths
  <2> QED BY <1>2, <1>4, <2>1, <2>5, <2>6
<1>7. <<l>> \in DOMAIN list /\ <<l, "*">> \in DOMAIN list
  <2>1. <<l>> \o <<"*">> = <<l, "*">>
    BY <1>1, ShortPaths
  <2> QED BY <1>2, <1>4, <2>1
<1>8. ASSUME NEW n \in Names, <<n>> \in DOMAIN schema
      PROVE  <<l, "*", n>> \in DOMAIN list /\ list[<<l, "*", n>>] = schema[<<n>>]
  <2>1. <<"*">> \o <<n>> = <<"*", n>> /\ <<l>> \o <<"*", n>> = <<l, "*", n>>
    BY <1>1, ShortPaths
  <2>2. <<"*", n>> \in DOMAIN any /\ any[<<"*", n>>] = schema[<<n>>]
    BY <1>2, <1>8, <2>1
  <2> QED BY <1>4, <2>1, <2>2
<1> QED BY <1>4, <1>6, <1>7, <1>8 DEF list

\* Nothing in these is forbidden.
Plain(schema) == \A p \in DOMAIN schema : schema[p] # "forbidden"

LEMMA PlainKeys ==
    ASSUME NEW names, NEW presence, presence # "forbidden"
    PROVE  Plain(Keys(names, presence))
BY DEF Plain, Keys

LEMMA PlainTogether ==
    ASSUME NEW parts, \A s \in parts : Plain(s)
    PROVE  Plain(Together(parts))
<1>1. ASSUME NEW p \in DOMAIN Together(parts) PROVE Together(parts)[p] # "forbidden"
  <2>1. PICK s \in parts : p \in DOMAIN s /\ Together(parts)[p] = s[p]
    BY PartsTogether
  <2> QED BY <2>1 DEF Plain
<1> QED BY <1>1 DEF Plain

LEMMA PlainObject ==
    ASSUME NEW n \in Names, NEW presence, presence # "forbidden", NEW schema, Regular(schema), Plain(schema)
    PROVE  Plain(Object(n, presence, schema))
<1> PICK o : o = Object(n, presence, schema)
  OBVIOUS
<1>1. /\ DOMAIN Object(n, presence, schema) = {<<n>>} \cup {<<n>> \o q : q \in DOMAIN schema}
      /\ \A p \in DOMAIN Object(n, presence, schema) : p[1] = n
      /\ \A q \in DOMAIN schema : Object(n, presence, schema)[<<n>> \o q] = schema[q]
      /\ Object(n, presence, schema)[<<n>>] = presence
  BY ObjectFields, Zenon
<1>2. ASSUME NEW p \in DOMAIN o PROVE o[p] # "forbidden"
  <2>1. CASE p = <<n>>
    BY <1>1, <2>1
  <2>2. CASE p # <<n>>
    <3>1. PICK q \in DOMAIN schema : p = <<n>> \o q
      BY <1>1, <2>2
    <3>2. o[p] = schema[q]
      BY <1>1, <3>1
    <3> QED BY <3>2 DEF Plain
  <2> QED BY <2>1, <2>2
<1> QED BY <1>2 DEF Plain

LEMMA PlainCompany == Plain(CompanyDetailsSchema)
<1>1. Plain(AddressSchema)
  BY PlainKeys DEF AddressSchema
<1>2. /\ Plain(Keys({"name"}, "required"))
      /\ Plain(Keys({"tradingName", "registrationNumber"}, "optional"))
  BY PlainKeys
<1>3. /\ Plain(Object("registeredAddress", "optional", AddressSchema))
      /\ Plain(Object("address", "optional", AddressSchema))
  <2>1. "registeredAddress" \in Names /\ "address" \in Names
    BY DEF Names
  <2> QED BY <1>1, <2>1, PlainObject, RegularAddress
<1> QED BY <1>2, <1>3, PlainTogether DEF CompanyDetailsSchema

LEMMA PlainUser == Plain(UserSchema)
<1>1. /\ Plain(Keys({"fullName", "email", "phone"}, "required"))
      /\ Plain(Keys({"role", "title"}, "optional"))
  BY PlainKeys
<1> QED BY <1>1, PlainTogether DEF UserSchema

LEMMA PlainPartnership == Plain(PartnershipSchema)
<1> DEFINE partner == Keys({"name", "type"}, "required")
<1>1. Plain(Keys({"type"}, "required")) /\ Plain(partner)
  BY PlainKeys
<1>2. Regular(partner)
  <2>1. {"name", "type"} \in SUBSET Names
    BY DEF Names
  <2> QED BY <2>1, RegularKeys DEF StatusNames
<1>3. "*" \in Names /\ "partners" \in Names
  BY DEF Names
<1>4. Plain(Object("*", "optional", partner)) /\ Regular(Object("*", "optional", partner))
  <2> HIDE DEF partner
  <2> QED BY <1>1, <1>2, <1>3, PlainObject, RegularObject DEF StatusNames
<1>5. Plain(ListOf("partners", "optional", partner))
  BY <1>3, <1>4, PlainObject DEF ListOf
<1> QED BY <1>1, <1>5, PlainTogether DEF PartnershipSchema

\* What there is to know of the fields of an organisation: the versions have no
\* parts, and registrations and accreditations are lists of items with an id.
LEMMA InsertFields ==
    LET schema == OrganisationInsertSchema
    IN  /\ \A p \in DOMAIN schema : p[1] \in {"version", "schemaVersion"} => Len(p) = 1
        /\ <<"status">> \in DOMAIN schema
        /\ \A p \in DOMAIN schema : schema[p] = "forbidden" => p = <<"status">> \/ p[1] \in Lists
        /\ \A list \in Lists :
             /\ \A p \in DOMAIN schema :
                    p[1] = list /\ Len(p) = 2 => p = <<list, "*">> /\ schema[p] = "optional"
             /\ <<list>> \in DOMAIN schema /\ <<list, "*">> \in DOMAIN schema
             /\ <<list, "*", "status">> \in DOMAIN schema
             /\ <<list, "*", "id">> \in DOMAIN schema /\ schema[<<list, "*", "id">>] = "required"
<1> DEFINE s == Keys({"id", "orgId", "wasteProcessingTypes", "formSubmissionTime", "submittedToRegulator"}, "required")
           t == Keys({"status"}, "forbidden")
           u == Keys({"schemaVersion", "version", "reprocessingNations", "businessType"}, "optional")
           v == Object("companyDetails", "optional", CompanyDetailsSchema)
           w == Object("partnership", "optional", PartnershipSchema)
           x == Object("submitterContactDetails", "required", UserSchema)
           y == Object("managementContactDetails", "optional", UserSchema)
           r == ListOf("registrations", "optional", RegistrationSchema)
           a == ListOf("accreditations", "optional", AccreditationSchema)
           parts == {s, t, u, v, w, x, y, r, a}
           schema == OrganisationInsertSchema
<1>1. /\ {"id", "orgId", "wasteProcessingTypes", "formSubmissionTime", "submittedToRegulator"} \in SUBSET Names
      /\ {"schemaVersion", "version", "reprocessingNations", "businessType"} \in SUBSET Names
      /\ {"status"} \in SUBSET Names
      /\ "companyDetails" \in Names /\ "partnership" \in Names
      /\ "submitterContactDetails" \in Names /\ "managementContactDetails" \in Names
      /\ "registrations" \in Names /\ "accreditations" \in Names
      /\ "id" \in Names /\ "status" \in Names /\ "*" \in Names
  BY DEF Names
<1>2. schema = Together(parts)
  BY DEF OrganisationInsertSchema
<1>3. <<"status">> \in DOMAIN t
  BY <1>1, KeysFields
<1>4. /\ \A p \in DOMAIN s : Len(p) = 1 /\ p[1] \in {"id", "orgId", "wasteProcessingTypes", "formSubmissionTime", "submittedToRegulator"}
      /\ \A p \in DOMAIN t : Len(p) = 1 /\ p[1] = "status"
      /\ \A p \in DOMAIN u : Len(p) = 1 /\ p[1] \in {"schemaVersion", "version", "reprocessingNations", "businessType"}
  <2>1. \A names \in SUBSET Names : \A how :
           \A p \in DOMAIN Keys(names, how) : Len(p) = 1 /\ p[1] \in names
    BY KeysFields
  <2>2. \A p \in DOMAIN t : Len(p) = 1 /\ p[1] \in {"status"}
    BY <1>1, <2>1, Zenon DEF t
  <2>3. \A p \in DOMAIN s : Len(p) = 1 /\ p[1] \in {"id", "orgId", "wasteProcessingTypes", "formSubmissionTime", "submittedToRegulator"}
    <3>1. PICK names \in SUBSET Names : names = {"id", "orgId", "wasteProcessingTypes", "formSubmissionTime", "submittedToRegulator"}
      BY <1>1
    <3> QED BY <2>1, <3>1, Zenon DEF s
  <2>4. \A p \in DOMAIN u : Len(p) = 1 /\ p[1] \in {"schemaVersion", "version", "reprocessingNations", "businessType"}
    <3>1. PICK names \in SUBSET Names : names = {"schemaVersion", "version", "reprocessingNations", "businessType"}
      BY <1>1
    <3> QED BY <2>1, <3>1, Zenon DEF u
  <2> QED BY <2>2, <2>3, <2>4
<1>5. /\ \A p \in DOMAIN v : p[1] = "companyDetails"
      /\ \A p \in DOMAIN w : p[1] = "partnership"
      /\ \A p \in DOMAIN x : p[1] = "submitterContactDetails"
      /\ \A p \in DOMAIN y : p[1] = "managementContactDetails"
  BY <1>1, ObjectFields, RegularCompany, RegularPartnership, RegularUser
<1>6. Plain(s) /\ Plain(u) /\ Plain(v) /\ Plain(w) /\ Plain(x) /\ Plain(y)
  <2>1. Plain(s) /\ Plain(u)
    BY PlainKeys
  <2>2. Plain(v) /\ Plain(w) /\ Plain(x) /\ Plain(y)
    BY <1>1, PlainObject, PlainCompany, PlainPartnership, PlainUser,
       RegularCompany, RegularPartnership, RegularUser
  <2> QED BY <2>1, <2>2, Zenon
<1>7. DOMAIN t = {<<"status">>}
  BY DEF Keys
<1>8. /\ \A p \in DOMAIN r : p[1] = "registrations" /\ (Len(p) = 2 => p = <<"registrations", "*">> /\ r[p] = "optional")
      /\ {<<"registrations">>, <<"registrations", "*">>, <<"registrations", "*", "id">>,
          <<"registrations", "*", "status">>} \subseteq DOMAIN r
      /\ r[<<"registrations", "*", "id">>] = "required"
  BY <1>1, ListFields, RegularRegistration, RegistrationFields
<1>9. /\ \A p \in DOMAIN a : p[1] = "accreditations" /\ (Len(p) = 2 => p = <<"accreditations", "*">> /\ a[p] = "optional")
      /\ {<<"accreditations">>, <<"accreditations", "*">>, <<"accreditations", "*", "id">>,
          <<"accreditations", "*", "status">>} \subseteq DOMAIN a
      /\ a[<<"accreditations", "*", "id">>] = "required"
  BY <1>1, ListFields, RegularAccreditation, AccreditationFields
<1> HIDE DEF s, t, u, v, w, x, y, r, a
<1>10. /\ t \in parts /\ r \in parts /\ a \in parts
      /\ \A k \in parts : k \in {s, t, u} \/ k \in {v, w, x, y} \/ k = r \/ k = a
  OBVIOUS
<1> HIDE DEF parts, schema
<1>11. DOMAIN schema = UNION {DOMAIN k : k \in parts}
      /\ \A p \in DOMAIN schema : \E k \in parts : p \in DOMAIN k /\ schema[p] = k[p]
  BY <1>2, PartsTogether
<1>12. ASSUME NEW p \in DOMAIN schema, p[1] \in {"version", "schemaVersion"} PROVE Len(p) = 1
  <2>1. PICK k \in parts : p \in DOMAIN k
    BY <1>11
  <2>2. k \in {s, t, u}
    BY <1>5, <1>8, <1>9, <1>10, <1>12, <2>1
  <2> QED BY <1>4, <2>1, <2>2
<1>13. <<"status">> \in DOMAIN schema /\ DOMAIN r \subseteq DOMAIN schema /\ DOMAIN a \subseteq DOMAIN schema
  BY <1>3, <1>10, <1>11
<1>14. ASSUME NEW p \in DOMAIN schema, p[1] = "registrations" PROVE p \in DOMAIN r /\ schema[p] = r[p]
  <2>1. PICK k \in parts : p \in DOMAIN k /\ schema[p] = k[p]
    BY <1>11
  <2>2. k = r
    BY <1>4, <1>5, <1>9, <1>10, <1>14, <2>1
  <2> QED BY <2>1, <2>2
<1>15. ASSUME NEW p \in DOMAIN schema, p[1] = "accreditations" PROVE p \in DOMAIN a /\ schema[p] = a[p]
  <2>1. PICK k \in parts : p \in DOMAIN k /\ schema[p] = k[p]
    BY <1>11
  <2>2. k = a
    BY <1>4, <1>5, <1>8, <1>10, <1>15, <2>1
  <2> QED BY <2>1, <2>2
<1>16. /\ \A p \in DOMAIN schema :
             p[1] = "registrations" /\ Len(p) = 2 => p = <<"registrations", "*">> /\ schema[p] = "optional"
       /\ schema[<<"registrations", "*", "id">>] = "required"
  BY <1>8, <1>13, <1>14
<1>17. /\ \A p \in DOMAIN schema :
             p[1] = "accreditations" /\ Len(p) = 2 => p = <<"accreditations", "*">> /\ schema[p] = "optional"
       /\ schema[<<"accreditations", "*", "id">>] = "required"
  BY <1>9, <1>13, <1>15
<1>18. ASSUME NEW p \in DOMAIN schema, schema[p] = "forbidden"
       PROVE  p = <<"status">> \/ p[1] \in Lists
  <2>1. PICK k \in parts : p \in DOMAIN k /\ schema[p] = k[p]
    BY <1>11
  <2>2. k \notin {s, u, v, w, x, y}
    BY <1>18, <1>6, <2>1 DEF Plain
  <2>3. k = t \/ k = r \/ k = a
    BY <1>10, <2>2
  <2> QED BY <1>8, <1>9, <1>7, <2>1, <2>3 DEF Lists
<1> QED BY <1>8, <1>9, <1>12, <1>13, <1>16, <1>17, <1>18 DEF Lists, schema
--------------------------------------------------------------------------------
(* Lists and merges *)

LEMMA ListIsSeq ==
    ASSUME NEW s, IsList(s)
    PROVE  /\ s \in Seq({s[k] : k \in 1..Len(s)}) /\ Len(s) \in Nat /\ DOMAIN s = 1..Len(s)
<1>1. PICK n \in Nat : n = Len(s)
  BY DEF IsList
<1>2. PICK S : S = {s[k] : k \in 1..n}
  OBVIOUS
<1>3. s = [k \in 1..n |-> s[k]]
  BY <1>1 DEF IsList
<1>4. s \in [1..n -> S]
  <2>1. [k \in 1..n |-> s[k]] \in [1..n -> S]
    BY <1>2
  <2> QED BY <1>3, <2>1
<1>5. s \in Seq(S)
  BY <1>4
<1>6. DOMAIN s = 1..n
  BY <1>3
<1> QED BY <1>1, <1>2, <1>5, <1>6

LEMMA SeqIsList ==
    ASSUME NEW S, NEW s \in Seq(S)
    PROVE  IsList(s) /\ DOMAIN s = 1..Len(s)
BY DEF IsList

LEMMA TabulatedIsList ==
    ASSUME NEW n \in Nat, NEW f, f = [k \in 1..n |-> f[k]]
    PROVE  IsList(f) /\ Len(f) = n
<1>1. PICK S : S = {f[k] : k \in 1..n}
  OBVIOUS
<1>2. f \in [1..n -> S]
  <2>1. [k \in 1..n |-> f[k]] \in [1..n -> S]
    BY <1>1
  <2> QED BY <2>1
<1>3. f \in Seq(S) /\ Len(f) = n
  BY <1>2
<1> QED BY <1>3, SeqIsList

LEMMA PrefixOfItself == ASSUME NEW s, IsList(s) PROVE IsPrefix(s, s)
<1>1. PICK n \in Nat : n = Len(s)
  BY DEF IsList
<1> QED BY <1>1 DEF IsPrefix

\* A history is kept and may grow by one entry.
LEMMA HistoryGrows ==
    ASSUME NEW update, NEW statuses, SoundHistory(statuses), StatusOf(update) # Bad
    PROVE  LET new == StatusHistoryWithChanges(update, statuses)
           IN  SoundHistory(new) /\ IsPrefix(statuses, new)
<1> DEFINE new == StatusHistoryWithChanges(update, statuses)
<1>1. CASE new = statuses
  BY <1>1, PrefixOfItself DEF SoundHistory
<1>2. CASE new = Append(statuses, StatusOf(update))
  <2>1. PICK e : e = StatusOf(update)
    OBVIOUS
  <2>2. PICK S : S = {statuses[k] : k \in 1..Len(statuses)} \cup {e}
    OBVIOUS
  <2>3. statuses \in Seq(S) /\ Len(statuses) \in Nat
    <3>1. statuses \in Seq({statuses[k] : k \in 1..Len(statuses)}) /\ Len(statuses) \in Nat
      BY ListIsSeq DEF SoundHistory
    <3> QED BY <2>2, <3>1, SeqMonotonic
  <2>4. PICK longer : longer = Append(statuses, e)
    OBVIOUS
  <2>5. /\ longer \in Seq(S) /\ longer # <<>> /\ Len(longer) = Len(statuses) + 1
        /\ longer[Len(statuses) + 1] = e
        /\ \A i \in 1..Len(statuses) : longer[i] = statuses[i]
    <3>1. e \in S
      BY <2>2
    <3>2. /\ Append(statuses, e) \in Seq(S) /\ Append(statuses, e) # <<>>
          /\ Len(Append(statuses, e)) = Len(statuses) + 1 /\ Append(statuses, e)[Len(statuses) + 1] = e
          /\ \A i \in 1..Len(statuses) : Append(statuses, e)[i] = statuses[i]
      BY <2>3, <3>1, Appended
    <3> QED BY <2>4, <3>2, Zenon
  <2>6. Bad \notin Range(longer)
    <3>1. SUFFICES ASSUME NEW i \in 1..Len(longer) PROVE longer[i] # Bad
      BY <2>5, SeqIsList DEF Range
    <3>2. CASE i \in 1..Len(statuses)
      <4>1. DOMAIN statuses = 1..Len(statuses)
        BY ListIsSeq DEF SoundHistory
      <4>2. statuses[i] # Bad
        BY <3>2, <4>1 DEF SoundHistory, Range
      <4> QED BY <3>2, <4>2, <2>5
    <3>3. CASE i = Len(statuses) + 1
      BY <3>3, <2>1, <2>5
    <3> QED BY <2>3, <2>5, <3>2, <3>3
  <2>7. IsPrefix(statuses, longer)
    <3>1. PICK n \in Nat : n = Len(statuses)
      BY <2>3
    <3>2. \A i \in 1..n : statuses[i] \in S /\ longer[i] \in S
      BY <2>3, <2>5, <3>1
    <3>3. /\ SubSeq(statuses, 1, n) \in Seq(S) /\ Len(SubSeq(statuses, 1, n)) = n
          /\ \A i \in 1..n : SubSeq(statuses, 1, n)[i] = statuses[i]
      BY <3>1, <3>2, SubSeqProperties
    <3>4. /\ SubSeq(longer, 1, n) \in Seq(S) /\ Len(SubSeq(longer, 1, n)) = n
          /\ \A i \in 1..n : SubSeq(longer, 1, n)[i] = longer[i]
      BY <3>1, <3>2, SubSeqProperties
    <3>5. \A i \in 1..n : SubSeq(statuses, 1, n)[i] = SubSeq(longer, 1, n)[i]
      BY <2>5, <3>1, <3>3, <3>4
    <3>6. SubSeq(statuses, 1, n) = SubSeq(longer, 1, n)
      BY <3>3, <3>4, <3>5, SeqEqual
    <3>7. n <= Len(longer)
      BY <2>5, <3>1
    <3> QED BY <3>1, <3>6, <3>7, Zenon DEF IsPrefix
  <2>8. SoundHistory(longer)
    BY <2>5, <2>6, SeqIsList DEF SoundHistory
  <2> QED BY <1>2, <2>1, <2>4, <2>7, <2>8
<1> QED BY <1>1, <1>2 DEF StatusHistoryWithChanges

LEMMA NewHistory == SoundHistory(InitialStatusHistory)
<1>1. PICK s : s = <<"created">>
  OBVIOUS
<1>2. s \in Seq({"created"}) /\ Len(s) = 1 /\ s[1] = "created" /\ s # <<>> /\ DOMAIN s = 1..1
  BY <1>1
<1>3. Bad \notin Range(s)
  BY <1>2 DEF Range, Bad
<1> QED BY <1>1, <1>2, <1>3, SeqIsList DEF SoundHistory, InitialStatusHistory

\* A field that is given replaces the whole field, the others stay.
LEMMA SpreadFields ==
    ASSUME NEW existing, NEW update, NEW spread, spread = Spread(existing, update)
    PROVE  /\ \A p : p \in DOMAIN spread <=>
                 p \in DOMAIN update \/ (p \in DOMAIN existing /\ p[1] \notin Named(update))
           /\ \A p \in DOMAIN update : spread[p] = update[p]
           /\ \A p \in DOMAIN existing : p[1] \notin Named(update) => spread[p] = existing[p]
<1> DEFINE kept == Without(existing, Named(update))
           parts == {update, kept}
<1>1. DOMAIN kept = {p \in DOMAIN existing : p[1] \notin Named(update)}
      /\ \A p \in DOMAIN kept : kept[p] = existing[p]
  BY DEF Without
<1>2. \A p \in DOMAIN update : p[1] \in Named(update)
  BY DEF Named
<1>3. spread = Together(parts)
  BY DEF Spread
<1> HIDE DEF kept
<1>4. \A p \in DOMAIN update : p \notin DOMAIN kept
  BY <1>1, <1>2
<1>5. DOMAIN spread = DOMAIN update \cup DOMAIN kept
      /\ \A p \in DOMAIN spread : \E s \in parts : p \in DOMAIN s /\ spread[p] = s[p]
  <2>1. UNION {DOMAIN s : s \in parts} = DOMAIN update \cup DOMAIN kept
    OBVIOUS
  <2> HIDE DEF parts
  <2> QED BY <1>3, <2>1, PartsTogether
<1>6. \A p \in DOMAIN update : spread[p] = update[p]
  BY <1>4, <1>5
<1>7. \A p \in DOMAIN kept : spread[p] = existing[p]
  BY <1>1, <1>4, <1>5
<1> QED BY <1>1, <1>5, <1>6, <1>7

LEMMA OrderedNumbers ==
    ASSUME NEW n \in Nat, NEW S \in SUBSET (1..n), NEW order, order = InOrder(S)
    PROVE  /\ IsList(order) /\ Len(order) <= n
           /\ \A k \in 1..Len(order) : order[k] \in S
           /\ \A j, k \in 1..Len(order) : order[j] = order[k] => j = k
           /\ \A i \in S : \E k \in 1..Len(order) : order[k] = i
<1>1. \A m \in Nat : IsFiniteSet(1..m) /\ Cardinality(1..m) = m
  <2> TAKE m \in Nat
  <2>1. 1 \in Int /\ m \in Int /\ (IF 1 > m THEN 0 ELSE m - 1 + 1) = m
    OBVIOUS
  <2> QED BY <2>1, FS_Interval
<1>2. PICK m : m = Cardinality(S)
  OBVIOUS
<1>3. IsFiniteSet(S) /\ m \in Nat /\ m <= n
  <2>1. IsFiniteSet(S) /\ Cardinality(S) <= Cardinality(1..n)
    BY <1>1, FS_Subset
  <2>2. Cardinality(S) \in Nat
    BY <2>1, FS_CardinalityType
  <2> QED BY <1>1, <1>2, <2>1, <2>2
<1> DEFINE upTo(i) == {j \in S : j <= i}
           rank == [i \in S |-> Cardinality(upTo(i))]
<1>4. \A i \in S : IsFiniteSet(upTo(i)) /\ Cardinality(upTo(i)) \in 1..m
  <2> TAKE i \in S
  <2>1. upTo(i) \in SUBSET S /\ upTo(i) # {}
    OBVIOUS
  <2>2. IsFiniteSet(upTo(i)) /\ Cardinality(upTo(i)) <= m
    BY <1>2, <1>3, <2>1, FS_Subset
  <2>3. Cardinality(upTo(i)) \in Nat /\ Cardinality(upTo(i)) # 0
    BY <2>1, <2>2, FS_CardinalityType, FS_EmptySet
  <2> HIDE DEF upTo
  <2> QED BY <1>3, <2>2, <2>3
<1>5. ASSUME NEW h \in S, NEW i \in S, h < i PROVE Cardinality(upTo(h)) # Cardinality(upTo(i))
  <2>1. \A j \in S : j \in Int
    OBVIOUS
  <2>2. upTo(h) \in SUBSET upTo(i) /\ i \in upTo(i) /\ i \notin upTo(h)
    <3>1. ASSUME NEW j \in upTo(h) PROVE j \in upTo(i)
      BY <1>5, <2>1
    <3>2. i \in upTo(i) /\ i \notin upTo(h)
      BY <1>5, <2>1
    <3> QED BY <3>1, <3>2
  <2>3. upTo(h) # upTo(i)
    BY <2>2
  <2> HIDE DEF upTo
  <2> QED BY <1>4, <2>2, <2>3, FS_Subset
<1> HIDE DEF upTo
<1>6. rank \in Injection(S, 1..m)
  <2>1. rank \in [S -> 1..m]
    BY <1>4
  <2>2. \A h, i \in S : rank[h] = rank[i] => h = i
    <3> TAKE h, i \in S
    <3>1. h < i \/ i < h \/ h = i
      OBVIOUS
    <3> QED BY <1>5, <3>1
  <2>3. DOMAIN rank = S
    OBVIOUS
  <2> QED BY <2>1, <2>2, <2>3 DEF Injection, IsInjective
<1>7. rank \in Surjection(S, 1..m)
  <2> HIDE DEF rank
  <2>1. IsFiniteSet(1..m) /\ Cardinality(S) = Cardinality(1..m)
    BY <1>1, <1>2, <1>3
  <2> QED BY <1>6, <2>1, FS_Injection
<1>8. \A k \in 1..m : \E i \in S : Cardinality(upTo(i)) = k
  <2> HIDE DEF upTo
  <2> QED BY <1>7 DEF Surjection
<1>9. \A h, i \in S : Cardinality(upTo(h)) = Cardinality(upTo(i)) => h = i
  <2> HIDE DEF upTo
  <2> QED BY <1>6 DEF Injection, IsInjective
<1> DEFINE s == InOrder(S)
<1>10. s = [k \in 1..m |-> CHOOSE i \in S : Cardinality(upTo(i)) = k]
  BY <1>2 DEF InOrder, upTo
<1>11. \A k \in 1..m : s[k] \in S /\ Cardinality(upTo(s[k])) = k
  BY <1>8, <1>10
<1>12. IsList(s) /\ Len(s) = m
  <2>1. s = [k \in 1..m |-> s[k]]
    BY <1>10
  <2> HIDE DEF s
  <2> QED BY <1>3, <2>1, TabulatedIsList
<1> HIDE DEF s
<1>13. \A i \in S : \E k \in 1..m : s[k] = i
  <2> TAKE i \in S
  <2>1. PICK k \in 1..m : k = Cardinality(upTo(i))
    BY <1>4
  <2>2. s[k] = i
    BY <1>9, <1>11, <2>1
  <2> QED BY <2>2
<1>14. \A j, k \in 1..m : s[j] = s[k] => j = k
  BY <1>11
<1>15. s = order
  BY DEF s
<1> QED BY <1>3, <1>11, <1>12, <1>13, <1>14, <1>15

LEMMA GreatestChosen ==
    ASSUME NEW n \in Nat, NEW S \in SUBSET (1..n), S # {}
    PROVE  Max(S) \in S
<1>1. PICK i \in S : \A j \in S : i >= j
  BY GreatestOf
<1> QED BY <1>1 DEF Max

\* The elements of a list, as At reads them.
LEMMA ItemsAreElements ==
    ASSUME NEW content, NEW list
    PROVE  LET items == ItemsOf(content, list)
           IN  /\ IsList(items) /\ Len(items) <= Len(Elements)
               /\ \A k \in 1..Len(items) : \E i \in DOMAIN Elements :
                    /\ <<list, Elements[i]>> \in DOMAIN content
                    /\ items[k] = At(content, <<list, Elements[i]>>)
<1>1. PICK n \in Nat : n = Len(Elements) /\ DOMAIN Elements = 1..n
  BY ElementsAssumption
<1>2. PICK S \in SUBSET (1..n) : S = {i \in DOMAIN Elements : <<list, Elements[i]>> \in DOMAIN content}
  BY <1>1
<1>3. PICK given : given = InOrder(S)
  OBVIOUS
<1>4. IsList(given) /\ Len(given) <= n /\ \A k \in 1..Len(given) : given[k] \in S
  BY <1>3, OrderedNumbers
<1>5. Len(given) \in Nat /\ DOMAIN given = 1..Len(given)
  BY <1>4, ListIsSeq
<1>6. PICK items : items = ItemsOf(content, list)
  OBVIOUS
<1>7. items = [k \in 1..Len(given) |-> At(content, <<list, Elements[given[k]]>>)]
  BY <1>2, <1>3, <1>5, <1>6 DEF ItemsOf
<1>8. IsList(items) /\ Len(items) = Len(given)
  <2>1. items = [k \in 1..Len(given) |-> items[k]]
    BY <1>7
  <2> QED BY <1>5, <2>1, TabulatedIsList
<1>9. ASSUME NEW k \in 1..Len(items)
      PROVE  \E i \in DOMAIN Elements :
                /\ <<list, Elements[i]>> \in DOMAIN content
                /\ items[k] = At(content, <<list, Elements[i]>>)
  <2>1. given[k] \in S /\ items[k] = At(content, <<list, Elements[given[k]]>>)
    BY <1>4, <1>7, <1>8
  <2> QED BY <1>2, <2>1
<1> QED BY <1>1, <1>4, <1>6, <1>8, <1>9

\* An update changes the first item with its id, and is added where there is none.
Merges(items, updates, merge) ==
    /\ IsList(merge) /\ Len(items) <= Len(merge)
    /\ \A k \in 1..Len(items) :
         \/ /\ \A j \in 1..Len(updates) : IdOf(updates[j]) # IdOf(items[k].content)
            /\ merge[k] = items[k]
         \/ \E j \in 1..Len(updates) :
              /\ IdOf(updates[j]) = IdOf(items[k].content)
              /\ merge[k] = [content |-> Spread(items[k].content, updates[j]),
                             statuses |-> StatusHistoryWithChanges(updates[j], items[k].statuses)]
    /\ \A k \in (Len(items) + 1)..Len(merge) :
         /\ \E j \in 1..Len(updates) :
              merge[k] = [content |-> updates[j], statuses |-> InitialStatusHistory]
         /\ \A i \in 1..Len(items) : IdOf(items[i].content) # IdOf(merge[k].content)
         /\ \A i \in (Len(items) + 1)..Len(merge) : IdOf(merge[i].content) = IdOf(merge[k].content) => i = k

LEMMA MergedItems ==
    ASSUME NEW existing, IsList(existing), NEW updates, IsList(updates),
           NEW merge, merge = MergeItems(existing, updates)
    PROVE  Merges(existing, updates, merge)
<1> DEFINE ids == {IdOf(existing[k].content) : k \in DOMAIN existing}
           last(id) == updates[Max({k \in DOMAIN updates : IdOf(updates[k]) = id})]
           isNew(k) == IdOf(updates[k]) \notin ids /\ \A j \in 1..(k - 1) : IdOf(updates[j]) # IdOf(updates[k])
           new == InOrder({k \in DOMAIN updates : isNew(k)})
           none(id) == \A j \in DOMAIN updates : IdOf(updates[j]) # id
           changed == [k \in DOMAIN existing |->
                         IF none(IdOf(existing[k].content)) THEN existing[k]
                         ELSE [content |-> Spread(existing[k].content, last(IdOf(existing[k].content))),
                               statuses |-> StatusHistoryWithChanges(last(IdOf(existing[k].content)), existing[k].statuses)]]
           added == [k \in DOMAIN new |->
                       [content |-> last(IdOf(updates[new[k]])), statuses |-> InitialStatusHistory]]
           merged == MergeItems(existing, updates)
<1>1. PICK n \in Nat : n = Len(existing) /\ DOMAIN existing = 1..n
  BY ListIsSeq
<1>2. PICK u \in Nat : u = Len(updates) /\ DOMAIN updates = 1..u
  BY ListIsSeq
<1>3. merged = changed \o added
  BY DEF MergeItems
<1>4. ASSUME NEW id, ~none(id)
      PROVE  \E j \in 1..u : IdOf(updates[j]) = id /\ last(id) = updates[j]
  <2>1. PICK S : S = {k \in 1..u : IdOf(updates[k]) = id}
    OBVIOUS
  <2>2. S \in SUBSET (1..u) /\ S # {}
    BY <1>2, <1>4, <2>1
  <2>3. Max(S) \in S
    BY <2>2, GreatestChosen
  <2>4. last(id) = updates[Max(S)]
    BY <1>2, <2>1
  <2> QED BY <2>1, <2>3, <2>4
<1> HIDE DEF last, none
<1>5. PICK T \in SUBSET (1..u) : T = {k \in 1..u : isNew(k)}
  OBVIOUS
<1>6. /\ IsList(new) /\ Len(new) \in Nat /\ DOMAIN new = 1..Len(new)
      /\ \A k \in 1..Len(new) : new[k] \in T
      /\ \A j, k \in 1..Len(new) : new[j] = new[k] => j = k
  <2>1. new = InOrder(T)
    BY <1>2, <1>5
  <2> HIDE DEF new
  <2>2. PICK order : order = InOrder(T)
    OBVIOUS
  <2>3. /\ IsList(order) /\ Len(order) <= u
        /\ \A k \in 1..Len(order) : order[k] \in T
        /\ \A j, k \in 1..Len(order) : order[j] = order[k] => j = k
        /\ \A i \in T : \E k \in 1..Len(order) : order[k] = i
    BY <2>2, OrderedNumbers
  <2>4. order = new
    BY <2>1, <2>2
  <2>5. /\ IsList(new)
        /\ \A k \in 1..Len(new) : new[k] \in T
        /\ \A j, k \in 1..Len(new) : new[j] = new[k] => j = k
    BY <2>3, <2>4, Zenon
  <2> QED BY <2>5, ListIsSeq
<1> HIDE DEF new
<1>7. PICK m \in Nat : m = Len(new)
  BY <1>6
<1>8. \A k \in T : IdOf(updates[k]) \notin ids
  BY <1>5
<1>9. ASSUME NEW j \in T, NEW k \in T, IdOf(updates[j]) = IdOf(updates[k]) PROVE j = k
  <2>1. j < k \/ k < j \/ j = k
    OBVIOUS
  <2>2. CASE j < k
    <3>1. j \in 1..(k - 1)
      BY <2>2
    <3> QED BY <1>5, <1>9, <3>1
  <2>3. CASE k < j
    <3>1. k \in 1..(j - 1)
      BY <2>3
    <3> QED BY <1>5, <1>9, <3>1
  <2> QED BY <2>1, <2>2, <2>3
<1> HIDE DEF isNew
<1>10. \A k \in T : ~none(IdOf(updates[k]))
  BY <1>2 DEF none
<1>11. PICK E : E = {changed[k] : k \in 1..n} \cup {added[k] : k \in 1..m}
  OBVIOUS
<1>12. changed \in Seq(E) /\ Len(changed) = n
  <2>1. changed = [k \in 1..n |-> changed[k]]
    BY <1>1
  <2> HIDE DEF changed
  <2>2. changed \in [1..n -> E]
    <3>1. [k \in 1..n |-> changed[k]] \in [1..n -> E]
      BY <1>11
    <3> QED BY <2>1, <3>1
  <2> QED BY <2>2
<1>13. added \in Seq(E) /\ Len(added) = m
  <2>1. added = [k \in 1..m |-> added[k]]
    BY <1>6, <1>7
  <2> HIDE DEF added
  <2>2. added \in [1..m -> E]
    <3>1. [k \in 1..m |-> added[k]] \in [1..m -> E]
      BY <1>11
    <3> QED BY <2>1, <3>1
  <2> QED BY <2>2
<1>14. \A k \in 1..n : changed[k] =
          IF none(IdOf(existing[k].content)) THEN existing[k]
          ELSE [content |-> Spread(existing[k].content, last(IdOf(existing[k].content))),
                statuses |-> StatusHistoryWithChanges(last(IdOf(existing[k].content)), existing[k].statuses)]
  BY <1>1
<1>15. \A k \in 1..m : added[k] = [content |-> last(IdOf(updates[new[k]])), statuses |-> InitialStatusHistory]
  BY <1>6, <1>7
<1> HIDE DEF changed, added, merged
<1>16. /\ merged \in Seq(E) /\ Len(merged) = n + m
       /\ \A k \in 1..n : merged[k] = changed[k]
       /\ \A k \in 1..m : merged[n + k] = added[k]
  <2>1. /\ changed \o added \in Seq(E) /\ Len(changed \o added) = Len(changed) + Len(added)
        /\ \A k \in 1..Len(changed) : (changed \o added)[k] = changed[k]
        /\ \A k \in 1..Len(added) : (changed \o added)[Len(changed) + k] = added[k]
    <3>1. PICK S : S = E
      OBVIOUS
    <3>2. PICK x \in Seq(S) : x = changed
      BY <1>12, <3>1
    <3>3. PICK y \in Seq(S) : y = added
      BY <1>13, <3>1
    <3>4. /\ x \o y \in Seq(S) /\ Len(x \o y) = Len(x) + Len(y)
          /\ \A k \in 1..Len(x) : (x \o y)[k] = x[k]
          /\ \A k \in 1..Len(y) : (x \o y)[Len(x) + k] = y[k]
      BY Prefixed
    <3> QED BY <3>1, <3>2, <3>3, <3>4, Zenon
  <2> QED BY <1>3, <1>12, <1>13, <2>1
<1>17. ASSUME NEW k \in 1..n
       PROVE  \/ none(IdOf(existing[k].content)) /\ merged[k] = existing[k]
              \/ \E j \in 1..u :
                   /\ IdOf(updates[j]) = IdOf(existing[k].content)
                   /\ merged[k] = [content |-> Spread(existing[k].content, updates[j]),
                                   statuses |-> StatusHistoryWithChanges(updates[j], existing[k].statuses)]
  <2>1. CASE none(IdOf(existing[k].content))
    BY <1>14, <1>16, <2>1
  <2>2. CASE ~none(IdOf(existing[k].content))
    <3>1. PICK j \in 1..u : IdOf(updates[j]) = IdOf(existing[k].content)
                            /\ last(IdOf(existing[k].content)) = updates[j]
      BY <1>4, <2>2
    <3> QED BY <1>14, <1>16, <2>2, <3>1
  <2> QED BY <2>1, <2>2
<1>18. ASSUME NEW k \in (n + 1)..(n + m)
       PROVE  \E t \in 1..m : \E j \in 1..u :
                 /\ k = n + t /\ IdOf(updates[j]) = IdOf(updates[new[t]])
                 /\ merged[k] = [content |-> updates[j], statuses |-> InitialStatusHistory]
                 /\ IdOf(merged[k].content) = IdOf(updates[new[t]])
  <2>1. PICK t \in 1..m : k = n + t
    <3>1. k - n \in 1..m /\ k = n + (k - n)
      OBVIOUS
    <3> QED BY <3>1
  <2>2. new[t] \in T
    BY <1>6, <1>7
  <2>3. PICK j \in 1..u : IdOf(updates[j]) = IdOf(updates[new[t]]) /\ last(IdOf(updates[new[t]])) = updates[j]
    BY <1>4, <1>10, <2>2
  <2>4. merged[k] = [content |-> updates[j], statuses |-> InitialStatusHistory]
    BY <1>15, <1>16, <2>1, <2>3
  <2> QED BY <2>1, <2>3, <2>4
<1>19. ASSUME NEW k \in (n + 1)..(n + m)
       PROVE  /\ \E j \in 1..u : merged[k] = [content |-> updates[j], statuses |-> InitialStatusHistory]
              /\ \A i \in 1..n : IdOf(existing[i].content) # IdOf(merged[k].content)
              /\ \A i \in (n + 1)..(n + m) : IdOf(merged[i].content) = IdOf(merged[k].content) => i = k
  <2>1. PICK t \in 1..m : \E j \in 1..u :
                 /\ k = n + t
                 /\ merged[k] = [content |-> updates[j], statuses |-> InitialStatusHistory]
                 /\ IdOf(merged[k].content) = IdOf(updates[new[t]])
    BY <1>18
  <2>2. new[t] \in T
    BY <1>6, <1>7
  <2>3. ASSUME NEW i \in 1..n PROVE IdOf(existing[i].content) # IdOf(merged[k].content)
    BY <1>1, <1>8, <2>1, <2>2
  <2>4. ASSUME NEW i \in (n + 1)..(n + m), IdOf(merged[i].content) = IdOf(merged[k].content) PROVE i = k
    <3>1. PICK s \in 1..m : i = n + s /\ IdOf(merged[i].content) = IdOf(updates[new[s]])
      BY <1>18
    <3>2. new[s] \in T
      BY <1>6, <1>7
    <3>3. new[s] = new[t]
      BY <1>9, <2>1, <2>2, <2>4, <3>1, <3>2
    <3> QED BY <1>6, <1>7, <2>1, <3>1, <3>3
  <2> QED BY <2>1, <2>3, <2>4
<1>20. IsList(merged) /\ n <= n + m
  BY <1>16, SeqIsList
<1>21. merge = merged
  BY DEF merged
<1>22. Len(existing) = n /\ Len(updates) = u /\ DOMAIN updates = 1..u /\ Len(merged) = n + m
  BY <1>1, <1>2, <1>16
<1>23. \A k \in 1..n :
          \/ /\ \A j \in 1..u : IdOf(updates[j]) # IdOf(existing[k].content)
             /\ merged[k] = existing[k]
          \/ \E j \in 1..u :
               /\ IdOf(updates[j]) = IdOf(existing[k].content)
               /\ merged[k] = [content |-> Spread(existing[k].content, updates[j]),
                               statuses |-> StatusHistoryWithChanges(updates[j], existing[k].statuses)]
  BY <1>17, <1>22, Zenon DEF none
<1>24. Merges(existing, updates, merged)
  BY <1>19, <1>20, <1>22, <1>23, SMT DEF Merges
<1> QED BY <1>21, <1>24
--------------------------------------------------------------------------------
(* What is demanded *)

HasPaths(content) == DOMAIN content \subseteq Seq(Names) \ {<<>>}

LEMMA FieldNames ==
    LET schema == OrganisationInsertSchema
    IN  /\ \A d \in DOMAIN schema :
             /\ d \in Seq(Names) /\ d # <<>> /\ \A i \in 1..Len(d) : d[i] \notin Range(Elements)
             /\ Front(d) \in Seq(Names) /\ Last(d) \in Names \ Range(Elements) /\ d = Append(Front(d), Last(d))
        /\ \A d \in InsertDemands : d \in DOMAIN schema /\ Last(d) \notin StatusNames
        /\ \A g \in InsertUsers :
             /\ g \in Seq(Names) /\ Append(g, "role") \in DOMAIN schema /\ Append(g, "title") \in DOMAIN schema
             /\ {"role", "title"} \subseteq Names \ Range(Elements)
<1> DEFINE schema == OrganisationInsertSchema
<1>1. Regular(schema)
  BY RegularInsert
<1> HIDE DEF schema
<1>2. ASSUME NEW d \in DOMAIN schema
      PROVE  /\ d \in Seq(Names) /\ d # <<>> /\ \A i \in 1..Len(d) : d[i] \notin Range(Elements)
             /\ Front(d) \in Seq(Names) /\ Last(d) \in Names \ Range(Elements) /\ d = Append(Front(d), Last(d))
  <2>1. d \in Seq(Names) /\ d # <<>>
    BY <1>1 DEF Regular
  <2>2. Len(d) \in Nat \ {0} /\ Front(d) \in Seq(Names) /\ Last(d) \in Names /\ d = Append(Front(d), Last(d))
    BY <2>1, TakenApart
  <2>3. \A i \in 1..Len(d) : d[i] \notin Range(Elements)
    <3>1. Range(d) \cap Range(Elements) = {}
      BY ElementsAssumption DEF schema
    <3>2. \A i \in 1..Len(d) : d[i] \in Range(d)
      BY <2>1 DEF Range
    <3> QED BY <3>1, <3>2
  <2>4. Last(d) \notin Range(Elements)
    BY <2>2, <2>3 DEF Last
  <2> QED BY <2>1, <2>2, <2>3, <2>4
<1>3. ASSUME NEW d \in InsertDemands PROVE d \in DOMAIN schema /\ Last(d) \notin StatusNames
  <2>1. d \in DOMAIN schema /\ schema[d] = "required"
    BY DEF InsertDemands, Demands, schema
  <2>2. Last(d) # "status"
    BY <1>1, <2>1 DEF Regular
  <2>3. Last(d) # "statusHistory"
    <3>1. d \in Seq(Names) /\ d # <<>> /\ \A i \in 1..Len(d) : d[i] # "statusHistory"
      BY <1>1, <2>1 DEF Regular
    <3>2. Len(d) \in Nat \ {0}
      BY <3>1, TakenApart
    <3> QED BY <3>1, <3>2 DEF Last
  <2> QED BY <2>1, <2>2, <2>3 DEF StatusNames
<1>4. ASSUME NEW g \in InsertUsers
      PROVE  /\ g \in Seq(Names) /\ Append(g, "role") \in DOMAIN schema /\ Append(g, "title") \in DOMAIN schema
             /\ {"role", "title"} \subseteq Names \ Range(Elements)
  <2>1. PICK q \in DOMAIN schema : Last(q) = "role" /\ g = Front(q)
    BY DEF InsertUsers, Users, schema
  <2>2. Append(g, "title") \in DOMAIN schema
    BY <1>1, <2>1 DEF Regular
  <2>3. g \in Seq(Names) /\ Append(g, "role") = q /\ "role" \in Names \ Range(Elements)
    BY <1>2, <2>1
  <2>4. "title" \in Names
    BY DEF Names
  <2>5. Last(Append(g, "title")) = "title"
    BY <2>3, <2>4, Appended
  <2>6. "title" \notin Range(Elements)
    BY <1>2, <2>2, <2>5
  <2> QED BY <2>1, <2>2, <2>3, <2>4, <2>6
<1> QED BY <1>2, <1>3, <1>4 DEF schema

\* An object is as complete as another one at the same place that has all its fields
\* but statuses.
LEMMA CompleteMoved ==
    ASSUME NEW place1, NEW content1, NEW p1, NEW place2, NEW content2, NEW p2,
           place1 \o Generic(p1) = place2 \o Generic(p2), Complete(place1, content1, p1),
           \A n \in Names \ Range(Elements) :
               n \notin StatusNames /\ Append(place2 \o Generic(p2), n) \in DOMAIN OrganisationInsertSchema
                  /\ Append(p1, n) \in DOMAIN content1 => Append(p2, n) \in DOMAIN content2
    PROVE  Complete(place2, content2, p2)
<1> PICK g : g = place2 \o Generic(p2)
  OBVIOUS
<1>1. ASSUME NEW d \in InsertDemands, Front(d) = g PROVE Append(p2, Last(d)) \in DOMAIN content2
  <2>1. Append(p1, Last(d)) \in DOMAIN content1
    BY <1>1 DEF Complete
  <2>2. /\ Last(d) \in Names \ Range(Elements) /\ Last(d) \notin StatusNames
        /\ d = Append(g, Last(d)) /\ d \in DOMAIN OrganisationInsertSchema
    BY <1>1, FieldNames
  <2> QED BY <2>1, <2>2
<1>2. ASSUME g \in InsertUsers
      PROVE  {Append(p2, "role"), Append(p2, "title")} \cap DOMAIN content2 # {}
  <2>1. PICK n \in {"role", "title"} : Append(p1, n) \in DOMAIN content1
    BY <1>2 DEF Complete
  <2>2. Append(g, n) \in DOMAIN OrganisationInsertSchema /\ n \in Names \ Range(Elements)
    BY <1>2, FieldNames
  <2>3. n \notin StatusNames
    BY DEF StatusNames
  <2>4. Append(p2, n) \in DOMAIN content2
    BY <2>1, <2>2, <2>3
  <2> QED BY <2>4
<1> QED BY <1>1, <1>2 DEF Complete

\* An update for the object at this place: what it has is complete, the object itself
\* need not be.
SoundUpdate(place, update) ==
    /\ HasPaths(update) /\ FieldsKnown(place, update)
    /\ \A p \in DOMAIN update : Complete(place, update, p)
    /\ \A p \in DOMAIN update :
          Append(place, p[1]) \in DOMAIN OrganisationInsertSchema => <<p[1]>> \in DOMAIN update

LEMMA SpreadIsWhole ==
    ASSUME NEW place \in Seq(Names),
           NEW existing, HasPaths(existing), Whole(place, existing),
           NEW update, SoundUpdate(place, update),
           NEW spread, spread = Spread(existing, update)
    PROVE  /\ HasPaths(spread) /\ Whole(place, spread)
           /\ Named(spread) \subseteq Named(existing) \cup Named(update)
<1>1. /\ \A p : p \in DOMAIN spread <=>
           p \in DOMAIN update \/ (p \in DOMAIN existing /\ p[1] \notin Named(update))
      /\ \A p \in DOMAIN update : spread[p] = update[p]
      /\ \A p \in DOMAIN existing : p[1] \notin Named(update) => spread[p] = existing[p]
  BY SpreadFields
<1>2. HasPaths(spread)
  BY <1>1 DEF HasPaths, SoundUpdate
<1>3. FieldsKnown(place, spread)
  <2>1. FieldsKnown(place, update) /\ FieldsKnown(place, existing)
    BY DEF SoundUpdate, Whole
  <2> QED BY <1>1, <2>1 DEF FieldsKnown
<1>4. ASSUME NEW p \in DOMAIN update PROVE Complete(place, spread, p)
  <2>1. Complete(place, update, p)
    BY DEF SoundUpdate
  <2> QED BY <1>1, <2>1, CompleteMoved
<1>5. ASSUME NEW p \in DOMAIN existing, p[1] \notin Named(update) PROVE Complete(place, spread, p)
  <2>1. Complete(place, existing, p)
    BY DEF Whole
  <2>2. ASSUME NEW n \in Names, Append(p, n) \in DOMAIN existing PROVE Append(p, n) \in DOMAIN spread
    <3>1. p \in Seq(Names) /\ p # <<>>
      BY DEF HasPaths
    <3>2. Len(p) \in Nat \ {0} /\ \A i \in 1..Len(p) : Append(p, n)[i] = p[i]
      BY <3>1, Appended, TakenApart
    <3>3. Append(p, n)[1] = p[1]
      BY <3>2
    <3> QED BY <1>1, <1>5, <2>2, <3>3
  <2> QED BY <2>1, <2>2, CompleteMoved
<1>6. Complete(place, spread, <<>>)
  <2>1. Complete(place, existing, <<>>)
    BY DEF Whole
  <2>2. place \o Generic(<<>>) = place
    BY GenericOfNone, ConcatEmptySeq
  <2>3. ASSUME NEW n \in Names, Append(place, n) \in DOMAIN OrganisationInsertSchema,
               Append(<<>>, n) \in DOMAIN existing
        PROVE  Append(<<>>, n) \in DOMAIN spread
    <3>1. Append(<<>>, n) = <<n>> /\ <<n>>[1] = n
      BY OneName
    <3>2. CASE n \in Named(update)
      <4>1. PICK p \in DOMAIN update : p[1] = n
        BY <3>2 DEF Named
      <4>2. <<n>> \in DOMAIN update
        BY <2>3, <4>1 DEF SoundUpdate
      <4> QED BY <1>1, <3>1, <4>2
    <3>3. CASE n \notin Named(update)
      BY <1>1, <2>3, <3>1, <3>3
    <3> QED BY <3>2, <3>3
  <2> QED BY <2>1, <2>2, <2>3, CompleteMoved
<1>7. Whole(place, spread)
  BY <1>1, <1>3, <1>4, <1>5, <1>6 DEF Whole
<1>8. Named(spread) \subseteq Named(existing) \cup Named(update)
  BY <1>1 DEF Named
<1> QED BY <1>2, <1>7, <1>8
--------------------------------------------------------------------------------
(* What StripUnknown leaves of what is accepted *)

LEMMA UpdateFields ==
    LET insert == OrganisationInsertSchema
        update == OrganisationUpdateSchema
    IN  /\ DOMAIN update = DOMAIN insert /\ UpdateUsers = InsertUsers
        /\ \A d \in InsertDemands : Len(d) # 1 => d \in UpdateDemands
        /\ \A d \in UpdateDemands : d \in InsertDemands /\ Len(d) # 1
        /\ \A p \in DOMAIN insert :
             /\ Len(p) > 1 /\ insert[p] = "forbidden" /\ update[p] # "forbidden" => Len(p) = 3 /\ p[3] = "status"
             /\ Len(p) = 1 /\ update[p] = "forbidden" => p[1] \in NonUpdatableFields
             /\ Len(p) > 1 /\ update[p] = "forbidden" => insert[p] = "forbidden" /\ (Len(p) = 3 => p[3] # "status")
<1> DEFINE insert == OrganisationInsertSchema
           update == OrganisationUpdateSchema
<1>1. update = [p \in DOMAIN insert |->
        IF Len(p) > 1 THEN (IF Len(p) = 3 /\ p[3] = "status" THEN "optional" ELSE insert[p])
        ELSE IF p[1] \in NonUpdatableFields THEN "forbidden" ELSE "optional"]
  BY DEF OrganisationUpdateSchema, Fork
<1>2. Regular(insert)
  BY RegularInsert
<1> HIDE DEF insert, update
<1>3. \A p \in DOMAIN insert : Len(p) \in Nat \ {0} /\ Last(p) = p[Len(p)] /\ (insert[p] = "forbidden" <=> Last(p) = "status")
  <2> TAKE p \in DOMAIN insert
  <2>1. p \in Seq(Names) /\ p # <<>> /\ (insert[p] = "forbidden" <=> Last(p) = "status")
    BY <1>2 DEF Regular
  <2> QED BY <2>1, TakenApart DEF Last
<1>4. DOMAIN update = DOMAIN insert
  BY <1>1
<1>5. UpdateUsers = InsertUsers
  BY <1>4 DEF UpdateUsers, InsertUsers, Users, insert, update
<1>6. /\ InsertDemands = {p \in DOMAIN insert : insert[p] = "required"}
      /\ UpdateDemands = {p \in DOMAIN insert : update[p] = "required"}
  BY <1>4 DEF InsertDemands, UpdateDemands, Demands, insert, update
<1>7. ASSUME NEW p \in DOMAIN insert
      PROVE  /\ insert[p] = "required" /\ Len(p) # 1 => update[p] = "required"
             /\ update[p] = "required" => insert[p] = "required" /\ Len(p) # 1
             /\ Len(p) > 1 /\ insert[p] = "forbidden" /\ update[p] # "forbidden" => Len(p) = 3 /\ p[3] = "status"
             /\ Len(p) = 1 /\ update[p] = "forbidden" => p[1] \in NonUpdatableFields
             /\ Len(p) > 1 /\ update[p] = "forbidden" => insert[p] = "forbidden" /\ (Len(p) = 3 => p[3] # "status")
  <2>1. PICK n \in Nat \ {0} : n = Len(p)
    BY <1>3
  <2>2. update[p] = IF n > 1 THEN (IF n = 3 /\ p[3] = "status" THEN "optional" ELSE insert[p])
                    ELSE IF p[1] \in NonUpdatableFields THEN "forbidden" ELSE "optional"
    BY <1>1, <2>1
  <2>3. insert[p] = "forbidden" <=> p[n] = "status"
    BY <1>3, <2>1
  <2>4. n = 3 /\ p[3] = "status" => insert[p] # "required"
    BY <2>3
  <2> DEFINE goal(m) ==
         /\ insert[p] = "required" /\ m # 1 => update[p] = "required"
         /\ update[p] = "required" => insert[p] = "required" /\ m # 1
         /\ m > 1 /\ insert[p] = "forbidden" /\ update[p] # "forbidden" => m = 3 /\ p[3] = "status"
         /\ m = 1 /\ update[p] = "forbidden" => p[1] \in NonUpdatableFields
         /\ m > 1 /\ update[p] = "forbidden" => insert[p] = "forbidden" /\ (m = 3 => p[3] # "status")
  <2>5. CASE n > 1
    <3>1. update[p] = IF n = 3 /\ p[3] = "status" THEN "optional" ELSE insert[p]
      BY <2>2, <2>5
    <3>2. goal(n)
      BY <2>4, <2>5, <3>1
    <3> QED BY <2>1, <3>2, Zenon
  <2>6. CASE n = 1
    <3>1. update[p] = IF p[1] \in NonUpdatableFields THEN "forbidden" ELSE "optional"
      BY <2>2, <2>6
    <3>2. goal(n)
      BY <2>6, <3>1
    <3> QED BY <2>1, <3>2, Zenon
  <2>7. n > 1 \/ n = 1
    OBVIOUS
  <2> QED BY <2>5, <2>6, <2>7
<1> QED BY <1>4, <1>5, <1>6, <1>7 DEF insert, update

LEMMA StrippedFields ==
    ASSUME NEW schema, NEW content, NEW u, u = StripUnknown(schema, content)
    PROVE  /\ \A p : p \in DOMAIN u <=> p \in DOMAIN content /\ Generic(p) \in DOMAIN schema
           /\ \A p \in DOMAIN u : u[p] = content[p]
BY DEF StripUnknown

LEMMA OfRoot == ASSUME NEW p \in Seq(Names) PROVE <<>> \o Generic(p) = Generic(p)
BY GenericPath, ConcatEmptySeq

LEMMA UpdateIsSound ==
    ASSUME NEW content, HasPaths(content), IsUpdate(content),
           NEW u, u = StripUnknown(OrganisationUpdateSchema, content)
    PROVE  /\ HasPaths(u)
           /\ \A p \in DOMAIN u :
                /\ Generic(p) \in DOMAIN OrganisationInsertSchema /\ u[p] # Bad
                /\ OrganisationUpdateSchema[Generic(p)] # "forbidden"
                /\ Complete(<<>>, u, p)
<1>1. DOMAIN OrganisationUpdateSchema = DOMAIN OrganisationInsertSchema /\ UpdateUsers = InsertUsers
      /\ \A d \in InsertDemands : Len(d) # 1 => d \in UpdateDemands
  BY UpdateFields
<1>2. /\ \A p : p \in DOMAIN u <=> p \in DOMAIN content /\ Generic(p) \in DOMAIN OrganisationInsertSchema
      /\ \A p \in DOMAIN u : u[p] = content[p]
  BY <1>1, StrippedFields
<1>3. ASSUME NEW p \in DOMAIN u
      PROVE  u[p] # Bad /\ OrganisationUpdateSchema[Generic(p)] # "forbidden"
  BY <1>1, <1>2 DEF IsUpdate, Accepts
<1>4. ASSUME NEW p \in DOMAIN u PROVE Complete(<<>>, u, p)
  <2>1. p \in Seq(Names) /\ p # <<>> /\ p \in DOMAIN content
    BY <1>2 DEF HasPaths
  <2>2. PICK g : g = Generic(p)
    OBVIOUS
  <2>3. g \in Seq(Names) /\ Len(g) \in Nat \ {0} /\ <<>> \o Generic(p) = g
    <3>1. Generic(p) \in Seq(Names) /\ Len(Generic(p)) = Len(p) /\ Len(p) \in Nat \ {0}
      BY <2>1, GenericPath, TakenApart
    <3> QED BY <2>1, <2>2, <3>1, OfRoot
  <2>4. ASSUME NEW n \in Names \ Range(Elements), Append(g, n) \in DOMAIN OrganisationInsertSchema,
               Append(p, n) \in DOMAIN content
        PROVE  Append(p, n) \in DOMAIN u
    <3>1. Generic(Append(p, n)) = Append(g, n)
      BY <2>1, <2>2, GenericAppended
    <3> QED BY <1>2, <2>4, <3>1
  <2>5. ASSUME NEW d \in InsertDemands, Front(d) = g PROVE Append(p, Last(d)) \in DOMAIN u
    <3>1. /\ d \in DOMAIN OrganisationInsertSchema /\ d \in Seq(Names) /\ d # <<>>
          /\ Last(d) \in Names \ Range(Elements) /\ d = Append(g, Last(d))
      BY <2>5, FieldNames
    <3>2. Len(d) # 1
      <4>1. Len(Front(d)) = Len(d) - 1 /\ Len(d) \in Nat
        BY <3>1, TakenApart
      <4>2. PICK m : m = Len(g)
        OBVIOUS
      <4> QED BY <2>3, <2>5, <4>1, <4>2
    <3>3. Append(p, Last(d)) \in DOMAIN content
      BY <1>1, <2>1, <2>2, <2>5, <3>2 DEF IsUpdate, Accepts
    <3> QED BY <2>4, <3>1, <3>3
  <2>6. ASSUME g \in InsertUsers PROVE {Append(p, "role"), Append(p, "title")} \cap DOMAIN u # {}
    <3>1. {Append(p, "role"), Append(p, "title")} \cap DOMAIN content # {}
      BY <1>1, <2>1, <2>2, <2>6 DEF IsUpdate, Accepts
    <3>2. \A n \in {"role", "title"} : Append(g, n) \in DOMAIN OrganisationInsertSchema /\ n \in Names \ Range(Elements)
      BY <2>6, FieldNames
    <3>3. \A n \in {"role", "title"} : Append(p, n) \in DOMAIN content => Append(p, n) \in DOMAIN u
      BY <2>4, <3>2
    <3> QED BY <3>1, <3>3
  <2> QED BY <2>3, <2>5, <2>6 DEF Complete
<1>5. HasPaths(u)
  BY <1>2 DEF HasPaths
<1> QED BY <1>2, <1>3, <1>4, <1>5

LEMMA InsertIsWhole ==
    ASSUME NEW content, HasPaths(content), IsInsert(content),
           NEW v, v = StripUnknown(OrganisationInsertSchema, content)
    PROVE  HasPaths(v) /\ Whole(<<>>, v)
<1>1. /\ \A p : p \in DOMAIN v <=> p \in DOMAIN content /\ Generic(p) \in DOMAIN OrganisationInsertSchema
      /\ \A p \in DOMAIN v : v[p] = content[p]
  BY StrippedFields
<1>2. HasPaths(v)
  BY <1>1 DEF HasPaths
<1>3. FieldsKnown(<<>>, v)
  <2>1. ASSUME NEW p \in DOMAIN v
        PROVE  /\ p # <<>> /\ <<>> \o Generic(p) = Generic(p) /\ Generic(p) \in DOMAIN OrganisationInsertSchema
               /\ v[p] # Bad /\ OrganisationInsertSchema[Generic(p)] # "forbidden"
    <3>1. p \in Seq(Names) /\ p # <<>>
      BY <1>2 DEF HasPaths
    <3>2. <<>> \o Generic(p) = Generic(p)
      BY <3>1, OfRoot
    <3>3. content[p] # Bad /\ OrganisationInsertSchema[Generic(p)] # "forbidden"
      BY <1>1 DEF IsInsert, Accepts
    <3> QED BY <1>1, <3>1, <3>2, <3>3
  <2> QED BY <2>1 DEF FieldsKnown
<1>4. ASSUME NEW p \in DOMAIN v \cup {<<>>} PROVE Complete(<<>>, v, p)
  <2>1. p \in Seq(Names) /\ p \in DOMAIN content \cup {<<>>}
    BY <1>1, <1>2, EmptySeq DEF HasPaths
  <2>2. PICK g : g = Generic(p)
    OBVIOUS
  <2>3. <<>> \o Generic(p) = g
    BY <2>1, <2>2, OfRoot
  <2>4. ASSUME NEW n \in Names \ Range(Elements), Append(g, n) \in DOMAIN OrganisationInsertSchema,
               Append(p, n) \in DOMAIN content
        PROVE  Append(p, n) \in DOMAIN v
    <3>1. Generic(Append(p, n)) = Append(g, n)
      BY <2>1, <2>2, GenericAppended
    <3> QED BY <1>1, <2>4, <3>1
  <2>5. ASSUME NEW d \in InsertDemands, Front(d) = g PROVE Append(p, Last(d)) \in DOMAIN v
    <3>1. /\ d \in DOMAIN OrganisationInsertSchema
          /\ Last(d) \in Names \ Range(Elements) /\ d = Append(g, Last(d))
      BY <2>5, FieldNames
    <3>2. Append(p, Last(d)) \in DOMAIN content
      BY <2>1, <2>2, <2>5 DEF IsInsert, Accepts
    <3> QED BY <2>4, <3>1, <3>2
  <2>6. ASSUME g \in InsertUsers PROVE {Append(p, "role"), Append(p, "title")} \cap DOMAIN v # {}
    <3>1. {Append(p, "role"), Append(p, "title")} \cap DOMAIN content # {}
      BY <2>1, <2>2, <2>6 DEF IsInsert, Accepts
    <3>2. \A n \in {"role", "title"} : Append(g, n) \in DOMAIN OrganisationInsertSchema /\ n \in Names \ Range(Elements)
      BY <2>6, FieldNames
    <3>3. \A n \in {"role", "title"} : Append(p, n) \in DOMAIN content => Append(p, n) \in DOMAIN v
      BY <2>4, <3>2
    <3> QED BY <3>1, <3>3
  <2> QED BY <2>3, <2>5, <2>6 DEF Complete
<1> QED BY <1>2, <1>3, <1>4 DEF Whole

LEMMA Shortened ==
    ASSUME NEW S, NEW p \in Seq(S), p # <<>>
    PROVE  /\ SubSeq(p, 1, 1) = <<p[1]>>
           /\ Len(p) > 2 => SubSeq(p, 1, 3) = <<p[1], p[2], p[3]>>
<1>1. Len(p) \in Nat \ {0} /\ \A i \in 1..Len(p) : p[i] \in S
  BY TakenApart
<1>2. SubSeq(p, 1, 1) = <<p[1]>>
  <2>1. PICK s : s = SubSeq(p, 1, 1)
    OBVIOUS
  <2>2. PICK t : t = <<p[1]>>
    OBVIOUS
  <2>3. s \in Seq(S) /\ Len(s) = 1 /\ s[1] = p[1]
    <3>1. \A i \in 1..1 : p[i] \in S
      BY <1>1
    <3>2. /\ SubSeq(p, 1, 1) \in Seq(S) /\ Len(SubSeq(p, 1, 1)) = IF 1 <= 1 THEN 1 - 1 + 1 ELSE 0
          /\ \A i \in 1..(1 - 1 + 1) : SubSeq(p, 1, 1)[i] = p[1 + i - 1]
      BY <3>1, SubSeqProperties
    <3> QED BY <2>1, <3>2
  <2>4. t \in Seq(S) /\ Len(t) = 1 /\ t[1] = p[1]
    BY <1>1, <2>2
  <2>5. s = t
    <3>1. \A i \in 1..Len(s) : s[i] = t[i]
      BY <2>3, <2>4
    <3> QED BY <2>3, <2>4, <3>1, SeqEqual
  <2> QED BY <2>1, <2>2, <2>5
<1>3. ASSUME Len(p) > 2 PROVE SubSeq(p, 1, 3) = <<p[1], p[2], p[3]>>
  <2>1. PICK s : s = SubSeq(p, 1, 3)
    OBVIOUS
  <2>2. PICK t : t = <<p[1], p[2], p[3]>>
    OBVIOUS
  <2>3. s \in Seq(S) /\ Len(s) = 3 /\ s[1] = p[1] /\ s[2] = p[2] /\ s[3] = p[3]
    <3>1. \A i \in 1..3 : p[i] \in S
      BY <1>1, <1>3
    <3>2. /\ SubSeq(p, 1, 3) \in Seq(S) /\ Len(SubSeq(p, 1, 3)) = IF 1 <= 3 THEN 3 - 1 + 1 ELSE 0
          /\ \A i \in 1..(3 - 1 + 1) : SubSeq(p, 1, 3)[i] = p[1 + i - 1]
      BY <3>1, SubSeqProperties
    <3> QED BY <2>1, <3>2
  <2>4. t \in Seq(S) /\ Len(t) = 3 /\ t[1] = p[1] /\ t[2] = p[2] /\ t[3] = p[3]
    <3>1. p[1] \in S /\ p[2] \in S /\ p[3] \in S
      BY <1>1, <1>3
    <3> QED BY <2>2, <3>1
  <2>5. s = t
    BY <2>3, <2>4, ShortEqual
  <2> QED BY <2>1, <2>2, <2>5
<1> QED BY <1>2, <1>3

LEMMA TwoFirst ==
    ASSUME NEW S, NEW a \in S, NEW b \in S, NEW r \in Seq(S), Len(r) > 2
    PROVE  IsPrefix(<<a, b>>, r) <=> r[1] = a /\ r[2] = b
<1> PICK path : path = <<a, b>>
  OBVIOUS
<1>1. path \in Seq(S) /\ Len(path) = 2 /\ path[1] = a /\ path[2] = b
  OBVIOUS
<1>2. Len(r) \in Nat /\ \A i \in 1..2 : r[i] \in S /\ path[i] \in S
  BY <1>1
<1> PICK s : s = SubSeq(path, 1, 2)
  OBVIOUS
<1> PICK t : t = SubSeq(r, 1, 2)
  OBVIOUS
<1>3. s \in Seq(S) /\ Len(s) = 2 /\ s[1] = a /\ s[2] = b
  <2>1. /\ SubSeq(path, 1, 2) \in Seq(S) /\ Len(SubSeq(path, 1, 2)) = IF 1 <= 2 THEN 2 - 1 + 1 ELSE 0
        /\ \A i \in 1..(2 - 1 + 1) : SubSeq(path, 1, 2)[i] = path[1 + i - 1]
    BY <1>2, SubSeqProperties
  <2> QED BY <1>1, <2>1
<1>4. t \in Seq(S) /\ Len(t) = 2 /\ t[1] = r[1] /\ t[2] = r[2]
  <2>1. /\ SubSeq(r, 1, 2) \in Seq(S) /\ Len(SubSeq(r, 1, 2)) = IF 1 <= 2 THEN 2 - 1 + 1 ELSE 0
        /\ \A i \in 1..(2 - 1 + 1) : SubSeq(r, 1, 2)[i] = r[1 + i - 1]
    BY <1>2, SubSeqProperties
  <2> QED BY <2>1
<1>5. IsPrefix(path, r) <=> s = t
  <2>1. Len(path) <= Len(r)
    BY <1>1, <1>2
  <2> QED BY <1>1, <2>1 DEF IsPrefix
<1>6. s = t <=> r[1] = a /\ r[2] = b
  BY <1>3, <1>4, ShortEqual
<1> QED BY <1>5, <1>6

LEMMA AtFields ==
    ASSUME NEW content, HasPaths(content), NEW a \in Names, NEW b \in Names,
           NEW path, path = <<a, b>>, NEW item, item = At(content, path)
    PROVE  /\ HasPaths(item)
           /\ \A q \in Seq(Names) : q \in DOMAIN item <=> q # <<>> /\ path \o q \in DOMAIN content
           /\ \A q \in DOMAIN item : item[q] = content[path \o q]
<1>1. path \in Seq(Names) /\ Len(path) = 2 /\ path[1] = a /\ path[2] = b
  OBVIOUS
<1>2. /\ DOMAIN item = {SubSeq(p, 3, Len(p)) :
                          p \in {r \in DOMAIN content : Len(r) > 2 /\ IsPrefix(path, r)}}
      /\ \A q \in DOMAIN item : item[q] = content[path \o q]
  <2>1. PICK n : n = 2
    OBVIOUS
  <2>2. /\ DOMAIN item = {SubSeq(p, n + 1, Len(p)) :
                          p \in {r \in DOMAIN content : Len(r) > n /\ IsPrefix(path, r)}}
        /\ \A q \in DOMAIN item : item[q] = content[path \o q]
    BY <1>1, <2>1, Zenon DEF At
  <2>3. n + 1 = 3
    BY <2>1
  <2> QED BY <2>1, <2>2, <2>3, Zenon
<1>3. ASSUME NEW q \in DOMAIN item
      PROVE  q \in Seq(Names) /\ q # <<>> /\ path \o q \in DOMAIN content
  <2>1. PICK p \in DOMAIN content : Len(p) > 2 /\ IsPrefix(path, p) /\ q = SubSeq(p, 3, Len(p))
    BY <1>2
  <2>2. p \in Seq(Names)
    BY DEF HasPaths
  <2>3. p[1] = a /\ p[2] = b
    BY <2>1, <2>2, TwoFirst
  <2>4. SubSeq(p, 3, Len(p)) \in Seq(Names) /\ SubSeq(p, 3, Len(p)) # <<>> /\ path \o SubSeq(p, 3, Len(p)) = p
    BY <2>1, <2>2, <2>3, Within
  <2> QED BY <2>1, <2>4
<1>4. ASSUME NEW q \in Seq(Names), q # <<>>, path \o q \in DOMAIN content PROVE q \in DOMAIN item
  <2>1. PICK p : p = path \o q
    OBVIOUS
  <2>2. /\ path \o q \in Seq(Names) /\ Len(path \o q) = Len(path) + Len(q)
        /\ \A i \in 1..Len(path) : (path \o q)[i] = path[i]
        /\ SubSeq(path \o q, Len(path) + 1, Len(path \o q)) = q
    BY <1>1, Prefixed
  <2>3. Len(q) \in Nat \ {0}
    BY <1>4, TakenApart
  <2>4. p \in Seq(Names) /\ Len(p) > 2 /\ p[1] = a /\ p[2] = b /\ SubSeq(p, 3, Len(p)) = q
    BY <1>1, <2>1, <2>2, <2>3
  <2>5. IsPrefix(path, p)
    BY <2>4, TwoFirst
  <2> QED BY <1>2, <1>4, <2>1, <2>4, <2>5
<1> QED BY <1>2, <1>3, <1>4 DEF HasPaths

Closed(content) == \A p \in DOMAIN content : \A n \in 1..Len(p) : SubSeq(p, 1, n) \in DOMAIN content

\* What is left is as complete as before.
LEMMA WithoutIsSound ==
    ASSUME NEW u, HasPaths(u), \A p \in DOMAIN u : Complete(<<>>, u, p),
           \A p \in DOMAIN u : <<p[1]>> \in DOMAIN OrganisationInsertSchema => <<p[1]>> \in DOMAIN u,
           NEW names, NEW w, w = Without(u, names), FieldsKnown(<<>>, w)
    PROVE  SoundUpdate(<<>>, w)
<1>1. /\ \A p : p \in DOMAIN w <=> p \in DOMAIN u /\ p[1] \notin names
      /\ \A p \in DOMAIN w : w[p] = u[p]
  BY DEF Without
<1>2. HasPaths(w)
  BY <1>1 DEF HasPaths
<1>3. ASSUME NEW p \in DOMAIN w PROVE Complete(<<>>, w, p)
  <2>1. p \in Seq(Names) /\ p # <<>> /\ Len(p) \in Nat \ {0}
    BY <1>2, TakenApart DEF HasPaths
  <2>2. ASSUME NEW n \in Names, Append(p, n) \in DOMAIN u PROVE Append(p, n) \in DOMAIN w
    <3>1. \A i \in 1..Len(p) : Append(p, n)[i] = p[i]
      BY <2>1, Appended
    <3>2. Append(p, n)[1] = p[1]
      BY <2>1, <3>1
    <3> QED BY <1>1, <2>2, <3>2
  <2>3. Complete(<<>>, u, p)
    BY <1>1
  <2> QED BY <2>2, <2>3, CompleteMoved
<1>4. ASSUME NEW p \in DOMAIN w, Append(<<>>, p[1]) \in DOMAIN OrganisationInsertSchema
      PROVE  <<p[1]>> \in DOMAIN w
  <2>1. p \in Seq(Names) /\ p # <<>> /\ p[1] \in Names
    BY <1>2, TakenApart DEF HasPaths
  <2>2. Append(<<>>, p[1]) = <<p[1]>> /\ <<p[1]>>[1] = p[1]
    BY <2>1, OneName
  <2>3. <<p[1]>> \in DOMAIN u
    BY <1>1, <1>4, <2>2
  <2> QED BY <1>1, <2>2, <2>3
<1> QED BY <1>2, <1>3, <1>4 DEF SoundUpdate

\* A path that stands for a status of the organisation is one.
LEMMA OwnStatus ==
    ASSUME NEW p \in Seq(Names), p # <<>>, p[1] \notin Lists,
           Generic(p) \in DOMAIN OrganisationInsertSchema, OrganisationInsertSchema[Generic(p)] = "forbidden"
    PROVE  p = <<"status">>
<1> PICK g : g = Generic(p)
  OBVIOUS
<1>1. /\ g \in Seq(Names) /\ Len(g) = Len(p) /\ Len(p) \in Nat \ {0}
      /\ \A i \in 1..Len(p) : g[i] = IF p[i] \in Range(Elements) THEN "*" ELSE p[i]
  BY GenericPath, TakenApart
<1>2. g = <<"status">> \/ g[1] \in Lists
  BY InsertFields
<1>3. g[1] = IF p[1] \in Range(Elements) THEN "*" ELSE p[1]
  BY <1>1
<1>4. g[1] \notin Lists
  BY <1>3 DEF Lists
<1>5. Len(p) = 1 /\ p[1] = "status"
  <2>1. Len(g) = 1 /\ g[1] = "status"
    BY <1>2, <1>4
  <2> QED BY <1>1, <1>3, <2>1
<1>6. p = <<"status">>
  <2>1. "status" \in Names
    BY DEF Names
  <2>2. <<"status">> \in Seq(Names) /\ Len(<<"status">>) = 1 /\ <<"status">>[1] = "status"
    BY <2>1, OneName
  <2>3. PICK s : s = <<"status">>
    OBVIOUS
  <2>4. \A i \in 1..Len(p) : p[i] = s[i]
    BY <1>5, <2>2, <2>3
  <2> QED BY <1>5, <2>2, <2>3, <2>4, SeqEqual
<1> QED BY <1>6

LEMMA FirstIsThere ==
    ASSUME NEW content, HasPaths(content), Closed(content), NEW p \in DOMAIN content
    PROVE  p \in Seq(Names) /\ p # <<>> /\ p[1] \in Names /\ <<p[1]>> \in DOMAIN content
<1>1. p \in Seq(Names) /\ p # <<>>
  BY DEF HasPaths
<1>2. Len(p) \in Nat \ {0} /\ p[1] \in Names
  BY <1>1, TakenApart
<1>3. SubSeq(p, 1, 1) \in DOMAIN content
  BY <1>2 DEF Closed
<1>4. SubSeq(p, 1, 1) = <<p[1]>>
  BY <1>1, Shortened
<1> QED BY <1>1, <1>2, <1>3, <1>4

LEMMA NameOfField ==
    ASSUME NEW n \in Names, <<n>> \in DOMAIN OrganisationInsertSchema
    PROVE  n \notin Range(Elements) /\ Generic(<<n>>) = <<n>>
<1>1. <<n>> \in Seq(Names) /\ Len(<<n>>) = 1 /\ <<n>>[1] = n /\ Append(<<>>, n) = <<n>>
  BY OneName
<1>2. n \notin Range(Elements)
  BY <1>1, FieldNames
<1>3. Generic(Append(<<>>, n)) = Append(Generic(<<>>), n)
  BY <1>2, EmptySeq, GenericAppended
<1> QED BY <1>1, <1>2, <1>3, GenericOfNone

LEMMA RootIsSound ==
    ASSUME NEW content, HasPaths(content), Closed(content), IsUpdate(content),
           NEW u, u = StripUnknown(OrganisationUpdateSchema, content),
           NEW w, w = Without(u, Lists)
    PROVE  SoundUpdate(<<>>, w) /\ Named(w) \cap Lists = {}
<1>1. /\ HasPaths(u)
      /\ \A p \in DOMAIN u :
           /\ Generic(p) \in DOMAIN OrganisationInsertSchema /\ u[p] # Bad
           /\ OrganisationUpdateSchema[Generic(p)] # "forbidden"
           /\ Complete(<<>>, u, p)
  BY UpdateIsSound
<1>2. /\ \A p : p \in DOMAIN u <=> p \in DOMAIN content /\ Generic(p) \in DOMAIN OrganisationUpdateSchema
      /\ \A p \in DOMAIN u : u[p] = content[p]
  BY StrippedFields
<1>3. /\ \A p : p \in DOMAIN w <=> p \in DOMAIN u /\ p[1] \notin Lists
      /\ \A p \in DOMAIN w : w[p] = u[p]
  BY DEF Without
<1>4. FieldsKnown(<<>>, w)
  <2>1. ASSUME NEW p \in DOMAIN w
        PROVE  /\ p # <<>> /\ <<>> \o Generic(p) \in DOMAIN OrganisationInsertSchema /\ w[p] # Bad
               /\ OrganisationInsertSchema[<<>> \o Generic(p)] = "forbidden" => p = <<"status">>
    <3>1. p \in Seq(Names) /\ p # <<>>
      BY <1>1, <1>3 DEF HasPaths
    <3>2. <<>> \o Generic(p) = Generic(p)
      BY <3>1, OfRoot
    <3> QED BY <1>1, <1>3, <3>1, <3>2, OwnStatus
  <2> QED BY <2>1 DEF FieldsKnown
<1>5. ASSUME NEW p \in DOMAIN u, <<p[1]>> \in DOMAIN OrganisationInsertSchema
      PROVE  <<p[1]>> \in DOMAIN u
  <2>1. p[1] \in Names /\ <<p[1]>> \in DOMAIN content
    BY <1>2, FirstIsThere
  <2>2. Generic(<<p[1]>>) = <<p[1]>>
    BY <1>5, <2>1, NameOfField
  <2>3. DOMAIN OrganisationUpdateSchema = DOMAIN OrganisationInsertSchema
    BY UpdateFields
  <2> QED BY <1>2, <1>5, <2>1, <2>2, <2>3
<1>6. SoundUpdate(<<>>, w)
  BY <1>1, <1>4, <1>5, WithoutIsSound
<1>7. Named(w) \cap Lists = {}
  BY <1>3 DEF Named
<1> QED BY <1>6, <1>7

LEMMA ElementNames ==
    /\ Range(Elements) \subseteq Names
    /\ \A list \in Lists : list \in Names /\ list \notin Range(Elements)
    /\ "*" \notin Range(Elements)
    /\ \A list \in Lists : \A e \in Range(Elements) :
          /\ <<list, e>> \in Seq(Names) /\ Len(<<list, e>>) = 2
          /\ Generic(<<list, e>>) = <<list, "*">> /\ <<list, "*">> \in Seq(Names)
          /\ Generic(<<list>>) = <<list>>
<1>1. Range(Elements) \subseteq Names
  <2>1. \A i \in DOMAIN Elements : Elements[i] \in STRING
    BY ElementsAssumption
  <2> QED BY <2>1 DEF Range, Names
<1>2. \A list \in Lists : list \in Names
  BY DEF Lists, Names
<1>3. ASSUME NEW list \in Lists
      PROVE  list \notin Range(Elements) /\ "*" \notin Range(Elements) /\ Generic(<<list>>) = <<list>>
  <2>1. <<list>> \in DOMAIN OrganisationInsertSchema /\ <<list, "*">> \in DOMAIN OrganisationInsertSchema
    BY InsertFields
  <2>2. list \notin Range(Elements) /\ Generic(<<list>>) = <<list>>
    BY <1>2, <2>1, NameOfField
  <2>3. "*" \notin Range(Elements)
    <3>1. <<list, "*">>[2] = "*" /\ Len(<<list, "*">>) = 2
      OBVIOUS
    <3>2. PICK d : d = <<list, "*">>
      OBVIOUS
    <3>3. \A i \in 1..Len(d) : d[i] \notin Range(Elements)
      BY <2>1, <3>2, FieldNames
    <3> QED BY <3>1, <3>2, <3>3
  <2> QED BY <2>2, <2>3
<1>4. "registrations" \in Lists
  BY DEF Lists
<1>5. ASSUME NEW list \in Lists, NEW e \in Range(Elements)
      PROVE  /\ <<list, e>> \in Seq(Names) /\ Len(<<list, e>>) = 2
             /\ Generic(<<list, e>>) = <<list, "*">> /\ <<list, "*">> \in Seq(Names)
  <2>1. PICK S : S = Names
    OBVIOUS
  <2>2. list \in S /\ e \in S /\ "*" \in S
    BY <1>1, <1>2, <2>1, Star
  <2>3. PICK p : p = <<list, e>>
    OBVIOUS
  <2>4. PICK s : s = <<list, "*">>
    OBVIOUS
  <2>5. p \in Seq(S) /\ Len(p) = 2 /\ p[1] = list /\ p[2] = e
    BY <2>2, <2>3
  <2>6. s \in Seq(S) /\ Len(s) = 2 /\ s[1] = list /\ s[2] = "*"
    BY <2>2, <2>4
  <2>7. PICK g : g = Generic(p)
    OBVIOUS
  <2>8. /\ g \in Seq(Names) /\ Len(g) = Len(p)
        /\ \A i \in 1..Len(p) : g[i] = IF p[i] \in Range(Elements) THEN "*" ELSE p[i]
    BY <2>1, <2>5, <2>7, GenericPath
  <2>9. g[1] = list /\ g[2] = "*" /\ Len(g) = 2
    <3>1. 1 \in 1..2 /\ 2 \in 1..2
      OBVIOUS
    <3>2. 1 \in 1..Len(p) /\ 2 \in 1..Len(p)
      BY <2>5, <3>1, Zenon
    <3>3. list \notin Range(Elements)
      BY <1>3
    <3> QED BY <2>5, <2>8, <3>2, <3>3, Zenon
  <2>10. g = s
    BY <2>1, <2>6, <2>8, <2>9, ShortEqual
  <2> QED BY <2>1, <2>3, <2>4, <2>5, <2>6, <2>7, <2>10
<1> QED BY <1>1, <1>2, <1>3, <1>4, <1>5

LEMMA NamesPrefixed ==
    ASSUME NEW p \in Seq(Names), NEW q \in Seq(Names)
    PROVE  /\ p \o q \in Seq(Names) /\ Len(p \o q) = Len(p) + Len(q)
           /\ \A i \in 1..Len(p) : (p \o q)[i] = p[i]
           /\ \A i \in 1..Len(q) : (p \o q)[Len(p) + i] = q[i]
           /\ \A n \in Names : Append(p \o q, n) = p \o Append(q, n)
<1>1. PICK S : S = Names
  OBVIOUS
<1>2. p \in Seq(S) /\ q \in Seq(S)
  BY <1>1
<1>3. /\ p \o q \in Seq(S) /\ Len(p \o q) = Len(p) + Len(q)
      /\ \A i \in 1..Len(p) : (p \o q)[i] = p[i]
      /\ \A i \in 1..Len(q) : (p \o q)[Len(p) + i] = q[i]
  BY <1>2, Prefixed
<1>4. ASSUME NEW n \in S PROVE Append(p \o q, n) = p \o Append(q, n)
  <2>1. Len(p) \in Nat /\ Len(q) \in Nat
    BY <1>2
  <2>2. Append(q, n) \in Seq(S) /\ Len(Append(q, n)) = Len(q) + 1 /\ Append(q, n)[Len(q) + 1] = n
        /\ \A i \in 1..Len(q) : Append(q, n)[i] = q[i]
    BY <1>2, Appended
  <2>3. Append(p \o q, n) \in Seq(S) /\ Len(Append(p \o q, n)) = Len(p) + Len(q) + 1
        /\ Append(p \o q, n)[Len(p) + Len(q) + 1] = n
        /\ \A i \in 1..(Len(p) + Len(q)) : Append(p \o q, n)[i] = (p \o q)[i]
    BY <1>3, Appended
  <2>4. /\ p \o Append(q, n) \in Seq(S) /\ Len(p \o Append(q, n)) = Len(p) + Len(q) + 1
        /\ \A i \in 1..(Len(p) + Len(q) + 1) :
              (p \o Append(q, n))[i] = IF i <= Len(p) THEN p[i] ELSE Append(q, n)[i - Len(p)]
    BY <2>1, <2>2, <1>2, ConcatProperties
  <2>5. \A i \in 1..(Len(p) + Len(q)) : (p \o q)[i] = IF i <= Len(p) THEN p[i] ELSE q[i - Len(p)]
    BY <1>2, ConcatProperties
  <2>6. \A i \in 1..(Len(p) + Len(q) + 1) : Append(p \o q, n)[i] = (p \o Append(q, n))[i]
    BY <2>1, <2>2, <2>3, <2>4, <2>5
  <2> QED BY <2>3, <2>4, <2>6, SeqEqual
<1> QED BY <1>1, <1>3, <1>4, Zenon

LEMMA HasItsId ==
    ASSUME NEW list \in Lists, NEW place, place = <<list, "*">>, NEW content, Complete(place, content, <<>>)
    PROVE  <<"id">> \in DOMAIN content
<1>1. place \in Seq(Names) /\ list \in Names /\ "id" \in Names /\ "*" \in Names
  BY ElementNames, Star DEF Names, Lists
<1>2. Append(place, "id") = <<list, "*", "id">>
  <2>1. Append(<<list, "*">>, "id") = <<list, "*", "id">>
    BY <1>1, NamePaths
  <2> QED BY <2>1
<1>3. Append(place, "id") \in InsertDemands
  BY <1>2, InsertFields DEF InsertDemands, Demands
<1>4. Front(Append(place, "id")) = place /\ Last(Append(place, "id")) = "id"
  <2>1. \A x \in Seq(Names), n \in Names : Last(Append(x, n)) = n /\ Front(Append(x, n)) = x
    BY Appended
  <2> QED BY <1>1, <2>1
<1>5. place \o Generic(<<>>) = place
  BY <1>1, GenericOfNone, ConcatEmptySeq
<1>6. Append(<<>>, "id") \in DOMAIN content
  BY <1>3, <1>4, <1>5 DEF Complete
<1> QED BY <1>1, <1>6, OneName

LEMMA ItemIsSound ==
    ASSUME NEW content, HasPaths(content), Closed(content), IsUpdate(content),
           NEW u, u = StripUnknown(OrganisationUpdateSchema, content),
           NEW list \in Lists, NEW e \in Range(Elements), <<list, e>> \in DOMAIN u,
           NEW item, item = At(u, <<list, e>>)
    PROVE  /\ HasPaths(item) /\ Whole(<<list, "*">>, item) /\ SoundUpdate(<<list, "*">>, item)
           /\ <<"id">> \in DOMAIN item
<1>1. \A x \in Seq(Names), n \in Names : Last(Append(x, n)) = n /\ Front(Append(x, n)) = x
  BY Appended
<1>2. PICK path : path = <<list, e>>
  OBVIOUS
<1>3. PICK place : place = <<list, "*">>
  OBVIOUS
<1>4. list \in Names /\ e \in Names /\ path \in Seq(Names) /\ Len(path) = 2 /\ Generic(path) = place
      /\ place \in Seq(Names) /\ path[1] = list /\ path[2] = e /\ Len(place) = 2
  BY <1>2, <1>3, ElementNames
<1>5. /\ HasPaths(u)
      /\ \A p \in DOMAIN u :
           /\ Generic(p) \in DOMAIN OrganisationInsertSchema /\ u[p] # Bad
           /\ OrganisationUpdateSchema[Generic(p)] # "forbidden"
           /\ Complete(<<>>, u, p)
  BY UpdateIsSound
<1>6. /\ \A p : p \in DOMAIN u <=> p \in DOMAIN content /\ Generic(p) \in DOMAIN OrganisationInsertSchema
      /\ \A p \in DOMAIN u : u[p] = content[p]
  <2>1. DOMAIN OrganisationUpdateSchema = DOMAIN OrganisationInsertSchema
    BY UpdateFields
  <2> QED BY <2>1, StrippedFields
<1>7. /\ HasPaths(item)
      /\ \A q \in Seq(Names) : q \in DOMAIN item <=> q # <<>> /\ path \o q \in DOMAIN u
      /\ \A q \in DOMAIN item : item[q] = u[path \o q]
  <2>1. item = At(u, path)
    BY <1>2
  <2> QED BY <1>4, <1>5, <1>2, <2>1, AtFields
<1>8. ASSUME NEW q \in Seq(Names)
      PROVE  /\ path \o q \in Seq(Names) /\ Len(path \o q) = 2 + Len(q)
             /\ Generic(path \o q) = place \o Generic(q)
             /\ \A i \in 1..Len(q) : (path \o q)[2 + i] = q[i]
             /\ \A n \in Names : Append(path \o q, n) = path \o Append(q, n)
             /\ (path \o q)[1] = list /\ (path \o q)[2] = e
  <2>1. Generic(path \o q) = Generic(path) \o Generic(q)
    BY <1>4, GenericPrefixed
  <2>2. /\ path \o q \in Seq(Names) /\ Len(path \o q) = Len(path) + Len(q)
        /\ \A i \in 1..Len(path) : (path \o q)[i] = path[i]
        /\ \A i \in 1..Len(q) : (path \o q)[Len(path) + i] = q[i]
        /\ \A n \in Names : Append(path \o q, n) = path \o Append(q, n)
    BY <1>4, NamesPrefixed
  <2>3. (path \o q)[1] = list /\ (path \o q)[2] = e
    BY <1>4, <2>2
  <2>4. Generic(path \o q) = place \o Generic(q)
    BY <1>4, <2>1
  <2>5. Len(path) = 2
    BY <1>4
  <2>6. Len(path \o q) = 2 + Len(q) /\ \A i \in 1..Len(q) : (path \o q)[2 + i] = q[i]
    BY <2>2, <2>5, Zenon
  <2> QED BY <2>2, <2>3, <2>4, <2>6
<1>9. \A n \in Names : Last(Append(place, n)) = n /\ Front(Append(place, n)) = place
  BY <1>4, <1>1
<1>10. ASSUME NEW q \in DOMAIN item
      PROVE  /\ q # <<>> /\ place \o Generic(q) \in DOMAIN OrganisationInsertSchema /\ item[q] # Bad
             /\ OrganisationInsertSchema[place \o Generic(q)] = "forbidden" => q = <<"status">>
  <2>1. q \in Seq(Names) /\ q # <<>>
    BY <1>7 DEF HasPaths
  <2>2. PICK r \in DOMAIN u : r = path \o q
    BY <1>7, <2>1
  <2>3. PICK g : g = Generic(r)
    OBVIOUS
  <2>4. g = place \o Generic(q) /\ g \in DOMAIN OrganisationInsertSchema /\ item[q] # Bad
        /\ OrganisationUpdateSchema[g] # "forbidden"
    BY <1>5, <1>7, <1>8, <2>1, <2>2, <2>3
  <2>5. ASSUME OrganisationInsertSchema[g] = "forbidden" PROVE q = <<"status">>
    <3>1. r \in Seq(Names) /\ Len(r) = 2 + Len(q) /\ Len(q) \in Nat \ {0} /\ (\A i \in 1..Len(q) : r[2 + i] = q[i])
      BY <1>8, <2>1, <2>2, TakenApart
    <3>2. Len(g) = Len(r) /\ \A i \in 1..Len(r) : g[i] = IF r[i] \in Range(Elements) THEN "*" ELSE r[i]
      BY <2>3, <3>1, GenericPath
    <3>3. PICK m : m = Len(g)
      OBVIOUS
    <3>4. m > 1
      BY <3>1, <3>2, <3>3
    <3>5. m = 3 /\ g[3] = "status"
      BY <2>4, <2>5, <3>3, <3>4, UpdateFields
    <3>6. Len(q) = 1
      <4>1. PICK k \in Nat : k = Len(q)
        BY <3>1
      <4>2. m = 2 + k
        BY <3>1, <3>2, <3>3, <4>1, Zenon
      <4> QED BY <3>5, <4>1, <4>2
    <3>7. r[3] = "status"
      <4>1. Len(r) = 3
        BY <3>2, <3>3, <3>5
      <4> QED BY <3>2, <3>5, <4>1
    <3>8. q[1] = "status"
      BY <3>1, <3>6, <3>7
    <3>9. PICK s : s = <<"status">>
      OBVIOUS
    <3>10. s \in Seq(Names) /\ Len(s) = 1 /\ s[1] = "status"
      <4>1. "status" \in Names
        BY DEF Names
      <4> QED BY <3>9, <4>1, OneName
    <3>11. \A i \in 1..Len(q) : q[i] = s[i]
      BY <3>6, <3>8, <3>10
    <3> QED BY <2>1, <3>6, <3>9, <3>10, <3>11, SeqEqual
  <2> QED BY <2>1, <2>4, <2>5
<1>11. FieldsKnown(place, item)
  BY <1>10 DEF FieldsKnown
<1>12. ASSUME NEW q \in DOMAIN item \cup {<<>>} PROVE Complete(place, item, q)
  <2>1. q \in Seq(Names)
    BY <1>7, EmptySeq DEF HasPaths
  <2>2. PICK r \in DOMAIN u : r = path \o q
    <3>1. CASE q = <<>>
      <4>1. path \o <<>> = path
        BY <1>4, ConcatEmptySeq
      <4> QED BY <1>2, <3>1, <4>1
    <3>2. CASE q \in DOMAIN item
      BY <1>7, <2>1, <3>2
    <3> QED BY <3>1, <3>2
  <2>3. Complete(<<>>, u, r)
    BY <1>5
  <2>4. <<>> \o Generic(r) = place \o Generic(q)
    <3>1. r \in Seq(Names)
      BY <1>5 DEF HasPaths
    <3>2. <<>> \o Generic(r) = Generic(r)
      BY <3>1, OfRoot
    <3> QED BY <1>8, <2>1, <2>2, <3>2
  <2>5. ASSUME NEW n \in Names, Append(r, n) \in DOMAIN u PROVE Append(q, n) \in DOMAIN item
    <3>1. Append(q, n) \in Seq(Names) /\ Append(q, n) # <<>>
      BY <2>1, Appended
    <3>2. Append(r, n) = path \o Append(q, n)
      BY <1>8, <2>1, <2>2
    <3> QED BY <1>7, <2>5, <3>1, <3>2
  <2>6. \A n \in Names \ Range(Elements) :
           n \notin StatusNames /\ Append(place \o Generic(q), n) \in DOMAIN OrganisationInsertSchema
              /\ Append(r, n) \in DOMAIN u => Append(q, n) \in DOMAIN item
    BY <2>5
  <2>7. PICK root : root = <<>>
    OBVIOUS
  <2>8. Complete(root, u, r) /\ root \o Generic(r) = place \o Generic(q)
    BY <2>3, <2>4, <2>7
  <2> QED BY <2>6, <2>8, CompleteMoved
<1>13. ASSUME NEW q \in DOMAIN item, Append(place, q[1]) \in DOMAIN OrganisationInsertSchema
      PROVE  <<q[1]>> \in DOMAIN item
  <2>1. q \in Seq(Names) /\ q # <<>> /\ Len(q) \in Nat \ {0} /\ q[1] \in Names
    BY <1>7, TakenApart DEF HasPaths
  <2>2. PICK r \in DOMAIN content : r = path \o q
    BY <1>6, <1>7, <2>1
  <2>3. PICK n \in Names : n = q[1]
    BY <2>1
  <2>4. r \in Seq(Names) /\ r # <<>> /\ Len(r) > 2 /\ r[1] = list /\ r[2] = e /\ r[3] = n
    <3>1. Len(r) > 2 /\ r[1] = list /\ r[2] = e /\ r[2 + 1] = n
      BY <1>8, <2>1, <2>2, <2>3
    <3>2. r \in Seq(Names) /\ r # <<>>
      BY DEF HasPaths
    <3> QED BY <3>1, <3>2
  <2>5. <<list, e, n>> \in DOMAIN content
    <3>1. SubSeq(r, 1, 3) \in DOMAIN content
      <4>1. 3 \in 1..Len(r)
        BY <2>4
      <4> QED BY <4>1 DEF Closed
    <3>2. SubSeq(r, 1, 3) = <<list, e, n>>
      BY <2>4, Shortened
    <3> QED BY <3>1, <3>2
  <2>6. path \o <<n>> = <<list, e, n>> /\ <<n>> \in Seq(Names) /\ <<n>> # <<>> /\ Append(<<>>, n) = <<n>>
    <3>1. <<list, e>> \o <<n>> = <<list, e, n>>
      BY <1>4, NamePaths
    <3>2. <<n>> \in Seq(Names) /\ <<n>> # <<>> /\ Append(<<>>, n) = <<n>>
      BY OneName
    <3> QED BY <1>2, <3>1, <3>2
  <2>7. n \notin Range(Elements)
    <3>1. Append(place, n) \in DOMAIN OrganisationInsertSchema
      BY <1>13, <2>3
    <3>2. Last(Append(place, n)) = n
      BY <1>9
    <3> QED BY <3>1, <3>2, FieldNames
  <2>8. Generic(<<n>>) = <<n>>
    <3>1. Generic(Append(<<>>, n)) = Append(Generic(<<>>), n)
      BY <2>7, EmptySeq, GenericAppended
    <3> QED BY <2>6, <3>1, GenericOfNone
  <2>9. Generic(path \o <<n>>) = Append(place, n)
    <3>1. Generic(path \o <<n>>) = place \o <<n>>
      BY <1>8, <2>6, <2>8
    <3>2. place \o <<n>> = Append(place, n)
      <4>1. PICK S : S = Names
        OBVIOUS
      <4>2. place \in Seq(S) /\ n \in S /\ <<>> \in Seq(S)
        BY <1>4, <4>1, EmptySeq
      <4>3. Append(place \o <<>>, n) = place \o Append(<<>>, n)
        BY <4>2, Prefixed
      <4>4. place \o <<>> = place
        BY <1>4, ConcatEmptySeq
      <4> QED BY <2>6, <4>3, <4>4
    <3> QED BY <3>1, <3>2
  <2>10. path \o <<n>> \in DOMAIN u
    BY <1>6, <1>13, <2>3, <2>5, <2>6, <2>9
  <2> QED BY <1>7, <2>3, <2>6, <2>10
<1>14. <<"id">> \in DOMAIN item
  <2>1. Complete(place, item, <<>>)
    BY <1>12
  <2> QED BY <1>3, <2>1, HasItsId
<1>15. Whole(place, item) /\ SoundUpdate(place, item)
  BY <1>7, <1>11, <1>12, <1>13 DEF Whole, SoundUpdate
<1> QED BY <1>7, <1>14, <1>15, <1>3
--------------------------------------------------------------------------------
(* What the upsert is given *)

\* Every path of the part is one of a field with one of these names.
Rooted(part, names) == \A p \in DOMAIN part : p \in Seq(Names) /\ p # <<>> /\ p[1] \in names

LEMMA RootedTogether ==
    ASSUME NEW parts, NEW names, \A s \in parts : Rooted(s, names)
    PROVE  Rooted(Together(parts), names)
<1>1. DOMAIN Together(parts) = UNION {DOMAIN s : s \in parts}
  BY PartsTogether
<1>2. ASSUME NEW p \in DOMAIN Together(parts) PROVE p \in Seq(Names) /\ p # <<>> /\ p[1] \in names
  <2>1. PICK s \in parts : p \in DOMAIN s
    BY <1>1
  <2> QED BY <2>1 DEF Rooted
<1> QED BY <1>2 DEF Rooted

LEMMA RootedField ==
    ASSUME NEW path \in Seq(Names), path # <<>>, NEW names, path[1] \in names, NEW value
    PROVE  /\ Rooted(<<>>, names) /\ Rooted(Field(path, value), names) /\ Rooted(Leaf(path, value), names)
           /\ Rooted(Known(path, value), names)
<1>1. Rooted(<<>>, names)
  BY DEF Rooted
<1>2. \A v : Rooted(Field(path, v), names)
  BY DEF Rooted, Field
<1> QED BY <1>1, <1>2 DEF Leaf, Known

LEMMA RootedLeaves ==
    ASSUME NEW path \in Seq(Names), path # <<>>, NEW names, path[1] \in names,
           NEW record, DOMAIN record \subseteq Names
    PROVE  Rooted(Leaves(path, record), names)
<1>1. ASSUME NEW f \in DOMAIN record
      PROVE  Rooted(Leaf(Append(path, f), record[f]), names)
  <2>1. f \in Names
    OBVIOUS
  <2>2. Append(path, f) \in Seq(Names) /\ Append(path, f) # <<>> /\ Append(path, f)[1] = path[1]
    <3>1. /\ Append(path, f) \in Seq(Names) /\ Append(path, f) # <<>>
          /\ \A i \in 1..Len(path) : Append(path, f)[i] = path[i]
      BY <2>1, Appended
    <3>2. 1 \in 1..Len(path)
      BY TakenApart
    <3> QED BY <3>1, <3>2
  <2> QED BY <2>2, RootedField
<1>2. Rooted(Field(path, "object"), names) /\ Rooted(<<>>, names)
  BY RootedField
<1>3. PICK parts : parts = {Field(path, "object")} \cup {Leaf(Append(path, f), record[f]) : f \in DOMAIN record}
  OBVIOUS
<1>4. \A s \in parts : Rooted(s, names)
  BY <1>1, <1>2, <1>3
<1>5. Rooted(Together(parts), names)
  BY <1>4, RootedTogether
<1> QED BY <1>2, <1>3, <1>5 DEF Leaves

LEMMA RootedItemised ==
    ASSUME NEW path \in Seq(Names), path # <<>>, NEW names, path[1] \in names,
           NEW contents, DOMAIN contents \subseteq DOMAIN Elements,
           \A k \in DOMAIN contents : HasPaths(contents[k])
    PROVE  Rooted(Itemised(path, contents), names)
<1>1. \A k \in DOMAIN contents : Elements[k] \in Names
  BY ElementNames DEF Range
<1>2. ASSUME NEW k \in DOMAIN contents
      PROVE  /\ Append(path, Elements[k]) \in Seq(Names) /\ Append(path, Elements[k]) # <<>>
             /\ Append(path, Elements[k])[1] = path[1]
             /\ Len(Append(path, Elements[k])) \in Nat \ {0}
  <2>1. /\ Append(path, Elements[k]) \in Seq(Names) /\ Append(path, Elements[k]) # <<>>
        /\ \A i \in 1..Len(path) : Append(path, Elements[k])[i] = path[i]
    BY <1>1, Appended
  <2>2. 1 \in 1..Len(path)
    BY TakenApart
  <2>3. Len(Append(path, Elements[k])) \in Nat \ {0}
    BY <2>1, TakenApart
  <2> QED BY <2>1, <2>2, <2>3
<1>3. ASSUME NEW k \in DOMAIN contents, NEW q \in DOMAIN contents[k],
             NEW p, p = Append(path, Elements[k]) \o q
      PROVE  p \in Seq(Names) /\ p # <<>> /\ p[1] = path[1]
  <2>1. PICK a \in Seq(Names) : a = Append(path, Elements[k])
    BY <1>2
  <2>2. q \in Seq(Names) /\ q # <<>>
    BY DEF HasPaths
  <2>3. a \o q \in Seq(Names) /\ Len(a \o q) = Len(a) + Len(q) /\ \A i \in 1..Len(a) : (a \o q)[i] = a[i]
    BY <2>2, NamesPrefixed
  <2>4. Len(a) \in Nat \ {0} /\ a[1] = path[1] /\ Len(q) \in Nat \ {0}
    BY <1>2, <2>1, <2>2, TakenApart
  <2>5. a \o q # <<>>
    <3>1. Len(a \o q) # 0
      BY <2>3, <2>4
    <3> QED BY <3>1, EmptySeq
  <2>6. (a \o q)[1] = path[1]
    BY <2>3, <2>4
  <2> QED BY <1>3, <2>1, <2>3, <2>5, <2>6
<1>4. DOMAIN Itemised(path, contents) =
         {path} \cup {Append(path, Elements[k]) : k \in DOMAIN contents}
         \cup UNION {{Append(path, Elements[k]) \o q : q \in DOMAIN contents[k]} : k \in DOMAIN contents}
  BY DEF Itemised
<1>5. ASSUME NEW p \in DOMAIN Itemised(path, contents)
      PROVE  p \in Seq(Names) /\ p # <<>> /\ p[1] \in names
  <2>1. CASE p = path
    BY <2>1
  <2>2. CASE p \in {Append(path, Elements[k]) : k \in DOMAIN contents}
    BY <1>2, <2>2
  <2>3. CASE \E k \in DOMAIN contents : \E q \in DOMAIN contents[k] : p = Append(path, Elements[k]) \o q
    <3>1. PICK k \in DOMAIN contents : \E q \in DOMAIN contents[k] : p = Append(path, Elements[k]) \o q
      BY <2>3
    <3>2. PICK q \in DOMAIN contents[k] : p = Append(path, Elements[k]) \o q
      BY <3>1
    <3>3. p \in Seq(Names) /\ p # <<>> /\ p[1] = path[1]
      BY <1>3, <3>2, Zenon
    <3> QED BY <3>3
  <2>4. \/ p = path \/ p \in {Append(path, Elements[k]) : k \in DOMAIN contents}
        \/ p \in UNION {{Append(path, Elements[k]) \o q : q \in DOMAIN contents[k]} : k \in DOMAIN contents}
    BY <1>4
  <2>5. ASSUME p \in UNION {{Append(path, Elements[k]) \o q : q \in DOMAIN contents[k]} : k \in DOMAIN contents}
        PROVE  \E k \in DOMAIN contents : \E q \in DOMAIN contents[k] : p = Append(path, Elements[k]) \o q
    BY <2>5, Zenon
  <2> QED BY <2>1, <2>2, <2>3, <2>4, <2>5, Zenon
<1> QED BY <1>5 DEF Rooted

LEMMA PartnershipPaths ==
    ASSUME NEW p, DOMAIN p.partners \subseteq DOMAIN Elements
    PROVE  /\ Rooted(PartnershipContent(p), {"partnership"})
           /\ DOMAIN PartnershipContent(p) # {} => <<"partnership">> \in DOMAIN PartnershipContent(p)
<1>1. {"partnership", "partners", "type", "name"} \subseteq Names
  BY DEF Names
<1>2. <<"partnership">> \in Seq(Names) /\ <<"partnership">> # <<>> /\ <<"partnership">>[1] = "partnership"
  BY <1>1, OneName
<1>3. \A n \in Names : <<"partnership", n>> \in Seq(Names) /\ <<"partnership", n>> # <<>>
                       /\ <<"partnership", n>>[1] = "partnership"
  BY <1>1
<1>4. \A n \in Names : <<n>> \in Seq(Names) /\ <<n>> # <<>> /\ <<n>>[1] = n
  BY OneName
<1>5. ASSUME NEW r PROVE HasPaths(Partner(r))
  <2>1. Rooted(Leaf(<<"name">>, r.name), Names) /\ Rooted(<<>>, Names)
        /\ \A v : Rooted(Field(<<"type">>, v), Names)
    BY <1>1, <1>4, RootedField
  <2>2. PICK a : a = Leaf(<<"name">>, r.name)
    OBVIOUS
  <2>3. PICK b : b = IF r.type = None THEN <<>>
                     ELSE Field(<<"type">>, IF r.type \in {"company", "individual"} THEN "form" ELSE Bad)
    OBVIOUS
  <2>4. Rooted(a, Names) /\ Rooted(b, Names)
    BY <2>1, <2>2, <2>3
  <2>5. Rooted(Together({a, b}), Names)
    BY <2>4, RootedTogether
  <2>6. Partner(r) = Together({a, b})
    BY <2>2, <2>3 DEF Partner
  <2> QED BY <2>5, <2>6 DEF Rooted, HasPaths
<1> DEFINE names == {"partnership"}
           contents == [k \in DOMAIN p.partners |-> Partner(p.partners[k])]
           a == Field(<<"partnership">>, "object")
           b == Known(<<"partnership", "type">>, p.type)
           c == Itemised(<<"partnership", "partners">>, contents)
<1>6. Rooted(a, names) /\ Rooted(b, names) /\ Rooted(<<>>, names)
  BY <1>1, <1>2, <1>3, RootedField
<1>7. Rooted(c, names)
  <2>1. DOMAIN contents = DOMAIN p.partners /\ \A k \in DOMAIN contents : HasPaths(contents[k])
    BY <1>5
  <2>2. <<"partnership", "partners">> \in Seq(Names) /\ <<"partnership", "partners">> # <<>>
        /\ <<"partnership", "partners">>[1] \in names
    BY <1>1, <1>3
  <2> HIDE DEF contents
  <2> QED BY <2>1, <2>2, RootedItemised
<1>8. <<"partnership">> \in DOMAIN a
  BY DEF Field
<1>9. PartnershipContent(p) = (IF p.type = None /\ p.partners = <<>> THEN <<>> ELSE Together({a, b, c}))
  BY DEF PartnershipContent
<1> HIDE DEF a, b, c, contents
<1>10. Rooted(Together({a, b, c}), names) /\ <<"partnership">> \in DOMAIN Together({a, b, c})
  <2>1. \A s \in {a, b, c} : Rooted(s, names)
    BY <1>6, <1>7
  <2>2. DOMAIN Together({a, b, c}) = UNION {DOMAIN s : s \in {a, b, c}}
    BY PartsTogether
  <2> QED BY <1>8, <2>1, <2>2, RootedTogether
<1>11. DOMAIN <<>> = {}
  OBVIOUS
<1> QED BY <1>6, <1>9, <1>10, <1>11
FormFields ==
    {"id", "orgId", "wasteProcessingTypes", "reprocessingNations", "businessType", "companyDetails",
     "submitterContactDetails", "managementContactDetails", "formSubmissionTime", "submittedToRegulator",
     "partnership"}

LEMMA RootedWidely ==
    ASSUME NEW s, NEW some, NEW more, some \subseteq more, Rooted(s, some)
    PROVE  Rooted(s, more)
BY DEF Rooted

\* A part without objects.
Flat(s) == \A p \in DOMAIN s : p = <<p[1]>>

LEMMA FlatField ==
    ASSUME NEW n \in Names, NEW value
    PROVE  /\ Flat(<<>>) /\ Flat(Field(<<n>>, value)) /\ Flat(Known(<<n>>, value))
           /\ <<n>> \in DOMAIN Field(<<n>>, value)
<1>1. <<n>>[1] = n
  BY OneName
<1>2. \A v : Flat(Field(<<n>>, v)) /\ <<n>> \in DOMAIN Field(<<n>>, v)
  BY <1>1 DEF Flat, Field
<1>3. Flat(<<>>)
  BY DEF Flat
<1> QED BY <1>2, <1>3 DEF Known

\* A part that lies in an object which some part of the content has.
Headed(s, content) == \A p \in DOMAIN s : <<p[1]>> \in DOMAIN content

LEMMA HeadedParts ==
    ASSUME NEW parts, NEW c, c = Together(parts), NEW s \in parts,
           NEW n, Rooted(s, {n}), NEW t \in parts, <<n>> \in DOMAIN t
    PROVE  Headed(s, c)
<1>1. DOMAIN c = UNION {DOMAIN r : r \in parts}
  BY PartsTogether
<1>2. <<n>> \in DOMAIN c
  BY <1>1
<1>3. \A p \in DOMAIN s : p[1] = n
  BY DEF Rooted
<1> QED BY <1>2, <1>3 DEF Headed

LEMMA FlatIsHeaded ==
    ASSUME NEW parts, NEW c, c = Together(parts), NEW s \in parts, Flat(s)
    PROVE  Headed(s, c)
<1>1. DOMAIN c = UNION {DOMAIN r : r \in parts}
  BY PartsTogether
<1> QED BY <1>1 DEF Flat, Headed

LEMMA ContentPaths ==
    ASSUME NEW o, o = ParseOrgSubmission, DOMAIN o.partnership.partners \subseteq DOMAIN Elements,
           NEW c, c = ContentOf(o)
    PROVE  Rooted(c, FormFields) /\ Headed(c, c)
<1>1. FormFields \subseteq Names
      /\ {"companyDetails", "name", "tradingName", "registrationNumber", "registeredAddress", "address"} \subseteq Names
  BY DEF FormFields, Names
<1>2. AddressFields \subseteq Names /\ ContactFields \subseteq Names
  BY DEF AddressFields, ContactFields, Names
<1>3. /\ DOMAIN o.companyDetails.registeredAddress \subseteq Names
      /\ DOMAIN o.companyDetails.address \subseteq Names
      /\ DOMAIN o.submitterContactDetails \subseteq Names
      /\ DOMAIN o.managementContactDetails \subseteq Names
  <2>1. \A value : DOMAIN ParseUkAddress(value) = AddressFields
    BY DEF ParseUkAddress, PlaceMiddle, NoAddress
  <2>2. DOMAIN GetAddress = AddressFields
    BY <2>1 DEF GetAddress, NoAddress
  <2>3. DOMAIN ManagementContactDetails = ContactFields
    BY DEF ManagementContactDetails, NoContact
  <2>4. DOMAIN SubmitterDetails = {"fullName", "email", "phone", "title"}
    BY DEF SubmitterDetails
  <2>5. /\ o.companyDetails.registeredAddress = ParseUkAddress(Answer("Registered office address"))
        /\ o.companyDetails.address = GetAddress
        /\ o.submitterContactDetails = SubmitterDetails
        /\ o.managementContactDetails = ManagementContactDetails
    BY DEF ParseOrgSubmission, CompanyDetails
  <2> QED BY <1>2, <2>1, <2>2, <2>3, <2>4, <2>5 DEF ContactFields
<1> DEFINE keys == {"id", "orgId", "wasteProcessingTypes", "reprocessingNations"}
           a1 == Keys(keys, "form")
           a2 == Known(<<"businessType">>, o.businessType)
           a3 == Field(<<"companyDetails">>, "object")
           a4 == Leaf(<<"companyDetails", "name">>, o.companyDetails.name)
           a5 == Leaf(<<"companyDetails", "tradingName">>, o.companyDetails.tradingName)
           a6 == Leaf(<<"companyDetails", "registrationNumber">>, o.companyDetails.registrationNumber)
           a7 == Leaves(<<"companyDetails", "registeredAddress">>, o.companyDetails.registeredAddress)
           a8 == Leaves(<<"companyDetails", "address">>, o.companyDetails.address)
           a9 == Field(<<"submitterContactDetails">>, "object")
           a10 == Leaves(<<"submitterContactDetails">>, o.submitterContactDetails)
           a11 == IF o.hasManagementContact THEN Field(<<"managementContactDetails">>, "object") ELSE <<>>
           a12 == IF o.hasManagementContact
                  THEN Leaves(<<"managementContactDetails">>, o.managementContactDetails) ELSE <<>>
           a13 == CASE o.formSubmissionTime = None -> <<>>
                    [] o.formSubmissionTime = "invalid" -> Field(<<"formSubmissionTime">>, Bad)
                    [] OTHER -> Field(<<"formSubmissionTime">>, "form")
           a14 == Known(<<"submittedToRegulator">>, o.submittedToRegulator)
           a15 == PartnershipContent(o.partnership)
           parts == {a1, a2, a3, a4, a5, a6, a7, a8, a9, a10, a11, a12, a13, a14, a15}
<1>4. c = Together(parts)
  BY DEF ContentOf
<1>5. \A n \in FormFields : <<n>> \in Seq(Names) /\ <<n>> # <<>> /\ <<n>>[1] = n
  BY <1>1, OneName
<1>6. Rooted(a1, keys) /\ Flat(a1)
  <2>1. keys \subseteq FormFields
    BY DEF FormFields
  <2> HIDE DEF keys
  <2>2. DOMAIN a1 = {<<n>> : n \in keys}
    BY DEF Keys
  <2>3. ASSUME NEW p \in DOMAIN a1 PROVE p \in Seq(Names) /\ p # <<>> /\ p[1] \in keys /\ p = <<p[1]>>
    <3>1. PICK n \in keys : p = <<n>>
      BY <2>2
    <3>2. <<n>> \in Seq(Names) /\ <<n>> # <<>> /\ <<n>>[1] = n
      BY <1>5, <2>1
    <3> QED BY <3>1, <3>2
  <2> QED BY <2>3 DEF Rooted, Flat
<1>7. /\ Rooted(a2, {"businessType"}) /\ Flat(a2)
      /\ Rooted(a14, {"submittedToRegulator"}) /\ Flat(a14)
      /\ Rooted(a13, {"formSubmissionTime"}) /\ Flat(a13)
  <2>1. {"businessType", "submittedToRegulator", "formSubmissionTime"} \subseteq FormFields
    BY DEF FormFields
  <2>2. Rooted(a2, {"businessType"}) /\ Rooted(a14, {"submittedToRegulator"})
    BY <1>5, <2>1, RootedField
  <2>3. Flat(a2) /\ Flat(a14)
    BY <1>1, <2>1, FlatField
  <2>4. /\ Rooted(<<>>, {"formSubmissionTime"}) /\ Flat(<<>>)
        /\ \A v : Rooted(Field(<<"formSubmissionTime">>, v), {"formSubmissionTime"})
        /\ \A v : Flat(Field(<<"formSubmissionTime">>, v))
    BY <1>1, <1>5, <2>1, RootedField, FlatField
  <2>5. Rooted(a13, {"formSubmissionTime"}) /\ Flat(a13)
    BY <2>4
  <2> QED BY <2>2, <2>3, <2>5
<1>8. \A n \in {"name", "tradingName", "registrationNumber", "registeredAddress", "address"} :
         <<"companyDetails", n>> \in Seq(Names) /\ <<"companyDetails", n>> # <<>>
         /\ <<"companyDetails", n>>[1] = "companyDetails"
  BY <1>1
<1>9. /\ Rooted(a3, {"companyDetails"}) /\ Rooted(a4, {"companyDetails"}) /\ Rooted(a5, {"companyDetails"})
      /\ Rooted(a6, {"companyDetails"})
      /\ <<"companyDetails">> \in DOMAIN a3
  <2>1. "companyDetails" \in FormFields
    BY DEF FormFields
  <2>2. Rooted(a3, {"companyDetails"}) /\ <<"companyDetails">> \in DOMAIN a3
    BY <1>1, <1>5, <2>1, RootedField, FlatField
  <2>3. Rooted(a4, {"companyDetails"}) /\ Rooted(a5, {"companyDetails"}) /\ Rooted(a6, {"companyDetails"})
    BY <1>8, RootedField
  <2> QED BY <2>2, <2>3
<1>10. Rooted(a7, {"companyDetails"}) /\ Rooted(a8, {"companyDetails"})
  BY <1>3, <1>8, RootedLeaves
<1>11. /\ Rooted(a9, {"submitterContactDetails"}) /\ Rooted(a10, {"submitterContactDetails"})
       /\ <<"submitterContactDetails">> \in DOMAIN a9
  <2>1. "submitterContactDetails" \in FormFields
    BY DEF FormFields
  <2> QED BY <1>1, <1>3, <1>5, <2>1, RootedField, RootedLeaves, FlatField
<1>12. /\ Rooted(a11, {"managementContactDetails"}) /\ Rooted(a12, {"managementContactDetails"})
       /\ DOMAIN a12 # {} => <<"managementContactDetails">> \in DOMAIN a11
  <2>1. "managementContactDetails" \in FormFields
    BY DEF FormFields
  <2>2. /\ Rooted(<<>>, {"managementContactDetails"})
        /\ Rooted(Field(<<"managementContactDetails">>, "object"), {"managementContactDetails"})
        /\ <<"managementContactDetails">> \in DOMAIN Field(<<"managementContactDetails">>, "object")
    BY <1>1, <1>5, <2>1, RootedField, FlatField
  <2>3. Rooted(Leaves(<<"managementContactDetails">>, o.managementContactDetails), {"managementContactDetails"})
    BY <1>3, <1>5, <2>1, RootedLeaves
  <2>4. DOMAIN <<>> = {}
    OBVIOUS
  <2> QED BY <2>2, <2>3, <2>4
<1>13. /\ Rooted(a15, {"partnership"})
       /\ DOMAIN a15 # {} => <<"partnership">> \in DOMAIN a15
  BY PartnershipPaths
<1>14. Flat(a3) /\ Flat(a9) /\ Flat(a11)
  <2>1. {"companyDetails", "submitterContactDetails", "managementContactDetails"} \subseteq Names
    BY DEF Names
  <2> QED BY <2>1, FlatField
<1> HIDE DEF keys, a1, a2, a3, a4, a5, a6, a7, a8, a9, a10, a11, a12, a13, a14, a15
<1>15. \A s \in parts : Rooted(s, FormFields)
  <2>1. Rooted(a1, FormFields)
    BY <1>6, RootedWidely DEF keys, FormFields
  <2>2. \A n \in FormFields : \A s : Rooted(s, {n}) => Rooted(s, FormFields)
    BY RootedWidely
  <2>3. {"businessType", "companyDetails", "submitterContactDetails", "managementContactDetails",
         "formSubmissionTime", "submittedToRegulator", "partnership"} \subseteq FormFields
    BY DEF FormFields
  <2>4. Rooted(a2, FormFields) /\ Rooted(a13, FormFields) /\ Rooted(a14, FormFields)
    BY <1>7, <2>2, <2>3
  <2>5. /\ Rooted(a3, FormFields) /\ Rooted(a4, FormFields) /\ Rooted(a5, FormFields)
        /\ Rooted(a6, FormFields) /\ Rooted(a7, FormFields) /\ Rooted(a8, FormFields)
    BY <1>9, <1>10, <2>2, <2>3
  <2>6. /\ Rooted(a9, FormFields) /\ Rooted(a10, FormFields) /\ Rooted(a11, FormFields)
        /\ Rooted(a12, FormFields) /\ Rooted(a15, FormFields)
    BY <1>11, <1>12, <1>13, <2>2, <2>3
  <2> QED BY <2>1, <2>4, <2>5, <2>6
<1>16. Rooted(c, FormFields)
  <2> HIDE DEF parts
  <2> QED BY <1>4, <1>15, RootedTogether
<1>17. \A s \in parts : Headed(s, c)
  <2>1. \A s : DOMAIN s = {} => Headed(s, c)
    BY DEF Headed
  <2>2. \A s \in parts : Flat(s) => Headed(s, c)
    <3> HIDE DEF parts
    <3> QED BY <1>4, FlatIsHeaded
  <2>3. \A s, t \in parts : \A n : Rooted(s, {n}) /\ <<n>> \in DOMAIN t => Headed(s, c)
    <3> HIDE DEF parts
    <3> QED BY <1>4, HeadedParts
  <2>4. Headed(a1, c) /\ Headed(a2, c) /\ Headed(a3, c) /\ Headed(a9, c) /\ Headed(a11, c) /\ Headed(a13, c)
        /\ Headed(a14, c)
    BY <1>6, <1>7, <1>14, <2>2
  <2>5. Headed(a4, c) /\ Headed(a5, c) /\ Headed(a6, c) /\ Headed(a7, c) /\ Headed(a8, c)
    BY <1>9, <1>10, <2>3
  <2>6. Headed(a10, c)
    BY <1>11, <2>3
  <2>7. Headed(a12, c)
    BY <1>12, <2>1, <2>3
  <2>8. Headed(a15, c)
    BY <1>13, <2>1, <2>3
  <2> QED BY <2>4, <2>5, <2>6, <2>7, <2>8
<1>18. Headed(c, c)
  <2> HIDE DEF parts
  <2>1. DOMAIN c = UNION {DOMAIN r : r \in parts}
    BY <1>4, PartsTogether
  <2> QED BY <1>17, <2>1 DEF Headed
<1> QED BY <1>16, <1>18
--------------------------------------------------------------------------------
(* What the upsert stores *)

LEMMA FormIsSound ==
    ASSUME NEW o, o = ParseOrgSubmission, DOMAIN o.partnership.partners \subseteq DOMAIN Elements, Valid(o),
           NEW v, v = StripUnknown(OrganisationInsertSchema, ContentOf(o)),
           NEW w, w = Without(v, {"id", "version", "schemaVersion"}),
           NEW x, x = Without(w, Lists)
    PROVE  /\ HasPaths(v) /\ Whole(<<>>, v) /\ Named(v) \subseteq FormFields
           /\ HasPaths(w) /\ FieldsKnown(<<>>, w) /\ Named(w) \subseteq FormFields
           /\ SoundUpdate(<<>>, x)
<1> PICK c : c = ContentOf(o)
  OBVIOUS
<1>1. Rooted(c, FormFields) /\ Headed(c, c)
  BY ContentPaths
<1>2. HasPaths(c)
  BY <1>1 DEF Rooted, HasPaths
<1>3. HasPaths(v) /\ Whole(<<>>, v)
  <2>1. IsInsert(c) /\ v = StripUnknown(OrganisationInsertSchema, c)
    BY DEF Valid
  <2> QED BY <1>2, <2>1, InsertIsWhole
<1>4. /\ \A p : p \in DOMAIN v <=> p \in DOMAIN c /\ Generic(p) \in DOMAIN OrganisationInsertSchema
      /\ \A p \in DOMAIN v : v[p] = c[p]
  BY StrippedFields
<1>5. Named(v) \subseteq FormFields
  BY <1>1, <1>4 DEF Named, Rooted
<1>6. ASSUME NEW p \in DOMAIN v, <<p[1]>> \in DOMAIN OrganisationInsertSchema PROVE <<p[1]>> \in DOMAIN v
  <2>1. <<p[1]>> \in DOMAIN c
    BY <1>1, <1>4 DEF Headed
  <2>2. p[1] \in Names
    BY <1>3, TakenApart DEF HasPaths
  <2>3. Generic(<<p[1]>>) = <<p[1]>>
    BY <1>6, <2>2, NameOfField
  <2> QED BY <1>4, <1>6, <2>1, <2>3
<1>7. /\ \A p : p \in DOMAIN w <=> p \in DOMAIN v /\ p[1] \notin {"id", "version", "schemaVersion"}
      /\ \A p \in DOMAIN w : w[p] = v[p]
  BY DEF Without
<1>8. HasPaths(w) /\ FieldsKnown(<<>>, w) /\ Named(w) \subseteq FormFields
  <2>1. FieldsKnown(<<>>, v)
    BY <1>3 DEF Whole
  <2>2. FieldsKnown(<<>>, w)
    BY <1>7, <2>1 DEF FieldsKnown
  <2>3. HasPaths(w)
    BY <1>3, <1>7 DEF HasPaths
  <2>4. Named(w) \subseteq FormFields
    BY <1>5, <1>7 DEF Named
  <2> QED BY <2>2, <2>3, <2>4
<1>9. SoundUpdate(<<>>, w)
  <2>1. \A p \in DOMAIN v : Complete(<<>>, v, p)
    BY <1>3 DEF Whole
  <2> QED BY <1>3, <1>6, <1>8, <2>1, WithoutIsSound
<1>10. /\ \A p : p \in DOMAIN x <=> p \in DOMAIN w /\ p[1] \notin Lists
       /\ \A p \in DOMAIN x : x[p] = w[p]
  BY DEF Without
<1>11. SoundUpdate(<<>>, x)
  <2>1. FieldsKnown(<<>>, x)
    BY <1>8, <1>10 DEF FieldsKnown
  <2>2. \A p \in DOMAIN w : Complete(<<>>, w, p)
    BY <1>9 DEF SoundUpdate
  <2>3. \A p \in DOMAIN w : <<p[1]>> \in DOMAIN OrganisationInsertSchema => <<p[1]>> \in DOMAIN w
    <3> TAKE p \in DOMAIN w
    <3>1. p[1] \in Names
      BY <1>8, TakenApart DEF HasPaths
    <3>2. Append(<<>>, p[1]) = <<p[1]>>
      BY <3>1, OneName
    <3>3. Append(<<>>, p[1]) \in DOMAIN OrganisationInsertSchema => <<p[1]>> \in DOMAIN w
      BY <1>9 DEF SoundUpdate
    <3> QED BY <3>2, <3>3
  <2> QED BY <1>8, <2>1, <2>2, <2>3, WithoutIsSound
<1> QED BY <1>3, <1>5, <1>8, <1>11

LEMMA StatusIsGood ==
    ASSUME NEW place, NEW content, FieldsKnown(place, content)
    PROVE  StatusOf(content) # Bad
BY DEF FieldsKnown, StatusOf, None, Bad
--------------------------------------------------------------------------------
(* What an update stores *)

\* What the invariant does not say, as provers do not know that names are strings.
TypedItem(item) == HasPaths(item.content)
TypedDocument(d) ==
    /\ HasPaths(d.content)
    /\ \A list \in Lists : \A k \in 1..Len(d.items[list]) : TypedItem(d.items[list][k])

\* An item that may be added to a list or change one of its items.
SoundItemUpdate(list, update) ==
    /\ HasPaths(update) /\ Whole(<<list, "*">>, update) /\ SoundUpdate(<<list, "*">>, update)
    /\ <<"id">> \in DOMAIN update

LEMMA MergedIsSound ==
    ASSUME NEW list \in Lists,
           NEW existing, IsList(existing), Distinct(existing),
           \A k \in 1..Len(existing) : SoundItem(list, existing[k]) /\ TypedItem(existing[k]),
           NEW updates, IsList(updates), \A j \in 1..Len(updates) : SoundItemUpdate(list, updates[j]),
           NEW merged, merged = MergeItems(existing, updates)
    PROVE  /\ IsList(merged) /\ Distinct(merged)
           /\ \A k \in 1..Len(merged) : SoundItem(list, merged[k]) /\ TypedItem(merged[k])
<1>1. PICK n \in Nat : n = Len(existing) /\ DOMAIN existing = 1..n
  BY ListIsSeq
<1>2. IsList(merged)
  <2>1. Merges(existing, updates, merged)
    BY MergedItems
  <2> QED BY <2>1 DEF Merges
<1>3. PICK m \in Nat : m = Len(merged) /\ DOMAIN merged = 1..m
  BY <1>2, ListIsSeq
<1>4. n <= m
  <2>1. Merges(existing, updates, merged)
    BY MergedItems
  <2>2. Len(existing) <= Len(merged)
    BY <2>1, Zenon DEF Merges
  <2> QED BY <1>1, <1>3, <2>2, Zenon
<1>5. \A k \in 1..n :
         \/ merged[k] = existing[k]
         \/ \E j \in 1..Len(updates) :
              /\ IdOf(updates[j]) = IdOf(existing[k].content)
              /\ merged[k] = [content |-> Spread(existing[k].content, updates[j]),
                              statuses |-> StatusHistoryWithChanges(updates[j], existing[k].statuses)]
  <2>1. Merges(existing, updates, merged)
    BY MergedItems
  <2> QED BY <1>1, <2>1, Zenon DEF Merges
<1>6. \A k \in (n + 1)..m :
         /\ \E j \in 1..Len(updates) :
              merged[k] = [content |-> updates[j], statuses |-> InitialStatusHistory]
         /\ \A i \in 1..n : IdOf(existing[i].content) # IdOf(merged[k].content)
         /\ \A i \in (n + 1)..m :
              IdOf(merged[i].content) = IdOf(merged[k].content) => i = k
  <2>1. Merges(existing, updates, merged)
    BY MergedItems
  <2> QED BY <1>1, <1>3, <2>1, Zenon DEF Merges
<1> PICK place \in Seq(Names) : place = <<list, "*">>
  <2>1. PICK S : S = Names
    OBVIOUS
  <2>2. list \in S /\ "*" \in S
    BY <2>1, ElementNames, Star
  <2>3. <<list, "*">> \in Seq(S)
    BY <2>2
  <2> QED BY <2>1, <2>3
<1>7. ASSUME NEW k \in 1..n
      PROVE  /\ SoundItem(list, merged[k]) /\ TypedItem(merged[k])
             /\ IdOf(merged[k].content) = IdOf(existing[k].content)
  <2>1. SoundItem(list, existing[k]) /\ TypedItem(existing[k])
    BY <1>1
  <2>2. CASE merged[k] = existing[k]
    BY <2>1, <2>2
  <2>3. ASSUME NEW j \in 1..Len(updates), IdOf(updates[j]) = IdOf(existing[k].content),
               merged[k] = [content |-> Spread(existing[k].content, updates[j]),
                            statuses |-> StatusHistoryWithChanges(updates[j], existing[k].statuses)]
        PROVE  /\ SoundItem(list, merged[k]) /\ TypedItem(merged[k])
               /\ IdOf(merged[k].content) = IdOf(existing[k].content)
    <3> PICK old : old = existing[k].content
      OBVIOUS
    <3> PICK update : update = updates[j]
      OBVIOUS
    <3> PICK spread : spread = Spread(old, update)
      OBVIOUS
    <3>1. merged[k].content = spread /\ merged[k].statuses = StatusHistoryWithChanges(update, existing[k].statuses)
      BY <2>3
    <3>2. HasPaths(old) /\ Whole(place, old) /\ SoundHistory(existing[k].statuses)
      BY <2>1 DEF SoundItem, TypedItem
    <3>3. SoundUpdate(place, update) /\ <<"id">> \in DOMAIN update
      BY DEF SoundItemUpdate
    <3>4. HasPaths(spread) /\ Whole(place, spread)
      BY <3>2, <3>3, SpreadIsWhole
    <3>5. SoundHistory(merged[k].statuses)
      <4>1. StatusOf(update) # Bad
        BY <3>3, StatusIsGood DEF SoundUpdate
      <4> QED BY <3>1, <3>2, <4>1, HistoryGrows
    <3>6. spread[<<"id">>] = update[<<"id">>]
      BY <3>3, SpreadFields
    <3> QED BY <2>3, <3>1, <3>4, <3>5, <3>6 DEF SoundItem, TypedItem, IdOf
  <2> QED BY <1>5, <2>1, <2>2, <2>3
<1>8. ASSUME NEW k \in (n + 1)..m PROVE SoundItem(list, merged[k]) /\ TypedItem(merged[k])
  <2>1. PICK j \in 1..Len(updates) : merged[k] = [content |-> updates[j], statuses |-> InitialStatusHistory]
    BY <1>6
  <2> QED BY <2>1, NewHistory DEF SoundItem, TypedItem, SoundItemUpdate
<1>9. \A k \in 1..m : k \in 1..n \/ k \in (n + 1)..m
  OBVIOUS
<1>10. Distinct(merged)
  <2>1. SUFFICES ASSUME NEW j \in 1..m, NEW k \in 1..m, IdOf(merged[j].content) = IdOf(merged[k].content)
                 PROVE  j = k
    BY <1>3 DEF Distinct
  <2>2. CASE j \in 1..n /\ k \in 1..n
    BY <1>1, <1>7, <2>1, <2>2 DEF Distinct
  <2>3. CASE j \in (n + 1)..m /\ k \in 1..n
    BY <1>6, <1>7, <2>1, <2>3
  <2>4. CASE j \in 1..n /\ k \in (n + 1)..m
    BY <1>6, <1>7, <2>1, <2>4
  <2>5. CASE j \in (n + 1)..m /\ k \in (n + 1)..m
    BY <1>6, <2>1, <2>5
  <2> QED BY <1>9, <2>2, <2>3, <2>4, <2>5
<1> QED BY <1>2, <1>3, <1>7, <1>8, <1>9, <1>10
\* What of the updates concerns the organisation itself.
OwnUpdate(updates) == Without(updates, Lists)

\* Updates that may be written into a sound document.
SoundUpdates(updates) ==
    /\ HasPaths(updates) /\ SoundUpdate(<<>>, OwnUpdate(updates)) /\ StatusOf(updates) # Bad
    /\ \A list \in Lists : <<list>> \in DOMAIN updates =>
          \A j \in 1..Len(ItemsOf(updates, list)) : SoundItemUpdate(list, ItemsOf(updates, list)[j])

LEMMA UpdatedFields ==
    ASSUME NEW d, NEW updates, NEW e, e = Updated(d, updates)
    PROVE  /\ e.version = d.version + 1
           /\ e.content = Spread(d.content, OwnUpdate(updates))
           /\ e.statuses = StatusHistoryWithChanges(updates, d.statuses)
           /\ DOMAIN e.items = Lists
           /\ \A list \in Lists :
                e.items[list] = IF <<list>> \in DOMAIN updates
                                THEN MergeItems(d.items[list], ItemsOf(updates, list)) ELSE d.items[list]
BY DEF Updated, OwnUpdate, MergeSubcollection

LEMMA UpdatedIsSound ==
    ASSUME NEW d, SoundDocument(d), TypedDocument(d), NEW updates, SoundUpdates(updates),
           NEW e, e = Updated(d, updates), \A list \in Lists : Len(e.items[list]) <= Len(Elements)
    PROVE  SoundDocument(e) /\ TypedDocument(e)
<1>1. /\ e.content = Spread(d.content, OwnUpdate(updates))
      /\ e.statuses = StatusHistoryWithChanges(updates, d.statuses)
      /\ DOMAIN e.items = Lists
      /\ \A list \in Lists :
           e.items[list] = IF <<list>> \in DOMAIN updates
                           THEN MergeItems(d.items[list], ItemsOf(updates, list)) ELSE d.items[list]
  BY UpdatedFields
<1>2. SoundHistory(e.statuses)
  BY <1>1, HistoryGrows DEF SoundDocument, SoundUpdates
<1>3. HasPaths(e.content) /\ Whole(<<>>, e.content) /\ Named(e.content) \cap Lists = {}
  <2>1. HasPaths(d.content) /\ Whole(<<>>, d.content) /\ Named(d.content) \cap Lists = {}
    BY DEF SoundDocument, TypedDocument
  <2>2. PICK own : own = OwnUpdate(updates)
    OBVIOUS
  <2>3. PICK root \in Seq(Names) : root = <<>>
    BY EmptySeq
  <2>4. SoundUpdate(root, own) /\ Whole(root, d.content)
    BY <2>1, <2>2, <2>3 DEF SoundUpdates
  <2>5. PICK content : content = e.content
    OBVIOUS
  <2>6. content = Spread(d.content, own)
    BY <1>1, <2>2, <2>5
  <2>7. HasPaths(content) /\ Whole(root, content) /\ Named(content) \subseteq Named(d.content) \cup Named(own)
    BY <2>1, <2>4, <2>6, SpreadIsWhole
  <2>8. Named(own) \cap Lists = {}
    BY <2>2 DEF OwnUpdate, Without, Named
  <2> QED BY <2>1, <2>3, <2>5, <2>7, <2>8
<1>4. ASSUME NEW list \in Lists
      PROVE  LET items == e.items[list]
             IN  /\ IsList(items) /\ Len(items) <= Len(Elements)
                 /\ \A k \in 1..Len(items) : SoundItem(list, items[k]) /\ TypedItem(items[k])
                 /\ Distinct(items)
  <2>1. PICK old : old = d.items[list]
    OBVIOUS
  <2>2. /\ IsList(old) /\ Distinct(old)
        /\ \A k \in 1..Len(old) : SoundItem(list, old[k]) /\ TypedItem(old[k])
    BY <2>1 DEF SoundDocument, TypedDocument
  <2>3. CASE <<list>> \notin DOMAIN updates
    BY <1>1, <2>1, <2>2, <2>3
  <2>4. CASE <<list>> \in DOMAIN updates
    <3>1. PICK asks : asks = ItemsOf(updates, list)
      OBVIOUS
    <3>2. PICK merged : merged = e.items[list]
      OBVIOUS
    <3>3. merged = MergeItems(old, asks)
      BY <1>1, <2>1, <2>4, <3>1, <3>2
    <3>4. IsList(asks)
      BY <3>1, ItemsAreElements
    <3>5. \A j \in 1..Len(asks) : SoundItemUpdate(list, asks[j])
      BY <2>4, <3>1 DEF SoundUpdates
    <3>6. /\ IsList(merged) /\ Distinct(merged)
          /\ \A k \in 1..Len(merged) : SoundItem(list, merged[k]) /\ TypedItem(merged[k])
      BY <2>2, <3>3, <3>4, <3>5, MergedIsSound
    <3> QED BY <3>2, <3>6
  <2> QED BY <2>3, <2>4
<1> QED BY <1>1, <1>2, <1>3, <1>4 DEF SoundDocument, TypedDocument

\* Where a form is stored and nothing was added to it, that is an organisation without
\* registrations and accreditations.
LEMMA InsertedIsSound ==
    ASSUME NEW v, HasPaths(v), Whole(<<>>, v), Named(v) \subseteq FormFields
    PROVE  SoundDocument(InsertedDocument(v)) /\ TypedDocument(InsertedDocument(v))
<1> PICK d : d = InsertedDocument(v)
  OBVIOUS
<1>1. d.content = v /\ d.statuses = InitialStatusHistory /\ DOMAIN d.items = Lists
      /\ \A list \in Lists : d.items[list] = <<>>
  BY DEF InsertedDocument
<1>2. PICK none : none = <<>>
  OBVIOUS
<1>3. Len(none) = 0 /\ DOMAIN none = {} /\ none \in Seq({})
  BY <1>2
<1>4. IsList(none) /\ Distinct(none)
  BY <1>3, SeqIsList DEF Distinct
<1>5. Len(Elements) \in Nat
  BY ElementsAssumption
<1>6. Named(d.content) \cap Lists = {}
  BY <1>1 DEF Lists, FormFields
<1>7. SoundHistory(d.statuses)
  BY <1>1, NewHistory
<1>8. \A list \in Lists :
         /\ IsList(d.items[list]) /\ Len(d.items[list]) = 0 /\ Distinct(d.items[list])
  BY <1>1, <1>2, <1>3, <1>4
<1>9. \A k : k \notin 1..0
  OBVIOUS
<1>10. SoundDocument(d)
  BY <1>1, <1>5, <1>6, <1>7, <1>8, <1>9 DEF SoundDocument
<1>11. TypedDocument(d)
  BY <1>1, <1>8, <1>9 DEF TypedDocument
<1> QED BY <1>10, <1>11

\* What is left of an accepted fragment may be written.
LEMMA UpdatesAreSound ==
    ASSUME NEW content, HasPaths(content), Closed(content), IsUpdate(content),
           NEW u, u = StripUnknown(OrganisationUpdateSchema, content)
    PROVE  SoundUpdates(u)
<1>1. /\ HasPaths(u)
      /\ \A p \in DOMAIN u : u[p] # Bad
  BY UpdateIsSound
<1>2. SoundUpdate(<<>>, OwnUpdate(u))
  BY RootIsSound DEF OwnUpdate
<1>3. StatusOf(u) # Bad
  BY <1>1 DEF StatusOf, None, Bad
<1>4. ASSUME NEW list \in Lists, NEW j \in 1..Len(ItemsOf(u, list))
      PROVE  SoundItemUpdate(list, ItemsOf(u, list)[j])
  <2>1. PICK items : items = ItemsOf(u, list)
    OBVIOUS
  <2>2. PICK i \in DOMAIN Elements :
            /\ <<list, Elements[i]>> \in DOMAIN u
            /\ ItemsOf(u, list)[j] = At(u, <<list, Elements[i]>>)
    BY ItemsAreElements
  <2>3. Elements[i] \in Range(Elements)
    BY DEF Range
  <2>4. PICK item : item = At(u, <<list, Elements[i]>>)
    OBVIOUS
  <2>5. /\ HasPaths(item) /\ Whole(<<list, "*">>, item) /\ SoundUpdate(<<list, "*">>, item)
        /\ <<"id">> \in DOMAIN item
    BY <2>2, <2>3, <2>4, ItemIsSound
  <2> QED BY <2>2, <2>4, <2>5 DEF SoundItemUpdate
<1> QED BY <1>1, <1>2, <1>3, <1>4 DEF SoundUpdates

\* The handler of the PUT takes whole fields out of a fragment.
LEMMA SanitisedPaths ==
    ASSUME NEW fragment, HasPaths(fragment), Closed(fragment),
           NEW content, content = Sanitised(fragment)
    PROVE  HasPaths(content) /\ Closed(content)
<1>1. \A p : p \in DOMAIN content <=> p \in DOMAIN fragment /\ p[1] \notin {"version", "id", "schemaVersion"}
  BY DEF Sanitised, Without
<1>2. HasPaths(content)
  BY <1>1 DEF HasPaths
<1>3. ASSUME NEW p \in DOMAIN content, NEW n \in 1..Len(p) PROVE SubSeq(p, 1, n) \in DOMAIN content
  <2>1. p \in Seq(Names) /\ p # <<>> /\ SubSeq(p, 1, n) \in DOMAIN fragment
    BY <1>1 DEF HasPaths, Closed
  <2>2. SubSeq(p, 1, n)[1] = p[1]
    <3>1. \A i \in 1..n : p[i] \in Names
      BY <2>1
    <3>2. \A i \in 1..(n - 1 + 1) : SubSeq(p, 1, n)[i] = p[1 + i - 1]
      BY <3>1, <2>1, SubSeqProperties
    <3>3. 1 \in 1..(n - 1 + 1) /\ 1 + 1 - 1 = 1
      BY <2>1
    <3> QED BY <3>2, <3>3
  <2> QED BY <1>1, <2>1, <2>2
<1> QED BY <1>2, <1>3 DEF Closed

LEMMA FragmentPaths ==
    ASSUME NEW fragment, IsFragment(fragment)
    PROVE  HasPaths(fragment) /\ Closed(fragment)
<1>1. HasPaths(fragment)
  BY StringsAreNames DEF IsFragment, HasPaths
<1> QED BY <1>1 DEF IsFragment, Closed

\* What a start upserts may be written, too.
LEMMA FormUpdatesAreSound ==
    ASSUME NEW o, o = ParseOrgSubmission, DOMAIN o.partnership.partners \subseteq DOMAIN Elements, Valid(o),
           NEW v, v = StripUnknown(OrganisationInsertSchema, ContentOf(o)),
           NEW w, w = Without(v, {"id", "version", "schemaVersion"})
    PROVE  SoundUpdates(w) /\ \A list \in Lists : <<list>> \notin DOMAIN w
<1>1. /\ HasPaths(w) /\ FieldsKnown(<<>>, w) /\ Named(w) \subseteq FormFields
      /\ SoundUpdate(<<>>, OwnUpdate(w))
  <2>1. PICK x : x = Without(w, Lists)
    OBVIOUS
  <2>2. /\ HasPaths(v) /\ Whole(<<>>, v) /\ Named(v) \subseteq FormFields
        /\ HasPaths(w) /\ FieldsKnown(<<>>, w) /\ Named(w) \subseteq FormFields
        /\ SoundUpdate(<<>>, x)
    BY <2>1, FormIsSound
  <2> QED BY <2>1, <2>2 DEF OwnUpdate
<1>2. StatusOf(w) # Bad
  BY <1>1, StatusIsGood
<1>3. ASSUME NEW list \in Lists, <<list>> \in DOMAIN w PROVE FALSE
  <2>1. <<list>>[1] = list
    OBVIOUS
  <2>2. list \in FormFields
    BY <1>1, <1>3, <2>1 DEF Named
  <2> QED BY <2>2 DEF Lists, FormFields
<1> QED BY <1>1, <1>2, <1>3 DEF SoundUpdates
--------------------------------------------------------------------------------
(* What a GET shows *)

LEMMA PathInItem ==
    ASSUME NEW list \in Names, NEW e \in Names, NEW q \in Seq(Names), q # <<>>,
           NEW p, p = <<list, e>> \o q
    PROVE  /\ p \in Seq(Names) /\ Len(p) \in Nat /\ Len(p) > 2 /\ p[1] = list /\ p[2] = e
           /\ SubSeq(p, 3, Len(p)) = q
<1> PICK path : path = <<list, e>>
  OBVIOUS
<1>1. path \in Seq(Names) /\ Len(path) = 2 /\ path[1] = list /\ path[2] = e
  OBVIOUS
<1>2. /\ path \o q \in Seq(Names) /\ Len(path \o q) = Len(path) + Len(q)
      /\ \A i \in 1..Len(path) : (path \o q)[i] = path[i]
      /\ SubSeq(path \o q, Len(path) + 1, Len(path \o q)) = q
  BY <1>1, Prefixed
<1>3. Len(q) \in Nat \ {0}
  BY TakenApart
<1> QED BY <1>1, <1>2, <1>3

ListsItems(s, list, contents) ==
    /\ <<list>> \in DOMAIN s /\ s[<<list>>] = "object"
    /\ \A k \in DOMAIN contents : <<list, Elements[k]>> \in DOMAIN s /\ s[<<list, Elements[k]>>] = "object"
    /\ \A k \in DOMAIN contents : \A q \in DOMAIN contents[k] :
         <<list, Elements[k]>> \o q \in DOMAIN s /\ s[<<list, Elements[k]>> \o q] = contents[k][q]
    /\ \A p \in DOMAIN s :
         \/ p = <<list>>
         \/ \E k \in DOMAIN contents : p = <<list, Elements[k]>>
         \/ \E k \in DOMAIN contents : \E q \in DOMAIN contents[k] : p = <<list, Elements[k]>> \o q

LEMMA ItemisedFields ==
    ASSUME NEW list \in Names, NEW contents, DOMAIN contents \subseteq DOMAIN Elements,
           \A k \in DOMAIN contents : HasPaths(contents[k]),
           NEW s, s = Itemised(<<list>>, contents)
    PROVE  ListsItems(s, list, contents)
<1>1. \A k \in DOMAIN contents : Elements[k] \in Names
  BY ElementNames DEF Range
<1>2. \A k \in DOMAIN contents : Append(<<list>>, Elements[k]) = <<list, Elements[k]>>
  BY <1>1, ShortPaths
<1> DEFINE All == {<<list>>} \cup {Append(<<list>>, Elements[k]) : k \in DOMAIN contents}
         \cup UNION {{Append(<<list>>, Elements[k]) \o q : q \in DOMAIN contents[k]} : k \in DOMAIN contents}
<1>3. Len(<<list>>) = 1
  OBVIOUS
<1>4. PICK n : n = Len(<<list>>) + 1
  OBVIOUS
<1>5. n = 2
  BY <1>4
<1>6. s = [p \in All |-> IF Len(p) <= n THEN "object"
             ELSE contents[CHOOSE k \in DOMAIN contents : Elements[k] = p[n]][SubSeq(p, n + 1, Len(p))]]
  <2>1. Itemised(<<list>>, contents) =
           [p \in All |-> IF Len(p) <= Len(<<list>>) + 1 THEN "object"
               ELSE contents[CHOOSE k \in DOMAIN contents : Elements[k] = p[Len(<<list>>) + 1]]
                            [SubSeq(p, Len(<<list>>) + 1 + 1, Len(p))]]
    BY DEF Itemised
  <2> HIDE DEF All
  <2> QED BY <1>4, <2>1, Zenon
<1>7. n + 1 = 3
  BY <1>5
<1>8. s = [p \in All |-> IF Len(p) <= 2 THEN "object"
             ELSE contents[CHOOSE k \in DOMAIN contents : Elements[k] = p[2]][SubSeq(p, 3, Len(p))]]
  BY <1>5, <1>6, <1>7, Zenon
<1>9. /\ <<list>> \in All
      /\ \A k \in DOMAIN contents : <<list, Elements[k]>> \in All
  <2>1. \A k \in DOMAIN contents : Append(<<list>>, Elements[k]) \in All
    OBVIOUS
  <2> QED BY <1>2, <2>1, Zenon
<1>10. ASSUME NEW k \in DOMAIN contents, NEW q \in DOMAIN contents[k] PROVE <<list, Elements[k]>> \o q \in All
  <2>1. Append(<<list>>, Elements[k]) \o q \in {Append(<<list>>, Elements[k]) \o r : r \in DOMAIN contents[k]}
    BY Zenon
  <2>2. Append(<<list>>, Elements[k]) \o q \in
           UNION {{Append(<<list>>, Elements[j]) \o r : r \in DOMAIN contents[j]} : j \in DOMAIN contents}
    BY <2>1, Zenon
  <2>3. Append(<<list>>, Elements[k]) \o q \in All
    BY <2>2, Zenon
  <2> QED BY <1>2, <2>3, Zenon
<1>11. ASSUME NEW p \in All
       PROVE  \/ p = <<list>>
              \/ \E k \in DOMAIN contents : p = <<list, Elements[k]>>
              \/ \E k \in DOMAIN contents : \E q \in DOMAIN contents[k] : p = <<list, Elements[k]>> \o q
  <2>1. CASE p \in {Append(<<list>>, Elements[k]) : k \in DOMAIN contents}
    <3>1. PICK k \in DOMAIN contents : p = Append(<<list>>, Elements[k])
      BY <2>1, Zenon
    <3> QED BY <1>2, <3>1, Zenon
  <2>2. CASE p \in UNION {{Append(<<list>>, Elements[k]) \o q : q \in DOMAIN contents[k]} : k \in DOMAIN contents}
    <3>1. \E k \in DOMAIN contents : \E q \in DOMAIN contents[k] : p = Append(<<list>>, Elements[k]) \o q
      BY <2>2, Zenon
    <3>2. PICK k \in DOMAIN contents : \E q \in DOMAIN contents[k] : p = Append(<<list>>, Elements[k]) \o q
      BY <3>1, Zenon
    <3>3. PICK q \in DOMAIN contents[k] : p = Append(<<list>>, Elements[k]) \o q
      BY <3>2, Zenon
    <3>4. p = <<list, Elements[k]>> \o q
      BY <1>2, <3>3, Zenon
    <3> QED BY <3>4, Zenon
  <2>3. \/ p = <<list>> \/ p \in {Append(<<list>>, Elements[k]) : k \in DOMAIN contents}
        \/ p \in UNION {{Append(<<list>>, Elements[k]) \o q : q \in DOMAIN contents[k]} : k \in DOMAIN contents}
    BY Zenon
  <2> QED BY <2>1, <2>2, <2>3
<1> HIDE DEF All
<1>12. DOMAIN s = All
  BY <1>8
<1>13. s[<<list>>] = "object"
  <2>1. s[<<list>>] = IF Len(<<list>>) <= 2 THEN "object"
             ELSE contents[CHOOSE k \in DOMAIN contents : Elements[k] = <<list>>[2]][SubSeq(<<list>>, 3, Len(<<list>>))]
    BY <1>8, <1>9, Zenon
  <2> QED BY <1>3, <2>1
<1>14. ASSUME NEW k \in DOMAIN contents PROVE s[<<list, Elements[k]>>] = "object"
  <2>1. PICK path : path = <<list, Elements[k]>>
    OBVIOUS
  <2>2. path \in All /\ Len(path) = 2
    BY <1>9, <2>1
  <2>3. s[path] = IF Len(path) <= 2 THEN "object"
             ELSE contents[CHOOSE j \in DOMAIN contents : Elements[j] = path[2]][SubSeq(path, 3, Len(path))]
    BY <1>8, <2>2, Zenon
  <2>4. s[path] = "object"
    BY <2>2, <2>3
  <2> QED BY <2>1, <2>4
<1>15. ASSUME NEW k \in DOMAIN contents, NEW q \in DOMAIN contents[k]
       PROVE  s[<<list, Elements[k]>> \o q] = contents[k][q]
  <2>1. PICK p : p = <<list, Elements[k]>> \o q
    OBVIOUS
  <2>2. q \in Seq(Names) /\ q # <<>>
    BY DEF HasPaths
  <2>3. Len(p) \in Nat /\ Len(p) > 2 /\ p[2] = Elements[k] /\ SubSeq(p, 3, Len(p)) = q
    BY <1>1, <2>1, <2>2, PathInItem
  <2>4. p \in All
    BY <1>10, <2>1
  <2>5. s[p] = IF Len(p) <= 2 THEN "object"
             ELSE contents[CHOOSE j \in DOMAIN contents : Elements[j] = p[2]][SubSeq(p, 3, Len(p))]
    BY <1>8, <2>4, Zenon
  <2>6. \A j \in DOMAIN contents : Elements[j] = p[2] => j = k
    BY <2>3, ElementsAssumption DEF IsInjective
  <2>7. (CHOOSE j \in DOMAIN contents : Elements[j] = p[2]) = k
    BY <2>3, <2>6
  <2>8. ~(Len(p) <= 2)
    BY <2>3
  <2>9. s[p] = contents[k][q]
    BY <2>3, <2>5, <2>7, <2>8, Zenon
  <2> QED BY <2>1, <2>9
<1> QED BY <1>9, <1>10, <1>11, <1>12, <1>13, <1>14, <1>15, Zenon DEF ListsItems

ShownItem(item) ==
    Together({Field(<<"status">>, Last(item.statuses)), Field(<<"statusHistory">>, "stored"),
              Without(item.content, {"status", "statusHistory"})})

LEMMA ShownItemFields ==
    ASSUME NEW item, HasPaths(item.content), NEW s, s = ShownItem(item)
    PROVE  /\ HasPaths(s)
           /\ \A p : p \in DOMAIN s <=>
                \/ p \in {<<"status">>, <<"statusHistory">>}
                \/ p \in DOMAIN item.content /\ p[1] \notin {"status", "statusHistory"}
           /\ s[<<"status">>] = Last(item.statuses) /\ s[<<"statusHistory">>] = "stored"
           /\ \A p \in DOMAIN item.content : p[1] \notin {"status", "statusHistory"} => s[p] = item.content[p]
<1>1. {"status", "statusHistory"} \subseteq Names
  BY DEF Names
<1>2. PICK a : a = Field(<<"status">>, Last(item.statuses))
  OBVIOUS
<1>3. PICK b : b = Field(<<"statusHistory">>, "stored")
  OBVIOUS
<1>4. PICK c : c = Without(item.content, {"status", "statusHistory"})
  OBVIOUS
<1>5. s = Together({a, b, c})
  BY <1>2, <1>3, <1>4 DEF ShownItem
<1>6. /\ DOMAIN a = {<<"status">>} /\ a[<<"status">>] = Last(item.statuses)
      /\ DOMAIN b = {<<"statusHistory">>} /\ b[<<"statusHistory">>] = "stored"
  BY <1>2, <1>3 DEF Field
<1>7. /\ \A p : p \in DOMAIN c <=> p \in DOMAIN item.content /\ p[1] \notin {"status", "statusHistory"}
      /\ \A p \in DOMAIN c : c[p] = item.content[p]
  BY <1>4 DEF Without
<1>8. /\ DOMAIN s = UNION {DOMAIN t : t \in {a, b, c}}
      /\ \A p \in DOMAIN s : \E t \in {a, b, c} : p \in DOMAIN t /\ s[p] = t[p]
  BY <1>5, PartsTogether
<1>9. <<"status">>[1] = "status" /\ <<"statusHistory">>[1] = "statusHistory"
  OBVIOUS
<1>10. <<"status">> # <<"statusHistory">> /\ <<"status">> \notin DOMAIN c /\ <<"statusHistory">> \notin DOMAIN c
  BY <1>7, <1>9
<1>11. \A p : p \in DOMAIN s <=> p \in DOMAIN a \/ p \in DOMAIN b \/ p \in DOMAIN c
  BY <1>8
<1>12. <<"status">> \in Seq(Names) /\ <<"status">> # <<>> /\ <<"statusHistory">> \in Seq(Names) /\ <<"statusHistory">> # <<>>
  BY <1>1, OneName
<1> HIDE DEF ShownItem
<1>13. HasPaths(s)
  BY <1>6, <1>7, <1>11, <1>12 DEF HasPaths
<1>14. s[<<"status">>] = Last(item.statuses) /\ s[<<"statusHistory">>] = "stored"
  BY <1>6, <1>8, <1>10, <1>11
<1>15. \A p \in DOMAIN item.content : p[1] \notin {"status", "statusHistory"} => s[p] = item.content[p]
  BY <1>6, <1>7, <1>8, <1>9, <1>11
<1>16. \A p : p \in DOMAIN s <=>
                \/ p \in {<<"status">>, <<"statusHistory">>}
                \/ p \in DOMAIN item.content /\ p[1] \notin {"status", "statusHistory"}
  BY <1>6, <1>7, <1>11
<1> QED BY <1>13, <1>14, <1>15, <1>16

ListsShown(s, list, items) ==
    /\ \A k \in 1..Len(items) : <<list, Elements[k]>> \in DOMAIN s /\ s[<<list, Elements[k]>>] = "object"
    /\ \A k \in 1..Len(items) : \A q \in DOMAIN ShownItem(items[k]) :
         <<list, Elements[k]>> \o q \in DOMAIN s
         /\ s[<<list, Elements[k]>> \o q] = ShownItem(items[k])[q]
    /\ \A p \in DOMAIN s :
         \/ p = <<list>>
         \/ \E k \in 1..Len(items) : p = <<list, Elements[k]>>
         \/ \E k \in 1..Len(items) : \E q \in DOMAIN ShownItem(items[k]) : p = <<list, Elements[k]>> \o q

LEMMA ListedFields ==
    ASSUME NEW list \in Lists, NEW items, IsList(items), Len(items) <= Len(Elements),
           \A k \in 1..Len(items) : TypedItem(items[k]), NEW s, s = Listed(list, items)
    PROVE  /\ Rooted(s, {list})
           /\ <<list>> \in DOMAIN s /\ s[<<list>>] = "object"
           /\ ListsShown(s, list, items)
<1>1. DOMAIN items = 1..Len(items) /\ Len(items) \in Nat /\ list \in Names
  BY ListIsSeq, ElementNames
<1>2. DOMAIN Elements = 1..Len(Elements) /\ Len(Elements) \in Nat
  BY ElementsAssumption
<1>3. PICK contents : contents = [k \in DOMAIN items |-> ShownItem(items[k])]
  OBVIOUS
<1>4. s = Itemised(<<list>>, contents)
  BY <1>3 DEF Listed, ShownItem
<1>5. DOMAIN contents = 1..Len(items) /\ \A k \in 1..Len(items) : contents[k] = ShownItem(items[k])
  BY <1>1, <1>3
<1>6. \A k \in DOMAIN contents : HasPaths(contents[k])
  <2>1. ASSUME NEW k \in DOMAIN contents PROVE HasPaths(contents[k])
    <3>1. HasPaths(items[k].content) /\ contents[k] = ShownItem(items[k])
      BY <1>5 DEF TypedItem
    <3> QED BY <3>1, ShownItemFields
  <2> QED BY <2>1
<1>7. DOMAIN contents \subseteq DOMAIN Elements
  BY <1>1, <1>2, <1>5
<1>8. <<list>> \in Seq(Names) /\ <<list>> # <<>> /\ <<list>>[1] = list
  BY <1>1, OneName
<1>9. Rooted(s, {list})
  <2>1. <<list>>[1] \in {list}
    BY <1>8
  <2> QED BY <1>4, <1>6, <1>7, <1>8, <2>1, RootedItemised
<1>10. ListsItems(s, list, contents)
  BY <1>1, <1>4, <1>6, <1>7, ItemisedFields
<1>11. \A k \in 1..Len(items) : <<list, Elements[k]>> \in DOMAIN s /\ s[<<list, Elements[k]>>] = "object"
  BY <1>5, <1>10, Zenon DEF ListsItems
<1>12. ASSUME NEW k \in 1..Len(items), NEW q \in DOMAIN ShownItem(items[k])
       PROVE  <<list, Elements[k]>> \o q \in DOMAIN s
              /\ s[<<list, Elements[k]>> \o q] = ShownItem(items[k])[q]
  <2>1. k \in DOMAIN contents /\ contents[k] = ShownItem(items[k]) /\ q \in DOMAIN contents[k]
    BY <1>5
  <2> QED BY <1>10, <2>1, Zenon DEF ListsItems
<1>13. ASSUME NEW p \in DOMAIN s
       PROVE  \/ p = <<list>>
              \/ \E k \in 1..Len(items) : p = <<list, Elements[k]>>
              \/ \E k \in 1..Len(items) : \E q \in DOMAIN ShownItem(items[k]) : p = <<list, Elements[k]>> \o q
  <2>1. CASE \E k \in DOMAIN contents : p = <<list, Elements[k]>>
    BY <1>5, <2>1, Zenon
  <2>2. CASE \E k \in DOMAIN contents : \E q \in DOMAIN contents[k] : p = <<list, Elements[k]>> \o q
    <3>1. PICK k \in DOMAIN contents : \E q \in DOMAIN contents[k] : p = <<list, Elements[k]>> \o q
      BY <2>2, Zenon
    <3>2. k \in 1..Len(items) /\ contents[k] = ShownItem(items[k])
      BY <1>5, Zenon
    <3>3. \E q \in DOMAIN ShownItem(items[k]) : p = <<list, Elements[k]>> \o q
      BY <3>1, <3>2, Zenon
    <3> QED BY <3>2, <3>3, Zenon
  <2> QED BY <1>10, <2>1, <2>2, Zenon DEF ListsItems
<1> QED BY <1>9, <1>10, <1>11, <1>12, <1>13, Zenon DEF ListsItems, ListsShown

ShownNames == {"status", "statusHistory", "version", "schemaVersion"}

LEMMA ShownFields ==
    ASSUME NEW d, SoundDocument(d), TypedDocument(d), NEW s, s = Shown(d)
    PROVE  /\ HasPaths(s)
           /\ \A p : p[1] \notin Lists =>
                (p \in DOMAIN s <=> \/ \E n \in ShownNames : p = <<n>>
                                    \/ p \in DOMAIN d.content /\ p[1] \notin ShownNames)
           /\ s[<<"status">>] = Last(d.statuses)
           /\ \A n \in ShownNames \ {"status"} : s[<<n>>] = "stored"
           /\ \A p \in DOMAIN d.content : p[1] \notin ShownNames => s[p] = d.content[p]
           /\ \A list \in Lists : \A p : p[1] = list =>
                /\ p \in DOMAIN s <=> p \in DOMAIN Listed(list, d.items[list])
                /\ p \in DOMAIN s => s[p] = Listed(list, d.items[list])[p]
<1>1. ShownNames \subseteq Names /\ ShownNames \cap Lists = {} /\ Lists \subseteq Names
  BY ElementNames DEF Names, ShownNames, Lists
<1>2. PICK a : a = Field(<<"status">>, Last(d.statuses))
  OBVIOUS
<1>3. PICK b : b = Keys(ShownNames \ {"status"}, "stored")
  OBVIOUS
<1>4. PICK c : c = Without(d.content, ShownNames)
  OBVIOUS
<1>5. PICK r : r = Listed("registrations", d.items["registrations"])
  OBVIOUS
<1>6. PICK t : t = Listed("accreditations", d.items["accreditations"])
  OBVIOUS
<1>7. s = Together({a, b, c, r, t})
  BY <1>2, <1>3, <1>4, <1>5, <1>6 DEF Shown, ShownNames
<1>8. \A n \in Names : <<n>> \in Seq(Names) /\ <<n>> # <<>> /\ <<n>>[1] = n
  BY OneName
<1>9. /\ DOMAIN a = {<<"status">>} /\ a[<<"status">>] = Last(d.statuses)
      /\ \A p : p \in DOMAIN b <=> \E n \in ShownNames \ {"status"} : p = <<n>>
      /\ \A p \in DOMAIN b : b[p] = "stored"
  BY <1>2, <1>3 DEF Field, Keys
<1>10. /\ \A p : p \in DOMAIN c <=> p \in DOMAIN d.content /\ p[1] \notin ShownNames
      /\ \A p \in DOMAIN c : c[p] = d.content[p]
  BY <1>4 DEF Without
<1>11. HasPaths(d.content) /\ \A p \in DOMAIN d.content : p[1] \notin Lists
  BY DEF SoundDocument, TypedDocument, Named
<1>12. Rooted(r, {"registrations"}) /\ Rooted(t, {"accreditations"})
  <2>1. ASSUME NEW list \in Lists PROVE Rooted(Listed(list, d.items[list]), {list})
    <3>1. /\ IsList(d.items[list]) /\ Len(d.items[list]) <= Len(Elements)
          /\ \A k \in 1..Len(d.items[list]) : TypedItem(d.items[list][k])
      BY DEF SoundDocument, TypedDocument
    <3>2. PICK x : x = Listed(list, d.items[list])
      OBVIOUS
    <3>3. Rooted(x, {list})
      BY <3>1, <3>2, ListedFields
    <3> QED BY <3>2, <3>3
  <2> QED BY <1>5, <1>6, <2>1 DEF Lists
<1>13. /\ DOMAIN s = UNION {DOMAIN x : x \in {a, b, c, r, t}}
       /\ \A p \in DOMAIN s : \E x \in {a, b, c, r, t} : p \in DOMAIN x /\ s[p] = x[p]
  <2>1. PICK parts : parts = {a, b, c, r, t}
    OBVIOUS
  <2>2. /\ DOMAIN s = UNION {DOMAIN x : x \in parts}
        /\ \A p \in DOMAIN s : \E x \in parts : p \in DOMAIN x /\ s[p] = x[p]
    BY <1>7, <2>1, PartsTogether, Zenon
  <2> QED BY <2>1, <2>2, Zenon
<1>14. \A p : p \in DOMAIN s <=> \/ p \in DOMAIN a \/ p \in DOMAIN b \/ p \in DOMAIN c
                                 \/ p \in DOMAIN r \/ p \in DOMAIN t
  BY <1>13
<1>15. \A p \in DOMAIN s : \/ p \in DOMAIN a /\ s[p] = a[p]
                           \/ p \in DOMAIN b /\ s[p] = b[p]
                           \/ p \in DOMAIN c /\ s[p] = c[p]
                           \/ p \in DOMAIN r /\ s[p] = r[p]
                           \/ p \in DOMAIN t /\ s[p] = t[p]
  BY <1>13
<1>16. /\ \A p \in DOMAIN a : p \in Seq(Names) /\ p # <<>> /\ p[1] = "status"
       /\ \A p \in DOMAIN b : p \in Seq(Names) /\ p # <<>> /\ p[1] \in ShownNames \ {"status"}
       /\ \A p \in DOMAIN c : p \in Seq(Names) /\ p # <<>> /\ p[1] \notin ShownNames \cup Lists
       /\ \A p \in DOMAIN r : p \in Seq(Names) /\ p # <<>> /\ p[1] = "registrations"
       /\ \A p \in DOMAIN t : p \in Seq(Names) /\ p # <<>> /\ p[1] = "accreditations"
  <2>1. "status" \in ShownNames
    BY DEF ShownNames
  <2>2. \A n \in ShownNames : <<n>> \in Seq(Names) /\ <<n>> # <<>> /\ <<n>>[1] = n
    BY <1>1, <1>8
  <2>3. /\ \A p \in DOMAIN a : p \in Seq(Names) /\ p # <<>> /\ p[1] = "status"
        /\ \A p \in DOMAIN b : p \in Seq(Names) /\ p # <<>> /\ p[1] \in ShownNames \ {"status"}
    <3>1. \A n \in ShownNames : \A p : p = <<n>> => p \in Seq(Names) /\ p # <<>> /\ p[1] = n
      BY <2>2, Zenon
    <3>2. \A p \in DOMAIN a : p = <<"status">>
      BY <1>9
    <3>3. \A p \in DOMAIN a : p \in Seq(Names) /\ p # <<>> /\ p[1] = "status"
      BY <2>1, <3>1, <3>2, Zenon
    <3>4. ASSUME NEW p \in DOMAIN b
          PROVE  p \in Seq(Names) /\ p # <<>> /\ p[1] \in ShownNames \ {"status"}
      <4>1. PICK n \in ShownNames \ {"status"} : p = <<n>>
        BY <1>9
      <4>2. n \in ShownNames
        OBVIOUS
      <4>3. p \in Seq(Names) /\ p # <<>> /\ p[1] = n
        BY <3>1, <4>1, <4>2, Zenon
      <4> QED BY <4>3
    <3> QED BY <3>3, <3>4
  <2>4. \A p \in DOMAIN c : p \in Seq(Names) /\ p # <<>> /\ p[1] \notin ShownNames \cup Lists
    BY <1>10, <1>11 DEF HasPaths
  <2> QED BY <1>12, <2>3, <2>4 DEF Rooted
<1>17. "status" \in ShownNames /\ Lists = {"registrations", "accreditations"}
       /\ "status" \notin Lists /\ "registrations" # "accreditations"
  BY DEF ShownNames, Lists
<1>18. HasPaths(s)
  BY <1>14, <1>16 DEF HasPaths
<1>19. \A p : p[1] \notin Lists =>
                (p \in DOMAIN s <=> \/ \E n \in ShownNames : p = <<n>>
                                    \/ p \in DOMAIN d.content /\ p[1] \notin ShownNames)
  <2>1. \A p : p \in DOMAIN a \/ p \in DOMAIN b <=> \E n \in ShownNames : p = <<n>>
    BY <1>9, <1>17
  <2>2. \A p : p[1] \notin Lists => p \notin DOMAIN r /\ p \notin DOMAIN t
    BY <1>16, <1>17
  <2> QED BY <1>10, <1>14, <2>1, <2>2
<1>20. s[<<"status">>] = Last(d.statuses)
  <2>1. <<"status">> \in DOMAIN a /\ <<"status">>[1] = "status"
    BY <1>9
  <2> QED BY <1>9, <1>14, <1>15, <1>16, <1>17, <2>1
<1>21. ASSUME NEW n \in ShownNames \ {"status"} PROVE s[<<n>>] = "stored"
  <2>1. <<n>> \in DOMAIN b /\ <<n>>[1] = n
    BY <1>9
  <2> QED BY <1>1, <1>9, <1>14, <1>15, <1>16, <1>17, <2>1
<1>22. ASSUME NEW p \in DOMAIN d.content, p[1] \notin ShownNames PROVE s[p] = d.content[p]
  BY <1>10, <1>11, <1>14, <1>15, <1>16, <1>17, <1>22
<1>23. ASSUME NEW list \in Lists, NEW p, p[1] = list
       PROVE  /\ p \in DOMAIN s <=> p \in DOMAIN Listed(list, d.items[list])
              /\ p \in DOMAIN s => s[p] = Listed(list, d.items[list])[p]
  <2>1. CASE list = "registrations"
    <3>1. p \notin DOMAIN a /\ p \notin DOMAIN b /\ p \notin DOMAIN c /\ p \notin DOMAIN t
      BY <1>1, <1>16, <1>17, <1>23, <2>1
    <3>2. (p \in DOMAIN s <=> p \in DOMAIN r) /\ (p \in DOMAIN s => s[p] = r[p])
      BY <1>14, <1>15, <3>1
    <3> QED BY <1>5, <2>1, <3>2
  <2>2. CASE list = "accreditations"
    <3>1. p \notin DOMAIN a /\ p \notin DOMAIN b /\ p \notin DOMAIN c /\ p \notin DOMAIN r
      BY <1>1, <1>16, <1>17, <1>23, <2>2
    <3>2. (p \in DOMAIN s <=> p \in DOMAIN t) /\ (p \in DOMAIN s => s[p] = t[p])
      BY <1>14, <1>15, <3>1
    <3> QED BY <1>6, <2>2, <3>2
  <2> QED BY <1>17, <2>1, <2>2
<1> QED BY <1>18, <1>19, <1>20, <1>21, <1>22, <1>23

\* Of what an insert takes, only the status itself has to do with statuses.
LEMMA KnownNames ==
    ASSUME NEW place \in Seq(Names), NEW content, HasPaths(content), FieldsKnown(place, content),
           NEW p \in DOMAIN content
    PROVE  /\ p \in Seq(Names) /\ p # <<>> /\ p[1] \in Names /\ Last(p) \in Names
           /\ p[1] \in StatusNames \/ Last(p) \in StatusNames => p = <<"status">>
<1>1. p \in Seq(Names) /\ p # <<>>
  BY DEF HasPaths
<1>2. PICK n \in Nat \ {0} : n = Len(p)
  BY <1>1, TakenApart
<1>3. PICK g : g = Generic(p)
  OBVIOUS
<1>4. g \in Seq(Names) /\ Len(g) = Len(p) /\ \A i \in 1..Len(p) : g[i] = IF p[i] \in Range(Elements) THEN "*" ELSE p[i]
  BY <1>1, <1>3, GenericPath
<1>5. PICK field : field = place \o g
  OBVIOUS
<1>6. /\ field \in Seq(Names) /\ Len(field) = Len(place) + Len(g)
      /\ \A i \in 1..Len(g) : field[Len(place) + i] = g[i]
  BY <1>4, <1>5, NamesPrefixed
<1>7. PICK m \in Nat : m = Len(place)
  BY LenProperties
<1>8. field \in DOMAIN OrganisationInsertSchema
      /\ (OrganisationInsertSchema[field] = "forbidden" => p = <<"status">>)
  BY <1>3, <1>5 DEF FieldsKnown
<1>9. /\ \A i \in 1..Len(field) : field[i] # "statusHistory" /\ (field[i] = "status" => i = Len(field))
      /\ OrganisationInsertSchema[field] = "forbidden" <=> Last(field) = "status"
  BY <1>8, RegularInsert DEF Regular
<1>10. <<"status">> \in DOMAIN OrganisationInsertSchema /\ "status" \in Names
  BY InsertFields DEF Names
<1>11. "status" \notin Range(Elements) /\ "statusHistory" \notin Range(Elements)
  BY <1>10, NameOfField, ElementsAssumption
<1>12. Len(field) = m + n /\ Len(g) = n
  BY <1>2, <1>4, <1>6, <1>7
<1>13. ASSUME NEW i \in 1..n, p[i] \in StatusNames PROVE p = <<"status">>
  <2>1. g[i] = p[i]
    BY <1>2, <1>4, <1>11, <1>13 DEF StatusNames
  <2>2. field[m + i] = p[i] /\ m + i \in 1..Len(field)
    BY <1>6, <1>7, <1>12, <2>1
  <2>3. p[i] = "status"
    BY <1>9, <1>13, <2>2 DEF StatusNames
  <2>4. m + i = Len(field)
    BY <1>9, <2>2, <2>3
  <2>5. Last(field) = "status"
    BY <2>2, <2>3, <2>4 DEF Last
  <2> QED BY <1>8, <1>9, <2>5
<1>14. p[1] \in Names /\ Last(p) = p[n] /\ Last(p) \in Names
  BY <1>1, <1>2, TakenApart DEF Last
<1> QED BY <1>1, <1>13, <1>14

LEMMA ElementPath ==
    ASSUME NEW list \in Lists, NEW i \in DOMAIN Elements, NEW path, path = <<list, Elements[i]>>
    PROVE  /\ Elements[i] \in Names /\ Elements[i] \in Range(Elements) /\ list \in Names
           /\ path \in Seq(Names) /\ path # <<>> /\ Len(path) = 2 /\ path[1] = list /\ path[2] = Elements[i]
           /\ Last(path) = Elements[i] /\ Last(path) \notin StatusNames /\ path # <<list>>
           /\ Generic(path) = <<list, "*">>
           /\ \A j \in DOMAIN Elements : Elements[i] = Elements[j] => i = j
<1>1. Elements[i] \in Range(Elements)
  BY DEF Range
<1>2. Elements[i] \in Names /\ list \in Names /\ Generic(<<list, Elements[i]>>) = <<list, "*">>
  BY <1>1, ElementNames
<1>3. path \in Seq(Names) /\ path # <<>> /\ Len(path) = 2 /\ path[1] = list /\ path[2] = Elements[i]
  BY <1>2
<1>4. Last(path) = Elements[i] /\ path # <<list>>
  BY <1>3 DEF Last
<1>5. "status" \in Names /\ <<"status">> \in DOMAIN OrganisationInsertSchema
  BY InsertFields DEF Names
<1>6. Elements[i] \notin StatusNames
  BY <1>1, <1>5, NameOfField, ElementsAssumption DEF StatusNames
<1>7. \A j \in DOMAIN Elements : Elements[i] = Elements[j] => i = j
  BY ElementsAssumption DEF IsInjective
<1>8. Generic(path) = <<list, "*">>
  BY <1>2, Zenon
<1> QED BY <1>1, <1>2, <1>3, <1>4, <1>6, <1>7, <1>8

ShowsItems(s, list, items) ==
    \A i \in DOMAIN Elements :
        /\ <<list, Elements[i]>> \in DOMAIN s <=> i \in 1..Len(items)
        /\ i \in 1..Len(items) => s[<<list, Elements[i]>>] = "object"
        /\ \A q \in Seq(Names) : q # <<>> =>
             /\ <<list, Elements[i]>> \o q \in DOMAIN s <=>
                    i \in 1..Len(items) /\ q \in DOMAIN ShownItem(items[i])
             /\ i \in 1..Len(items) /\ q \in DOMAIN ShownItem(items[i]) =>
                    s[<<list, Elements[i]>> \o q] = ShownItem(items[i])[q]

LEMMA ListedAt ==
    ASSUME NEW list \in Lists, NEW items, IsList(items), Len(items) <= Len(Elements),
           \A k \in 1..Len(items) : TypedItem(items[k]), NEW s, s = Listed(list, items)
    PROVE  ShowsItems(s, list, items)
<1> DEFINE n == Len(items)
<1>1. /\ \A k \in 1..n : <<list, Elements[k]>> \in DOMAIN s /\ s[<<list, Elements[k]>>] = "object"
      /\ \A k \in 1..n : \A q \in DOMAIN ShownItem(items[k]) :
           <<list, Elements[k]>> \o q \in DOMAIN s
           /\ s[<<list, Elements[k]>> \o q] = ShownItem(items[k])[q]
      /\ \A p \in DOMAIN s :
           \/ p = <<list>>
           \/ \E k \in 1..n : p = <<list, Elements[k]>>
           \/ \E k \in 1..n : \E q \in DOMAIN ShownItem(items[k]) : p = <<list, Elements[k]>> \o q
  <2>1. ListsShown(s, list, items)
    BY ListedFields
  <2> QED BY <2>1, Zenon DEF ListsShown
<1>2. 1..n \subseteq DOMAIN Elements /\ list \in Names
  <2>1. DOMAIN Elements = 1..Len(Elements) /\ Len(Elements) \in Nat
    BY ElementsAssumption
  <2> QED BY <2>1, ListIsSeq, ElementNames
<1>3. \A k \in 1..n : HasPaths(ShownItem(items[k]))
  <2>1. ASSUME NEW k \in 1..n PROVE HasPaths(ShownItem(items[k]))
    <3>1. PICK x : x = ShownItem(items[k])
      OBVIOUS
    <3>2. HasPaths(items[k].content)
      BY DEF TypedItem
    <3>3. HasPaths(x)
      BY <3>1, <3>2, ShownItemFields
    <3> QED BY <3>1, <3>3
  <2> QED BY <2>1
<1> HIDE DEF n
<1>4. ASSUME NEW k \in 1..n, NEW q \in DOMAIN ShownItem(items[k]), NEW p, p = <<list, Elements[k]>> \o q
      PROVE  /\ p \in Seq(Names) /\ Len(p) \in Nat /\ Len(p) > 2 /\ p[2] = Elements[k]
             /\ SubSeq(p, 3, Len(p)) = q
  <2>1. q \in Seq(Names) /\ q # <<>>
    BY <1>3 DEF HasPaths
  <2>2. Elements[k] \in Names
    BY <1>2, ElementPath
  <2> QED BY <1>2, <1>4, <2>1, <2>2, PathInItem
<1>5. ASSUME NEW i \in DOMAIN Elements
      PROVE  /\ <<list, Elements[i]>> \in DOMAIN s <=> i \in 1..n
             /\ i \in 1..n => s[<<list, Elements[i]>>] = "object"
             /\ \A q \in Seq(Names) : q # <<>> =>
                  /\ <<list, Elements[i]>> \o q \in DOMAIN s <=> i \in 1..n /\ q \in DOMAIN ShownItem(items[i])
                  /\ i \in 1..n /\ q \in DOMAIN ShownItem(items[i]) =>
                         s[<<list, Elements[i]>> \o q] = ShownItem(items[i])[q]
  <2>1. PICK path : path = <<list, Elements[i]>>
    OBVIOUS
  <2>2. /\ Elements[i] \in Names /\ Len(path) = 2 /\ path[2] = Elements[i] /\ path # <<list>>
        /\ \A j \in DOMAIN Elements : Elements[i] = Elements[j] => i = j
    BY <2>1, ElementPath
  <2>3. ASSUME path \in DOMAIN s PROVE i \in 1..n
    <3>1. CASE \E k \in 1..n : path = <<list, Elements[k]>>
      <4>1. PICK k \in 1..n : path = <<list, Elements[k]>>
        BY <3>1
      <4>2. path[2] = Elements[k]
        BY <4>1
      <4> QED BY <1>2, <2>2, <4>2
    <3>2. CASE \E k \in 1..n : \E q \in DOMAIN ShownItem(items[k]) : path = <<list, Elements[k]>> \o q
      <4>1. PICK k \in 1..n : \E q \in DOMAIN ShownItem(items[k]) : path = <<list, Elements[k]>> \o q
        BY <3>2
      <4>2. PICK q \in DOMAIN ShownItem(items[k]) : path = <<list, Elements[k]>> \o q
        BY <4>1
      <4>3. Len(path) > 2
        BY <1>4, <4>2
      <4> QED BY <2>2, <4>3
    <3> QED BY <1>1, <2>2, <2>3, <3>1, <3>2, Zenon
  <2>4. i \in 1..n => path \in DOMAIN s /\ s[path] = "object"
    BY <1>1, <2>1, Zenon
  <2>5. ASSUME NEW q \in Seq(Names), q # <<>>, NEW p, p = path \o q, p \in DOMAIN s
        PROVE  i \in 1..n /\ q \in DOMAIN ShownItem(items[i])
    <3>1. p = <<list, Elements[i]>> \o q
      BY <2>1, <2>5, Zenon
    <3>2. Len(p) \in Nat /\ Len(p) > 2 /\ p[2] = Elements[i] /\ SubSeq(p, 3, Len(p)) = q
      BY <1>2, <2>2, <2>5, <3>1, PathInItem
    <3>3. CASE p = <<list>>
      <4>1. Len(p) = 1
        BY <3>3
      <4> QED BY <3>2, <4>1
    <3>4. CASE \E k \in 1..n : p = <<list, Elements[k]>>
      <4>1. PICK k \in 1..n : p = <<list, Elements[k]>>
        BY <3>4
      <4>2. Len(p) = 2
        BY <4>1
      <4> QED BY <3>2, <4>2
    <3>5. CASE \E k \in 1..n : \E r \in DOMAIN ShownItem(items[k]) : p = <<list, Elements[k]>> \o r
      <4>1. PICK k \in 1..n : \E r \in DOMAIN ShownItem(items[k]) : p = <<list, Elements[k]>> \o r
        BY <3>5
      <4>2. PICK r \in DOMAIN ShownItem(items[k]) : p = <<list, Elements[k]>> \o r
        BY <4>1
      <4>3. p[2] = Elements[k] /\ SubSeq(p, 3, Len(p)) = r
        BY <1>4, <4>2
      <4>4. i = k /\ q = r
        BY <1>2, <2>2, <3>2, <4>3
      <4> QED BY <4>4
    <3> QED BY <1>1, <2>5, <3>3, <3>4, <3>5, Zenon
  <2>6. ASSUME NEW q \in Seq(Names), q # <<>>, i \in 1..n, q \in DOMAIN ShownItem(items[i])
        PROVE  path \o q \in DOMAIN s /\ s[path \o q] = ShownItem(items[i])[q]
    BY <1>1, <2>1, <2>6, Zenon
  <2>7. path \in DOMAIN s <=> i \in 1..n
    BY <2>3, <2>4
  <2>8. \A q \in Seq(Names) : q # <<>> =>
           /\ path \o q \in DOMAIN s <=> i \in 1..n /\ q \in DOMAIN ShownItem(items[i])
           /\ i \in 1..n /\ q \in DOMAIN ShownItem(items[i]) => s[path \o q] = ShownItem(items[i])[q]
    <3> SUFFICES ASSUME NEW q \in Seq(Names), q # <<>>
                 PROVE  /\ path \o q \in DOMAIN s <=> i \in 1..n /\ q \in DOMAIN ShownItem(items[i])
                        /\ i \in 1..n /\ q \in DOMAIN ShownItem(items[i]) => s[path \o q] = ShownItem(items[i])[q]
      BY Zenon
    <3> QED BY <2>5, <2>6, Zenon
  <2> QED BY <2>1, <2>4, <2>7, <2>8, Zenon
<1> QED BY <1>5, Zenon DEF ShowsItems, n

\* What a GET shows of lists, in the document as a whole.
LEMMA ShownAt ==
    ASSUME NEW d, SoundDocument(d), TypedDocument(d), NEW s, s = Shown(d), NEW list \in Lists
    PROVE  ShowsItems(s, list, d.items[list]) /\ <<list>> \in DOMAIN s /\ s[<<list>>] = "object"
<1>1. PICK items : items = d.items[list]
  OBVIOUS
<1>2. PICK l : l = Listed(list, items)
  OBVIOUS
<1>3. IsList(items) /\ Len(items) <= Len(Elements) /\ \A k \in 1..Len(items) : TypedItem(items[k])
  BY <1>1 DEF SoundDocument, TypedDocument
<1>4. ShowsItems(l, list, items)
  BY <1>2, <1>3, ListedAt
<1>5. <<list>> \in DOMAIN l /\ l[<<list>>] = "object"
  BY <1>2, <1>3, ListedFields
<1>6. \A p : p[1] = list => (p \in DOMAIN s <=> p \in DOMAIN l) /\ (p \in DOMAIN s => s[p] = l[p])
  BY <1>1, <1>2, ShownFields
<1>7. <<list>>[1] = list
  OBVIOUS
<1>8. ASSUME NEW i \in DOMAIN Elements
      PROVE  /\ <<list, Elements[i]>> \in DOMAIN s <=> i \in 1..Len(items)
             /\ i \in 1..Len(items) => s[<<list, Elements[i]>>] = "object"
             /\ \A q \in Seq(Names) : q # <<>> =>
                  /\ <<list, Elements[i]>> \o q \in DOMAIN s <=>
                         i \in 1..Len(items) /\ q \in DOMAIN ShownItem(items[i])
                  /\ i \in 1..Len(items) /\ q \in DOMAIN ShownItem(items[i]) =>
                         s[<<list, Elements[i]>> \o q] = ShownItem(items[i])[q]
  <2>1. PICK path : path = <<list, Elements[i]>>
    OBVIOUS
  <2>2. Elements[i] \in Names /\ list \in Names /\ path[1] = list
    BY <2>1, ElementPath
  <2>3. \A q \in Seq(Names) : q # <<>> => (path \o q)[1] = list
    BY <2>1, <2>2, PathInItem
  <2>4. /\ path \in DOMAIN l <=> i \in 1..Len(items)
        /\ i \in 1..Len(items) => l[path] = "object"
        /\ \A q \in Seq(Names) : q # <<>> =>
             /\ path \o q \in DOMAIN l <=> i \in 1..Len(items) /\ q \in DOMAIN ShownItem(items[i])
             /\ i \in 1..Len(items) /\ q \in DOMAIN ShownItem(items[i]) => l[path \o q] = ShownItem(items[i])[q]
    BY <1>4, <2>1, Zenon DEF ShowsItems
  <2>5. /\ path \in DOMAIN s <=> i \in 1..Len(items)
        /\ i \in 1..Len(items) => s[path] = "object"
    BY <1>6, <2>2, <2>4, Zenon
  <2>6. ASSUME NEW q \in Seq(Names), q # <<>>
        PROVE  /\ path \o q \in DOMAIN s <=> i \in 1..Len(items) /\ q \in DOMAIN ShownItem(items[i])
               /\ i \in 1..Len(items) /\ q \in DOMAIN ShownItem(items[i]) => s[path \o q] = ShownItem(items[i])[q]
    <3>1. PICK p : p = path \o q
      OBVIOUS
    <3>2. p[1] = list
      BY <2>3, <2>6, <3>1, Zenon
    <3>3. (p \in DOMAIN s <=> p \in DOMAIN l) /\ (p \in DOMAIN s => s[p] = l[p])
      BY <1>6, <3>2, Zenon
    <3>4. /\ p \in DOMAIN l <=> i \in 1..Len(items) /\ q \in DOMAIN ShownItem(items[i])
          /\ i \in 1..Len(items) /\ q \in DOMAIN ShownItem(items[i]) => l[p] = ShownItem(items[i])[q]
      BY <2>4, <2>6, <3>1, Zenon
    <3> QED BY <3>1, <3>3, <3>4, Zenon
  <2> QED BY <2>1, <2>5, <2>6, Zenon
<1>9. ShowsItems(s, list, items)
  BY <1>8, Zenon DEF ShowsItems
<1> QED BY <1>1, <1>5, <1>6, <1>7, <1>9, Zenon

\* One shows what another shows, statuses aside.
Shows(t, s) == \A p \in DOMAIN s : Last(p) \notin StatusNames => p \in DOMAIN t /\ t[p] = s[p]

LEMMA SameShown ==
    ASSUME NEW s, NEW t, WithoutStatuses(s) = WithoutStatuses(t)
    PROVE  Shows(t, s) /\ Shows(s, t)
<1>1. PICK a : a = WithoutStatuses(s)
  OBVIOUS
<1>2. PICK b : b = WithoutStatuses(t)
  OBVIOUS
<1>3. /\ \A p : p \in DOMAIN a <=> p \in DOMAIN s /\ Last(p) \notin StatusNames
      /\ \A p \in DOMAIN a : a[p] = s[p]
  BY <1>1 DEF WithoutStatuses, StatusNames
<1>4. /\ \A p : p \in DOMAIN b <=> p \in DOMAIN t /\ Last(p) \notin StatusNames
      /\ \A p \in DOMAIN b : b[p] = t[p]
  BY <1>2 DEF WithoutStatuses, StatusNames
<1>5. a = b
  BY <1>1, <1>2
<1> QED BY <1>3, <1>4, <1>5, Zenon DEF Shows

LEMMA RootPlace == <<>> \in Seq(Names) /\ \A list \in Lists : <<list, "*">> \in Seq(Names)
<1>1. \A list \in Lists : list \in Names
  BY ElementNames
<1> QED BY <1>1, Star

LEMMA ContentShown ==
    ASSUME NEW d, SoundDocument(d), TypedDocument(d), NEW s, s = Shown(d),
           NEW e, SoundDocument(e), TypedDocument(e), NEW t, t = Shown(e), Shows(t, s),
           NEW p \in DOMAIN d.content, p[1] \notin {"version", "schemaVersion", "status"}
    PROVE  p \in DOMAIN e.content /\ e.content[p] = d.content[p]
<1>1. HasPaths(d.content) /\ FieldsKnown(<<>>, d.content) /\ p[1] \notin Lists
  BY DEF SoundDocument, TypedDocument, Whole, Named
<1>2. p \in Seq(Names) /\ (p[1] \in StatusNames \/ Last(p) \in StatusNames => p = <<"status">>)
  BY <1>1, RootPlace, KnownNames
<1>3. <<"status">>[1] = "status"
  OBVIOUS
<1>4. Last(p) \notin StatusNames /\ p[1] \notin ShownNames
  BY <1>2, <1>3 DEF StatusNames, ShownNames
<1>5. p \in DOMAIN s /\ s[p] = d.content[p]
  BY <1>1, <1>4, ShownFields
<1>6. p \in DOMAIN t /\ t[p] = s[p]
  BY <1>4, <1>5 DEF Shows
<1>7. \A n : <<n>>[1] = n
  OBVIOUS
<1>8. ~ \E n \in ShownNames : p = <<n>>
  BY <1>4, <1>7, Zenon
<1>9. p \in DOMAIN e.content
  BY <1>1, <1>6, <1>8, ShownFields
<1>10. t[p] = e.content[p]
  BY <1>4, <1>9, ShownFields
<1> QED BY <1>5, <1>6, <1>9, <1>10

LEMMA ItemsShown ==
    ASSUME NEW d, SoundDocument(d), TypedDocument(d), NEW s, s = Shown(d),
           NEW e, SoundDocument(e), TypedDocument(e), NEW t, t = Shown(e), Shows(t, s),
           NEW list \in Lists, NEW k \in 1..Len(d.items[list])
    PROVE  /\ k \in 1..Len(e.items[list])
           /\ \A q \in DOMAIN d.items[list][k].content :
                q[1] # "status" => q \in DOMAIN e.items[list][k].content
                                   /\ e.items[list][k].content[q] = d.items[list][k].content[q]
<1>1. PICK a : a = d.items[list]
  OBVIOUS
<1>2. PICK b : b = e.items[list]
  OBVIOUS
<1>3. ShowsItems(s, list, a) /\ ShowsItems(t, list, b)
  <2>1. ShowsItems(s, list, d.items[list]) /\ ShowsItems(t, list, e.items[list])
    BY ShownAt
  <2> QED BY <1>1, <1>2, <2>1
<1>4. IsList(a) /\ Len(a) <= Len(Elements) /\ IsList(b) /\ Len(b) <= Len(Elements) /\ k \in 1..Len(a)
  BY <1>1, <1>2 DEF SoundDocument
<1>5. k \in DOMAIN Elements
  <2>1. DOMAIN Elements = 1..Len(Elements) /\ Len(Elements) \in Nat /\ Len(a) \in Nat
    BY <1>4, ElementsAssumption, ListIsSeq
  <2> QED BY <1>4, <2>1
<1>6. PICK path : path = <<list, Elements[k]>>
  OBVIOUS
<1>7. Last(path) \notin StatusNames /\ Elements[k] \in Names /\ list \in Names /\ path \in Seq(Names)
  BY <1>5, <1>6, ElementPath
<1>8. /\ path \in DOMAIN s
      /\ path \in DOMAIN t <=> k \in 1..Len(b)
      /\ \A q \in Seq(Names) : q # <<>> =>
           /\ path \o q \in DOMAIN s <=> q \in DOMAIN ShownItem(a[k])
           /\ q \in DOMAIN ShownItem(a[k]) => s[path \o q] = ShownItem(a[k])[q]
           /\ path \o q \in DOMAIN t <=> k \in 1..Len(b) /\ q \in DOMAIN ShownItem(b[k])
           /\ k \in 1..Len(b) /\ q \in DOMAIN ShownItem(b[k]) => t[path \o q] = ShownItem(b[k])[q]
  BY <1>3, <1>4, <1>5, <1>6, Zenon DEF ShowsItems
<1>9. k \in 1..Len(b)
  BY <1>7, <1>8 DEF Shows
<1>10. HasPaths(a[k].content) /\ FieldsKnown(<<list, "*">>, a[k].content) /\ HasPaths(b[k].content)
  BY <1>1, <1>2, <1>4, <1>9 DEF SoundDocument, TypedDocument, SoundItem, Whole, TypedItem
<1>11. ASSUME NEW q \in DOMAIN a[k].content, q[1] # "status"
       PROVE  q \in DOMAIN b[k].content /\ b[k].content[q] = a[k].content[q]
  <2>1. /\ q \in Seq(Names) /\ q # <<>> /\ Last(q) \in Names
        /\ q[1] \in StatusNames \/ Last(q) \in StatusNames => q = <<"status">>
    BY <1>10, RootPlace, KnownNames
  <2>2. <<"status">>[1] = "status" /\ <<"statusHistory">>[1] = "statusHistory"
    OBVIOUS
  <2>3. Last(q) \notin StatusNames /\ q[1] \notin {"status", "statusHistory"}
    BY <1>11, <2>1, <2>2 DEF StatusNames
  <2>4. PICK p : p = path \o q
    OBVIOUS
  <2>5. Last(p) = Last(q)
    <3>1. /\ path \o q \in Seq(Names) /\ Len(path \o q) = Len(path) + Len(q)
          /\ \A i \in 1..Len(q) : (path \o q)[Len(path) + i] = q[i]
      BY <1>7, <2>1, NamesPrefixed
    <3>2. Len(q) \in Nat \ {0} /\ Len(path) \in Nat
      BY <1>7, <2>1, TakenApart, LenProperties
    <3>3. Len(q) \in 1..Len(q)
      BY <3>2
    <3> QED BY <2>4, <3>1, <3>2, <3>3 DEF Last
  <2>6. PICK x : x = ShownItem(a[k])
    OBVIOUS
  <2>7. PICK y : y = ShownItem(b[k])
    OBVIOUS
  <2>8. q \in DOMAIN x /\ x[q] = a[k].content[q]
    BY <1>10, <1>11, <2>3, <2>6, ShownItemFields
  <2>9. p \in DOMAIN s /\ s[p] = x[q]
    BY <1>8, <2>1, <2>4, <2>6, <2>8, Zenon
  <2>10. p \in DOMAIN t /\ t[p] = s[p]
    BY <2>3, <2>5, <2>9 DEF Shows
  <2>11. q \in DOMAIN y /\ t[p] = y[q]
    BY <1>8, <2>1, <2>4, <2>7, <2>10, Zenon
  <2>12. q \in DOMAIN b[k].content
    <3>1. \/ q \in {<<"status">>, <<"statusHistory">>}
          \/ q \in DOMAIN b[k].content /\ q[1] \notin {"status", "statusHistory"}
      BY <1>10, <2>7, <2>11, ShownItemFields
    <3> QED BY <2>2, <2>3, <3>1
  <2>13. y[q] = b[k].content[q]
    BY <1>10, <2>3, <2>7, <2>12, ShownItemFields
  <2> QED BY <2>8, <2>9, <2>10, <2>11, <2>12, <2>13
<1> QED BY <1>1, <1>2, <1>9, <1>11

\* What shows the same but for the statuses is the same to a start.
LEMMA NormalStays ==
    ASSUME NEW d, SoundDocument(d), TypedDocument(d), NEW e, SoundDocument(e), TypedDocument(e),
           WithoutStatuses(Shown(d)) = WithoutStatuses(Shown(e))
    PROVE  Normalize(d) = Normalize(e)
<1>1. PICK s : s = Shown(d)
  OBVIOUS
<1>2. PICK t : t = Shown(e)
  OBVIOUS
<1>3. Shows(t, s) /\ Shows(s, t)
  BY <1>1, <1>2, SameShown
<1>4. Without(d.content, {"version", "schemaVersion", "status"}) = Without(e.content, {"version", "schemaVersion", "status"})
  <2>1. \A p \in DOMAIN d.content : p[1] \notin {"version", "schemaVersion", "status"} =>
           p \in DOMAIN e.content /\ e.content[p] = d.content[p]
    BY <1>1, <1>2, <1>3, ContentShown
  <2>2. \A p \in DOMAIN e.content : p[1] \notin {"version", "schemaVersion", "status"} =>
           p \in DOMAIN d.content /\ d.content[p] = e.content[p]
    BY <1>1, <1>2, <1>3, ContentShown
  <2> QED BY <2>1, <2>2 DEF Without
<1>5. ASSUME NEW list \in Lists
      PROVE  [k \in DOMAIN d.items[list] |-> Undated(Without(d.items[list][k].content, {"status"}))]
             = [k \in DOMAIN e.items[list] |-> Undated(Without(e.items[list][k].content, {"status"}))]
  <2>1. PICK a : a = d.items[list]
    OBVIOUS
  <2>2. PICK b : b = e.items[list]
    OBVIOUS
  <2>3. DOMAIN a = 1..Len(a) /\ DOMAIN b = 1..Len(b)
    BY <2>1, <2>2, ListIsSeq DEF SoundDocument
  <2>4. \A k \in DOMAIN a :
           /\ k \in DOMAIN b
           /\ \A q \in DOMAIN a[k].content :
                q[1] # "status" => q \in DOMAIN b[k].content /\ b[k].content[q] = a[k].content[q]
    BY <1>1, <1>2, <1>3, <2>1, <2>2, <2>3, ItemsShown
  <2>5. \A k \in DOMAIN b :
           /\ k \in DOMAIN a
           /\ \A q \in DOMAIN b[k].content :
                q[1] # "status" => q \in DOMAIN a[k].content /\ a[k].content[q] = b[k].content[q]
    BY <1>1, <1>2, <1>3, <2>1, <2>2, <2>3, ItemsShown
  <2>6. DOMAIN a = DOMAIN b
    BY <2>4, <2>5
  <2>7. ASSUME NEW k \in DOMAIN a PROVE Without(a[k].content, {"status"}) = Without(b[k].content, {"status"})
    <3>1. PICK x : x = a[k].content
      OBVIOUS
    <3>2. PICK y : y = b[k].content
      OBVIOUS
    <3>3. /\ \A q \in DOMAIN x : q[1] # "status" => q \in DOMAIN y /\ y[q] = x[q]
          /\ \A q \in DOMAIN y : q[1] # "status" => q \in DOMAIN x /\ x[q] = y[q]
      BY <2>4, <2>5, <2>6, <3>1, <3>2
    <3>4. Without(x, {"status"}) = Without(y, {"status"})
      BY <3>3 DEF Without
    <3> QED BY <3>1, <3>2, <3>4
  <2>8. [k \in DOMAIN a |-> Undated(Without(a[k].content, {"status"}))]
        = [k \in DOMAIN b |-> Undated(Without(b[k].content, {"status"}))]
    BY <2>6, <2>7
  <2> QED BY <2>1, <2>2, <2>8, Zenon
<1> QED BY <1>4, <1>5 DEF Normalize

\* What is inserted is what the form says.
LEMMA NothingToRewrite ==
    ASSUME NEW v, HasPaths(v), v = [p \in DOMAIN v |-> v[p]], Named(v) \subseteq FormFields, NEW d, d = InsertedDocument(v)
    PROVE  ~HasChanges(d, v)
<1>1. Without(v, {"version", "schemaVersion", "status"}) = v
  <2>1. \A p \in DOMAIN v : p[1] \notin {"version", "schemaVersion", "status"}
    BY DEF Named, FormFields
  <2> QED BY <2>1 DEF Without
<1> QED BY <1>1 DEF HasChanges, Normalize, InsertedDocument

TypedStore == puts \in Nat /\ (document # NoDocument => TypedDocument(document))
StoreInv == EditsInv /\ TypedStore

LEMMA EditsInitInv == ASSUME EditsInit PROVE StoreInv
<1>1. IInv
  BY InitInv DEF EditsInit
<1>2. document = NoDocument /\ status = "extracting"
  BY DEF EditsInit, Init
<1>3. DocumentSound /\ TypedStore
  BY <1>2 DEF DocumentSound, TypedStore, EditsInit
<1>4. FormStored
  BY <1>2 DEF FormStored
<1> QED BY <1>1, <1>3, <1>4 DEF EditsInv, StoreInv

\* The parser does not touch the store, and there is nothing in it before it is done.
LEMMA ParseKeepsStore ==
    ASSUME StoreInv, IInv', UNCHANGED store, status # "accepted" \/ UNCHANGED <<organisation, status>>,
           status' = "accepted" =>
              Valid(organisation') /\ DOMAIN organisation'.partnership.partners \subseteq DOMAIN Elements
    PROVE  StoreInv'
<1>1. UNCHANGED <<document, edited, puts>>
  BY DEF store
<1>2. DocumentSound' /\ TypedStore'
  BY <1>1 DEF StoreInv, EditsInv, DocumentSound, TypedStore
<1>3. FormStored'
  <2>1. CASE document = NoDocument
    BY <1>1, <2>1 DEF FormStored
  <2>2. CASE document # NoDocument
    <3>1. status = "accepted"
      BY <2>2 DEF StoreInv, EditsInv, FormStored
    <3> QED BY <1>1, <3>1 DEF StoreInv, EditsInv, FormStored
  <2> QED BY <2>1, <2>2
<1> QED BY <1>2, <1>3 DEF StoreInv, EditsInv

LEMMA ParseInv ==
    ASSUME StoreInv,
           \/ Parse(ExtractPage) \/ Parse(Flatten) \/ Parse(Transform) \/ Parse(Validate)
    PROVE  StoreInv'
<1>1. IInv
  BY DEF StoreInv, EditsInv
<1>2. CASE Parse(ExtractPage)
  <2>1. ExtractPage /\ UNCHANGED store
    BY <1>2 DEF Parse
  <2>2. IInv'
    BY <1>1, <2>1, ExtractPageInv
  <2>3. status # "accepted" /\ status' # "accepted"
    BY <2>1 DEF ExtractPage
  <2> QED BY <2>1, <2>2, <2>3, ParseKeepsStore
<1>3. CASE Parse(Flatten)
  <2>1. Flatten /\ UNCHANGED store
    BY <1>3 DEF Parse
  <2>2. IInv'
    BY <1>1, <2>1, FlattenInv
  <2>3. status # "accepted" /\ status' # "accepted"
    BY <2>1 DEF Flatten
  <2> QED BY <2>1, <2>2, <2>3, ParseKeepsStore
<1>4. CASE Parse(Transform)
  <2>1. Transform /\ UNCHANGED store
    BY <1>4 DEF Parse
  <2>2. IInv'
    BY <1>1, <2>1, TransformInv
  <2>3. status # "accepted" /\ status' # "accepted"
    BY <2>1 DEF Transform
  <2> QED BY <2>1, <2>2, <2>3, ParseKeepsStore
<1>5. CASE Parse(Validate)
  <2>1. Validate /\ UNCHANGED store
    BY <1>5 DEF Parse
  <2>2. IInv'
    BY <1>1, <2>1, ValidateInv
  <2>3. /\ status # "accepted" /\ UNCHANGED organisation
        /\ DOMAIN organisation.partnership.partners \subseteq DOMAIN Elements
        /\ status' = "accepted" => Valid(organisation)
    BY <2>1 DEF Validate
  <2>4. status' = "accepted" => Valid(organisation')
                   /\ DOMAIN organisation'.partnership.partners \subseteq DOMAIN Elements
    BY <2>3
  <2> QED BY <2>1, <2>2, <2>3, <2>4, ParseKeepsStore
<1> QED BY <1>2, <1>3, <1>4, <1>5

\* What there is to know of what a start upserts.
LEMMA FormAsked ==
    ASSUME StoreInv, status = "accepted",
           NEW v, v = StripUnknown(OrganisationInsertSchema, ContentOf(organisation)),
           NEW w, w = Without(v, {"id", "version", "schemaVersion"})
    PROVE  /\ HasPaths(v) /\ v = [p \in DOMAIN v |-> v[p]] /\ Whole(<<>>, v) /\ Named(v) \subseteq FormFields
           /\ SoundUpdates(w) /\ \A list \in Lists : <<list>> \notin DOMAIN w
<1>1. organisation = ParseOrgSubmission
  BY DEF StoreInv, EditsInv, IInv, OrganisationMade, IsParsed
<1>2. Valid(organisation) /\ DOMAIN organisation.partnership.partners \subseteq DOMAIN Elements
  BY DEF StoreInv, EditsInv, FormStored
<1>3. v = [p \in DOMAIN v |-> v[p]]
  BY DEF StripUnknown
<1>4. HasPaths(v) /\ Whole(<<>>, v) /\ Named(v) \subseteq FormFields
  <2>1. PICK x : x = Without(w, Lists)
    OBVIOUS
  <2>2. /\ HasPaths(v) /\ Whole(<<>>, v) /\ Named(v) \subseteq FormFields
        /\ HasPaths(w) /\ FieldsKnown(<<>>, w) /\ Named(w) \subseteq FormFields
        /\ SoundUpdate(<<>>, x)
    BY <1>1, <1>2, <2>1, FormIsSound
  <2> QED BY <2>2
<1>5. SoundUpdates(w) /\ \A list \in Lists : <<list>> \notin DOMAIN w
  BY <1>1, <1>2, FormUpdatesAreSound
<1> QED BY <1>3, <1>4, <1>5

LEMMA UpsertInv == ASSUME StoreInv, Upsert PROVE StoreInv'
<1>1. PICK v : v = StripUnknown(OrganisationInsertSchema, ContentOf(organisation))
  OBVIOUS
<1>2. PICK w : w = Without(v, {"id", "version", "schemaVersion"})
  OBVIOUS
<1>3. /\ status = "accepted" /\ UNCHANGED vars /\ edited' = edited /\ puts' = puts
      /\ document' = IF document = NoDocument THEN InsertedDocument(v)
                     ELSE IF HasChanges(document, v) THEN Updated(document, w) ELSE document
  BY <1>1, <1>2 DEF Upsert
<1>4. IInv' /\ status' = "accepted" /\ UNCHANGED organisation
  BY <1>3, StutterInv DEF StoreInv, EditsInv, vars
<1>5. /\ HasPaths(v) /\ v = [p \in DOMAIN v |-> v[p]] /\ Whole(<<>>, v) /\ Named(v) \subseteq FormFields
      /\ SoundUpdates(w) /\ \A list \in Lists : <<list>> \notin DOMAIN w
  BY <1>1, <1>2, <1>3, FormAsked
<1>6. /\ Valid(organisation) /\ DOMAIN organisation.partnership.partners \subseteq DOMAIN Elements
      /\ document # NoDocument => edited \/ ~HasChanges(document, v)
  BY <1>1, <1>3 DEF StoreInv, EditsInv, FormStored
<1>7. ASSUME document' # NoDocument
      PROVE  /\ SoundDocument(document') /\ TypedDocument(document')
             /\ edited \/ ~HasChanges(document', v)
  <2>1. CASE document = NoDocument
    <3>1. document' = InsertedDocument(v)
      BY <1>3, <2>1
    <3>2. SoundDocument(document') /\ TypedDocument(document')
      BY <1>5, <3>1, InsertedIsSound
    <3>3. ~HasChanges(document', v)
      BY <1>5, <3>1, NothingToRewrite
    <3> QED BY <3>2, <3>3
  <2>2. CASE document # NoDocument /\ ~HasChanges(document, v)
    <3>1. document' = document
      BY <1>3, <2>2
    <3> QED BY <2>2, <3>1 DEF StoreInv, EditsInv, DocumentSound, TypedStore
  <2>3. CASE document # NoDocument /\ HasChanges(document, v)
    <3>1. edited /\ document' = Updated(document, w)
      BY <1>3, <1>6, <2>3
    <3>2. SoundDocument(document) /\ TypedDocument(document)
      BY <2>3 DEF StoreInv, EditsInv, DocumentSound, TypedStore
    <3>3. ASSUME NEW list \in Lists PROVE document'.items[list] = document.items[list]
      <4>1. PICK d : d = document
        OBVIOUS
      <4>2. PICK e : e = document'
        OBVIOUS
      <4>3. e = Updated(d, w) /\ <<list>> \notin DOMAIN w
        BY <1>5, <3>1, <4>1, <4>2, Zenon
      <4>4. e.items[list] = IF <<list>> \in DOMAIN w THEN MergeItems(d.items[list], ItemsOf(w, list)) ELSE d.items[list]
        BY <4>3, UpdatedFields
      <4>5. e.items[list] = d.items[list]
        BY <4>3, <4>4, Zenon
      <4> QED BY <4>1, <4>2, <4>5
    <3>4. \A list \in Lists : Len(document'.items[list]) <= Len(Elements)
      BY <3>2, <3>3 DEF SoundDocument
    <3>5. SoundDocument(document') /\ TypedDocument(document')
      BY <1>5, <3>1, <3>2, <3>4, UpdatedIsSound
    <3> QED BY <3>1, <3>5
  <2> QED BY <2>1, <2>2, <2>3
<1>8. DocumentSound' /\ TypedStore'
  BY <1>3, <1>7 DEF DocumentSound, TypedStore, StoreInv
<1>9. FormStored'
  <2>1. v = StripUnknown(OrganisationInsertSchema, ContentOf(organisation'))
    BY <1>1, <1>4
  <2> QED BY <1>3, <1>4, <1>6, <1>7, <2>1 DEF FormStored
<1> QED BY <1>4, <1>8, <1>9 DEF StoreInv, EditsInv

\* An answered PUT: what it asks for is sound.
LEMMA PutAsked ==
    ASSUME NEW payload \in Payloads, NEW fragment, fragment = Sanitised(payload.fragment), IsUpdate(fragment),
           NEW updates, updates = StripUnknown(OrganisationUpdateSchema, fragment)
    PROVE  SoundUpdates(updates)
<1>1. PICK given : given = payload.fragment
  OBVIOUS
<1>2. IsFragment(given)
  BY <1>1, PayloadsAssumption
<1>3. HasPaths(given) /\ Closed(given)
  BY <1>2, FragmentPaths
<1>4. HasPaths(fragment) /\ Closed(fragment)
  BY <1>1, <1>3, SanitisedPaths
<1> QED BY <1>4, UpdatesAreSound

LEMMA PutInv == ASSUME StoreInv, NEW payload \in Payloads, Put(payload) PROVE StoreInv'
<1>1. PICK fragment : fragment = Sanitised(payload.fragment)
  OBVIOUS
<1>2. PICK updates : updates = StripUnknown(OrganisationUpdateSchema, fragment)
  OBVIOUS
<1>3. /\ status = "accepted" /\ UNCHANGED vars /\ puts' = puts + 1
      /\ \/ UNCHANGED <<document, edited>>
         \/ /\ IsUpdate(fragment) /\ document # NoDocument
            /\ document' = Updated(document, updates)
            /\ \A list \in Lists : Len(document'.items[list]) <= Len(Elements)
            /\ edited' = (edited \/ WithoutStatuses(Shown(document')) # WithoutStatuses(Shown(document)))
  BY <1>1, <1>2 DEF Put, Refuse
<1>4. IInv' /\ status' = "accepted" /\ UNCHANGED organisation
  BY <1>3, StutterInv DEF StoreInv, EditsInv, vars
<1>5. CASE UNCHANGED <<document, edited>>
  BY <1>3, <1>4, <1>5 DEF StoreInv, EditsInv, DocumentSound, TypedStore, FormStored
<1>6. CASE /\ IsUpdate(fragment) /\ document # NoDocument
           /\ document' = Updated(document, updates)
           /\ \A list \in Lists : Len(document'.items[list]) <= Len(Elements)
           /\ edited' = (edited \/ WithoutStatuses(Shown(document')) # WithoutStatuses(Shown(document)))
  <2>1. SoundUpdates(updates)
    BY <1>1, <1>2, <1>6, PutAsked
  <2>2. SoundDocument(document) /\ TypedDocument(document)
    BY <1>6 DEF StoreInv, EditsInv, DocumentSound, TypedStore
  <2>3. SoundDocument(document') /\ TypedDocument(document')
    BY <1>6, <2>1, <2>2, UpdatedIsSound
  <2>4. DocumentSound' /\ TypedStore'
    BY <1>3, <2>3 DEF DocumentSound, TypedStore, StoreInv
  <2>5. PICK v : v = StripUnknown(OrganisationInsertSchema, ContentOf(organisation))
    OBVIOUS
  <2>6. v = StripUnknown(OrganisationInsertSchema, ContentOf(organisation'))
    BY <1>4, <2>5
  <2>7. /\ Valid(organisation) /\ DOMAIN organisation.partnership.partners \subseteq DOMAIN Elements
        /\ edited \/ ~HasChanges(document, v)
    BY <1>3, <1>6, <2>5 DEF StoreInv, EditsInv, FormStored
  <2>8. edited' \/ ~HasChanges(document', v)
    <3>1. CASE edited
      BY <1>6, <3>1
    <3>2. CASE ~edited /\ WithoutStatuses(Shown(document')) # WithoutStatuses(Shown(document))
      BY <1>6, <3>2
    <3>3. CASE ~edited /\ WithoutStatuses(Shown(document')) = WithoutStatuses(Shown(document))
      <4>1. Normalize(document) = Normalize(document')
        BY <2>2, <2>3, <3>3, NormalStays
      <4> QED BY <2>7, <3>3, <4>1 DEF HasChanges
    <3> QED BY <3>1, <3>2, <3>3
  <2>9. FormStored'
    BY <1>4, <2>6, <2>7, <2>8 DEF FormStored
  <2> QED BY <1>4, <2>4, <2>9 DEF StoreInv, EditsInv
<1> QED BY <1>3, <1>5, <1>6

LEMMA StoreStutterInv == ASSUME StoreInv, UNCHANGED <<vars, store>> PROVE StoreInv'
<1>1. IInv'
  BY StutterInv DEF StoreInv, EditsInv
<1>2. UNCHANGED <<organisation, status, document, edited, puts>>
  BY DEF vars, store
<1> QED BY <1>1, <1>2 DEF StoreInv, EditsInv, DocumentSound, TypedStore, FormStored

LEMMA StoreInductive == EditsSpec => []StoreInv
<1>1. StoreInv /\ [EditsNext]_<<vars, store>> => StoreInv'
  BY ParseInv, UpsertInv, PutInv, StoreStutterInv DEF EditsNext
<1> QED BY <1>1, EditsInitInv, PTL DEF EditsSpec

\* However fragments of an organisation are PUT between starts of the service, what is
\* stored keeps complete objects with known fields, and is what the form says until an
\* admin edits it (update, upsert, organisationUpdateSchema).
THEOREM EditsInvariant == EditsSpec => []EditsInv
<1>1. StoreInv => EditsInv
  BY DEF StoreInv
<1> QED BY <1>1, StoreInductive, PTL

\* The upsert of a later start finds no changes in an organisation that nobody edited
\* (hasChanges).
LEMMA UneditedKept ==
    ASSUME StoreInv, [EditsNext]_<<vars, store>>, document # NoDocument, ~edited, puts' = puts
    PROVE  document' = document
<1>1. CASE Upsert
  BY <1>1 DEF Upsert, StoreInv, EditsInv, FormStored
<1>2. CASE \E payload \in Payloads : Put(payload)
  <2>1. puts' = puts + 1 /\ puts \in Nat
    BY <1>2 DEF Put, StoreInv, TypedStore
  <2> QED BY <2>1
<1>3. CASE UNCHANGED store
  BY <1>3 DEF store
<1> QED BY <1>1, <1>2, <1>3 DEF EditsNext, Parse

\* The parser does what it does, whatever becomes of its result.
THEOREM ParserUnderEdits == EditsSpec => Spec
<1>1. EditsInit => Init
  BY DEF EditsInit
<1>2. [EditsNext]_<<vars, store>> => [Next]_vars
  BY DEF EditsNext, Next, Parse, Upsert, Put
<1> QED BY <1>1, <1>2, PTL DEF EditsSpec, Spec

\* What a write to d was asked to change is all that is other than before in e.
OnlyAsked(d, e, updates) ==
    /\ \A p \in DOMAIN d.content \cup DOMAIN e.content :
          \/ p[1] \in Named(updates) \cup {"status"}
          \/ /\ p \in DOMAIN d.content \cap DOMAIN e.content
             /\ d.content[p] = e.content[p]
    /\ IsPrefix(d.statuses, e.statuses)
    /\ \A list \in Lists : \A k \in DOMAIN d.items[list] :
          LET old == d.items[list][k]
              new == e.items[list][k]
          IN  /\ k \in DOMAIN e.items[list]
              /\ IsPrefix(old.statuses, new.statuses)
              /\ Asks(updates, list, IdOf(old.content)) = {} => new = old
              /\ \A p \in DOMAIN old.content :
                    \/ p \in DOMAIN new.content /\ new.content[p] = old.content[p]
                    \/ \E u \in Asks(updates, list, IdOf(old.content)) : p[1] \in Named(u)

LEMMA SameIsOnlyAsked ==
    ASSUME NEW d, SoundDocument(d), NEW updates
    PROVE  OnlyAsked(d, d, updates)
<1>1. IsPrefix(d.statuses, d.statuses)
  BY PrefixOfItself DEF SoundDocument, SoundHistory
<1>2. ASSUME NEW list \in Lists, NEW k \in DOMAIN d.items[list]
      PROVE  IsPrefix(d.items[list][k].statuses, d.items[list][k].statuses)
  <2>1. PICK items : items = d.items[list]
    OBVIOUS
  <2>2. DOMAIN items = 1..Len(items) /\ \A i \in 1..Len(items) : SoundItem(list, items[i])
    BY <2>1, ListIsSeq DEF SoundDocument
  <2>3. IsList(items[k].statuses)
    BY <2>1, <2>2 DEF SoundItem, SoundHistory
  <2> QED BY <2>1, <2>3, PrefixOfItself
<1> QED BY <1>1, <1>2, Zenon DEF OnlyAsked

LEMMA ItemOnlyAsked ==
    ASSUME NEW list \in Lists,
           NEW old, SoundItem(list, old), NEW update, SoundItemUpdate(list, update),
           NEW new, new = [content |-> Spread(old.content, update),
                           statuses |-> StatusHistoryWithChanges(update, old.statuses)]
    PROVE  /\ IsPrefix(old.statuses, new.statuses)
           /\ \A p \in DOMAIN old.content :
                p[1] \notin Named(update) => p \in DOMAIN new.content /\ new.content[p] = old.content[p]
<1>1. StatusOf(update) # Bad
  BY StatusIsGood DEF SoundItemUpdate, SoundUpdate
<1>2. IsPrefix(old.statuses, new.statuses)
  BY <1>1, HistoryGrows DEF SoundItem
<1>3. new.content = Spread(old.content, update)
  OBVIOUS
<1>4. \A p \in DOMAIN old.content :
         p[1] \notin Named(update) => p \in DOMAIN new.content /\ new.content[p] = old.content[p]
  BY <1>3, SpreadFields
<1> QED BY <1>2, <1>4

LEMMA UpdateIsOnlyAsked ==
    ASSUME NEW d, SoundDocument(d), NEW updates, SoundUpdates(updates), NEW e, e = Updated(d, updates)
    PROVE  OnlyAsked(d, e, updates)
<1>1. PICK own : own = OwnUpdate(updates)
  OBVIOUS
<1>2. /\ e.content = Spread(d.content, own)
      /\ e.statuses = StatusHistoryWithChanges(updates, d.statuses)
  BY <1>1, UpdatedFields
<1>3. Named(own) \subseteq Named(updates)
  BY <1>1 DEF OwnUpdate, Named, Without
<1>4. ASSUME NEW p \in DOMAIN d.content \cup DOMAIN e.content, p[1] \notin Named(updates) \cup {"status"}
      PROVE  p \in DOMAIN d.content \cap DOMAIN e.content /\ d.content[p] = e.content[p]
  <2>1. p[1] \notin Named(own) /\ p \notin DOMAIN own
    BY <1>3, <1>4 DEF Named
  <2>2. PICK x : x = e.content
    OBVIOUS
  <2>3. /\ p \in DOMAIN x <=> p \in DOMAIN own \/ (p \in DOMAIN d.content /\ p[1] \notin Named(own))
        /\ p \in DOMAIN d.content /\ p[1] \notin Named(own) => x[p] = d.content[p]
    BY <1>2, <2>2, SpreadFields
  <2> QED BY <1>4, <2>1, <2>2, <2>3
<1>5. IsPrefix(d.statuses, e.statuses)
  BY <1>2, HistoryGrows DEF SoundDocument, SoundUpdates
<1>6. ASSUME NEW list \in Lists, NEW k \in DOMAIN d.items[list],
             NEW old, old = d.items[list][k], NEW new, new = e.items[list][k]
      PROVE  /\ k \in DOMAIN e.items[list]
             /\ IsPrefix(old.statuses, new.statuses)
             /\ Asks(updates, list, IdOf(old.content)) = {} => new = old
             /\ \A p \in DOMAIN old.content :
                   \/ p \in DOMAIN new.content /\ new.content[p] = old.content[p]
                   \/ \E u \in Asks(updates, list, IdOf(old.content)) : p[1] \in Named(u)
  <2>1. PICK items : items = d.items[list]
    OBVIOUS
  <2>2. IsList(items) /\ DOMAIN items = 1..Len(items) /\ Len(items) \in Nat
    BY <2>1, ListIsSeq DEF SoundDocument
  <2>3. k \in 1..Len(items) /\ old = items[k] /\ SoundItem(list, old)
    BY <1>6, <2>1, <2>2 DEF SoundDocument
  <2>4. IsPrefix(old.statuses, old.statuses)
    BY <2>3, PrefixOfItself DEF SoundItem, SoundHistory
  <2>5. e.items[list] = IF <<list>> \in DOMAIN updates THEN MergeItems(items, ItemsOf(updates, list)) ELSE items
    BY <2>1, UpdatedFields
  <2>6. CASE <<list>> \notin DOMAIN updates
    <3>1. e.items[list] = items /\ new = old
      BY <1>6, <2>1, <2>5, <2>6
    <3> QED BY <1>6, <2>1, <2>4, <3>1
  <2>7. CASE <<list>> \in DOMAIN updates
    <3>1. PICK given : given = ItemsOf(updates, list)
      OBVIOUS
    <3>2. PICK merge : merge = MergeItems(items, given)
      OBVIOUS
    <3>3. e.items[list] = merge
      BY <2>5, <2>7, <3>1, <3>2
    <3>4. IsList(given) /\ DOMAIN given = 1..Len(given)
      BY <3>1, ItemsAreElements, ListIsSeq
    <3>5. \A j \in 1..Len(given) : SoundItemUpdate(list, given[j])
      BY <2>7, <3>1 DEF SoundUpdates
    <3>6. /\ IsList(merge) /\ Len(items) <= Len(merge)
          /\ \/ /\ \A j \in 1..Len(given) : IdOf(given[j]) # IdOf(items[k].content)
                /\ merge[k] = items[k]
             \/ \E j \in 1..Len(given) :
                  /\ IdOf(given[j]) = IdOf(items[k].content)
                  /\ merge[k] = [content |-> Spread(items[k].content, given[j]),
                                 statuses |-> StatusHistoryWithChanges(given[j], items[k].statuses)]
      <4>1. Merges(items, given, merge)
        BY <2>2, <3>2, <3>4, MergedItems
      <4> QED BY <2>3, <4>1, Zenon DEF Merges
    <3>7. k \in DOMAIN merge
      <4>1. DOMAIN merge = 1..Len(merge) /\ Len(merge) \in Nat
        BY <3>6, ListIsSeq
      <4> QED BY <2>2, <2>3, <3>6, <4>1
    <3>8. new = merge[k]
      BY <1>6, <3>3
    <3>9. CASE merge[k] = items[k]
      BY <2>3, <2>4, <3>3, <3>7, <3>8, <3>9
    <3>10. CASE \E j \in 1..Len(given) :
                  /\ IdOf(given[j]) = IdOf(items[k].content)
                  /\ merge[k] = [content |-> Spread(items[k].content, given[j]),
                                 statuses |-> StatusHistoryWithChanges(given[j], items[k].statuses)]
      <4>1. PICK j \in 1..Len(given) :
                  /\ IdOf(given[j]) = IdOf(items[k].content)
                  /\ merge[k] = [content |-> Spread(items[k].content, given[j]),
                                 statuses |-> StatusHistoryWithChanges(given[j], items[k].statuses)]
        BY <3>10
      <4>2. PICK u : u = given[j]
        OBVIOUS
      <4>3. SoundItemUpdate(list, u) /\ u \in Asks(updates, list, IdOf(old.content))
        BY <2>3, <3>1, <3>4, <3>5, <4>1, <4>2 DEF Asks, Range
      <4>4. new = [content |-> Spread(old.content, u), statuses |-> StatusHistoryWithChanges(u, old.statuses)]
        BY <2>3, <3>8, <4>1, <4>2
      <4>5. /\ IsPrefix(old.statuses, new.statuses)
            /\ \A p \in DOMAIN old.content :
                 p[1] \notin Named(u) => p \in DOMAIN new.content /\ new.content[p] = old.content[p]
        BY <2>3, <4>3, <4>4, ItemOnlyAsked
      <4> QED BY <3>3, <3>7, <4>3, <4>5
    <3> QED BY <3>6, <3>9, <3>10
  <2> QED BY <2>6, <2>7
<1>7. \A p \in DOMAIN d.content \cup DOMAIN e.content :
          \/ p[1] \in Named(updates) \cup {"status"}
          \/ /\ p \in DOMAIN d.content \cap DOMAIN e.content
             /\ d.content[p] = e.content[p]
  BY <1>4, Zenon
<1>8. \A list \in Lists : \A k \in DOMAIN d.items[list] :
          LET old == d.items[list][k]
              new == e.items[list][k]
          IN  /\ k \in DOMAIN e.items[list]
              /\ IsPrefix(old.statuses, new.statuses)
              /\ Asks(updates, list, IdOf(old.content)) = {} => new = old
              /\ \A p \in DOMAIN old.content :
                    \/ p \in DOMAIN new.content /\ new.content[p] = old.content[p]
                    \/ \E u \in Asks(updates, list, IdOf(old.content)) : p[1] \in Named(u)
  <2> SUFFICES ASSUME NEW list \in Lists, NEW k \in DOMAIN d.items[list]
               PROVE  LET old == d.items[list][k]
                          new == e.items[list][k]
                      IN  /\ k \in DOMAIN e.items[list]
                          /\ IsPrefix(old.statuses, new.statuses)
                          /\ Asks(updates, list, IdOf(old.content)) = {} => new = old
                          /\ \A p \in DOMAIN old.content :
                                \/ p \in DOMAIN new.content /\ new.content[p] = old.content[p]
                                \/ \E u \in Asks(updates, list, IdOf(old.content)) : p[1] \in Named(u)
    OBVIOUS
  <2>1. PICK old : old = d.items[list][k]
    OBVIOUS
  <2>2. PICK new : new = e.items[list][k]
    OBVIOUS
  <2>3. /\ k \in DOMAIN e.items[list]
        /\ IsPrefix(old.statuses, new.statuses)
        /\ Asks(updates, list, IdOf(old.content)) = {} => new = old
        /\ \A p \in DOMAIN old.content :
              \/ p \in DOMAIN new.content /\ new.content[p] = old.content[p]
              \/ \E u \in Asks(updates, list, IdOf(old.content)) : p[1] \in Named(u)
    BY <1>6, <2>1, <2>2
  <2> QED BY <2>1, <2>2, <2>3
<1> QED BY <1>5, <1>7, <1>8, Zenon DEF OnlyAsked

\* What an update or an upsert does not name stays as it was, status histories only
\* grow, and a start rewrites nothing that nobody edited (mergeItemsWithUpdates,
\* statusHistoryWithChanges, hasChanges).
THEOREM OnlyAskedChanges == EditsSpec => OnlyWhatIsAskedChanges
<1>1. ASSUME StoreInv, [EditsNext]_<<vars, store>>, document # NoDocument
      PROVE  OnlyAsked(document, document', asked')
  <2>1. SoundDocument(document)
    BY <1>1 DEF StoreInv, EditsInv, DocumentSound
  <2>2. CASE document' = document
    BY <2>1, <2>2, SameIsOnlyAsked
  <2>3. CASE Upsert /\ document' # document
    <3>1. PICK v : v = StripUnknown(OrganisationInsertSchema, ContentOf(organisation))
      OBVIOUS
    <3>2. PICK w : w = Without(v, {"id", "version", "schemaVersion"})
      OBVIOUS
    <3>3. status = "accepted" /\ asked' = w /\ document' = Updated(document, w)
      BY <1>1, <2>3, <3>1, <3>2 DEF Upsert
    <3>4. SoundUpdates(w)
      BY <1>1, <3>1, <3>2, <3>3, FormAsked
    <3> QED BY <2>1, <3>3, <3>4, UpdateIsOnlyAsked
  <2>4. ASSUME NEW payload \in Payloads, Put(payload), document' # document
        PROVE  OnlyAsked(document, document', asked')
    <3>1. PICK fragment : fragment = Sanitised(payload.fragment)
      OBVIOUS
    <3>2. PICK updates : updates = StripUnknown(OrganisationUpdateSchema, fragment)
      OBVIOUS
    <3>3. IsUpdate(fragment) /\ asked' = updates /\ document' = Updated(document, updates)
      BY <2>4, <3>1, <3>2 DEF Put, Refuse
    <3>4. SoundUpdates(updates)
      BY <3>1, <3>2, <3>3, PutAsked
    <3> QED BY <2>1, <3>3, <3>4, UpdateIsOnlyAsked
  <2>5. document' = document \/ Upsert \/ \E payload \in Payloads : Put(payload)
    BY <1>1 DEF EditsNext, Parse, store
  <2> QED BY <2>2, <2>3, <2>4, <2>5
<1>2. StoreInv /\ [EditsNext]_<<vars, store>> =>
        [document # NoDocument => /\ OnlyAsked(document, document', asked')
                                  /\ ~edited /\ puts' = puts => document' = document]_<<vars, store>>
  BY <1>1, UneditedKept
<1> QED BY <1>2, StoreInductive, PTL DEF EditsSpec, OnlyWhatIsAskedChanges, OnlyAsked

\* The kinds of paths in what a GET shows, statuses aside.
OwnPath(d, p) == p \in DOMAIN d.content /\ p[1] \notin ShownNames \cup Lists
VersionPath(p) == p = <<"version">> \/ p = <<"schemaVersion">>
ListPath(p) == \E list \in Lists : p = <<list>>
ItemPath(d, p) == \E list \in Lists : \E k \in 1..Len(d.items[list]) : p = <<list, Elements[k]>>
FieldPath(d, p, list, k, q) ==
    /\ p = <<list, Elements[k]>> \o q /\ q \in DOMAIN d.items[list][k].content
    /\ q[1] \notin StatusNames
InItemPath(d, p) ==
    \E list \in Lists : \E k \in 1..Len(d.items[list]) : \E q : FieldPath(d, p, list, k, q)

LEMMA ShownKinds ==
    ASSUME NEW d, SoundDocument(d), TypedDocument(d), NEW c, c = WithoutStatuses(Shown(d)),
           NEW p \in DOMAIN c
    PROVE  OwnPath(d, p) \/ VersionPath(p) \/ ListPath(p) \/ ItemPath(d, p) \/ InItemPath(d, p)
<1>1. PICK s : s = Shown(d)
  OBVIOUS
<1>2. p \in DOMAIN s /\ Last(p) \notin StatusNames
  BY <1>1 DEF WithoutStatuses, StatusNames
<1>3. CASE p[1] \notin Lists
  <2>1. (\E n \in ShownNames : p = <<n>>) \/ (p \in DOMAIN d.content /\ p[1] \notin ShownNames)
    BY <1>1, <1>2, <1>3, ShownFields
  <2>2. ASSUME NEW n \in ShownNames, p = <<n>> PROVE VersionPath(p)
    <3>1. Last(p) = n
      BY <2>2 DEF Last
    <3>2. n = "version" \/ n = "schemaVersion"
      BY <1>2, <3>1 DEF ShownNames, StatusNames
    <3> QED BY <2>2, <3>2, Zenon DEF VersionPath
  <2> QED BY <1>3, <2>1, <2>2 DEF OwnPath
<1>4. ASSUME NEW list \in Lists, p[1] = list PROVE ListPath(p) \/ ItemPath(d, p) \/ InItemPath(d, p)
  <2>1. PICK items : items = d.items[list]
    OBVIOUS
  <2>2. PICK l : l = Listed(list, items)
    OBVIOUS
  <2>3. p \in DOMAIN l
    BY <1>1, <1>2, <1>4, <2>1, <2>2, ShownFields
  <2>4. IsList(items) /\ Len(items) <= Len(Elements) /\ \A k \in 1..Len(items) : TypedItem(items[k])
    BY <2>1 DEF SoundDocument, TypedDocument
  <2>5. ListsShown(l, list, items)
    BY <2>2, <2>4, ListedFields
  <2>6. \/ p = <<list>>
        \/ \E k \in 1..Len(items) : p = <<list, Elements[k]>>
        \/ \E k \in 1..Len(items) : \E q \in DOMAIN ShownItem(items[k]) : p = <<list, Elements[k]>> \o q
    BY <2>3, <2>5, Zenon DEF ListsShown
  <2>7. CASE \E k \in 1..Len(items) : \E q \in DOMAIN ShownItem(items[k]) : p = <<list, Elements[k]>> \o q
    <3>1. PICK k \in 1..Len(items) : \E q \in DOMAIN ShownItem(items[k]) : p = <<list, Elements[k]>> \o q
      BY <2>7, Zenon
    <3>2. PICK q \in DOMAIN ShownItem(items[k]) : p = <<list, Elements[k]>> \o q
      BY <3>1, Zenon
    <3>3. PICK x : x = ShownItem(items[k])
      OBVIOUS
    <3>4. HasPaths(items[k].content)
      BY <2>4 DEF TypedItem
    <3>5. HasPaths(x) /\ (\/ q \in {<<"status">>, <<"statusHistory">>}
                          \/ q \in DOMAIN items[k].content /\ q[1] \notin {"status", "statusHistory"})
      BY <3>2, <3>3, <3>4, ShownItemFields
    <3>6. q \in Seq(Names) /\ q # <<>>
      BY <3>2, <3>3, <3>5 DEF HasPaths
    <3>7. k \in DOMAIN Elements
      <4>1. DOMAIN Elements = 1..Len(Elements) /\ Len(Elements) \in Nat /\ Len(items) \in Nat
        BY <2>4, ElementsAssumption, ListIsSeq
      <4> QED BY <2>4, <4>1
    <3>8. PICK path : path = <<list, Elements[k]>>
      OBVIOUS
    <3>9. path \in Seq(Names)
      BY <3>7, <3>8, ElementPath
    <3>10. Last(path \o q) = Last(q)
      <4>1. /\ path \o q \in Seq(Names) /\ Len(path \o q) = Len(path) + Len(q)
            /\ \A i \in 1..Len(q) : (path \o q)[Len(path) + i] = q[i]
        BY <3>6, <3>9, NamesPrefixed
      <4>2. Len(q) \in Nat \ {0} /\ Len(path) \in Nat
        BY <3>6, <3>9, TakenApart, LenProperties
      <4>3. Len(q) \in 1..Len(q)
        BY <4>2
      <4> QED BY <4>1, <4>2, <4>3 DEF Last
    <3>11. p = path \o q
      BY <3>2, <3>8, Zenon
    <3>12. Last(q) \notin StatusNames
      BY <1>2, <3>10, <3>11
    <3>13. Last(<<"status">>) = "status" /\ Last(<<"statusHistory">>) = "statusHistory"
      BY DEF Last
    <3>14. q \in DOMAIN items[k].content /\ q[1] \notin StatusNames
      BY <3>5, <3>12, <3>13 DEF StatusNames
    <3>15. k \in 1..Len(d.items[list]) /\ q \in DOMAIN d.items[list][k].content
      BY <2>1, <3>14
    <3> QED BY <3>2, <3>14, <3>15, Zenon DEF FieldPath, InItemPath
  <2> QED BY <2>1, <2>6, <2>7, Zenon DEF ListPath, ItemPath
<1> QED BY <1>3, <1>4

\* And what is there.
LEMMA ShownValues ==
    ASSUME NEW d, SoundDocument(d), TypedDocument(d), NEW c, c = WithoutStatuses(Shown(d))
    PROVE  /\ \A p \in DOMAIN c : p \in Seq(Names) /\ p # <<>> /\ Last(p) \notin StatusNames
           /\ \A p : OwnPath(d, p) => p \in DOMAIN c /\ c[p] = d.content[p]
           /\ \A p : VersionPath(p) => p \in DOMAIN c /\ c[p] = "stored"
           /\ \A p : ListPath(p) => p \in DOMAIN c /\ c[p] = "object"
           /\ \A p : ItemPath(d, p) => p \in DOMAIN c /\ c[p] = "object"
           /\ \A list \in Lists : \A k \in 1..Len(d.items[list]) : \A p, q :
                FieldPath(d, p, list, k, q) => p \in DOMAIN c /\ c[p] = d.items[list][k].content[q]
<1>1. PICK s : s = Shown(d)
  OBVIOUS
<1>2. /\ \A p : p \in DOMAIN c <=> p \in DOMAIN s /\ Last(p) \notin StatusNames
      /\ \A p \in DOMAIN c : c[p] = s[p]
  BY <1>1 DEF WithoutStatuses, StatusNames
<1>3. HasPaths(s)
  BY <1>1, ShownFields
<1>4. HasPaths(d.content) /\ FieldsKnown(<<>>, d.content)
  BY DEF SoundDocument, TypedDocument, Whole
<1>5. ASSUME NEW p, OwnPath(d, p) PROVE p \in DOMAIN c /\ c[p] = d.content[p]
  <2>1. p \in DOMAIN d.content /\ p[1] \notin ShownNames /\ p[1] \notin Lists
    BY <1>5 DEF OwnPath
  <2>2. p \in DOMAIN s /\ s[p] = d.content[p]
    BY <1>1, <2>1, ShownFields
  <2>3. p[1] \in StatusNames \/ Last(p) \in StatusNames => p = <<"status">>
    BY <1>4, <2>1, RootPlace, KnownNames
  <2>4. <<"status">>[1] = "status"
    OBVIOUS
  <2>5. Last(p) \notin StatusNames
    BY <2>1, <2>3, <2>4 DEF ShownNames
  <2> QED BY <1>2, <2>2, <2>5
<1>6. ASSUME NEW p, VersionPath(p) PROVE p \in DOMAIN c /\ c[p] = "stored"
  <2>1. PICK n \in {"version", "schemaVersion"} : p = <<n>>
    BY <1>6, Zenon DEF VersionPath
  <2>2. n \in ShownNames \ {"status"} /\ p[1] = n /\ n \notin Lists /\ Last(p) = n /\ n \notin StatusNames
    BY <2>1 DEF ShownNames, Lists, Last, StatusNames
  <2>3. p \in DOMAIN s
    BY <1>1, <2>1, <2>2, ShownFields
  <2>4. s[<<n>>] = "stored"
    BY <1>1, <2>2, ShownFields
  <2>5. s[p] = "stored"
    BY <2>1, <2>4
  <2> QED BY <1>2, <2>2, <2>3, <2>5
<1>7. ASSUME NEW p, ListPath(p) PROVE p \in DOMAIN c /\ c[p] = "object"
  <2>1. PICK list \in Lists : p = <<list>>
    BY <1>7, Zenon DEF ListPath
  <2>2. <<list>> \in DOMAIN s /\ s[<<list>>] = "object"
    BY <1>1, ShownAt
  <2>3. Last(p) \notin StatusNames
    BY <2>1 DEF Last, Lists, StatusNames
  <2>4. p \in DOMAIN s /\ s[p] = "object"
    BY <2>1, <2>2, Zenon
  <2> QED BY <1>2, <2>3, <2>4
<1>8. ASSUME NEW list \in Lists, NEW k \in 1..Len(d.items[list])
      PROVE  k \in DOMAIN Elements
  <2>1. DOMAIN Elements = 1..Len(Elements) /\ Len(Elements) \in Nat
    BY ElementsAssumption
  <2>2. Len(d.items[list]) \in Nat /\ Len(d.items[list]) <= Len(Elements)
    BY ListIsSeq DEF SoundDocument
  <2> QED BY <2>1, <2>2
<1>9. ASSUME NEW p, ItemPath(d, p) PROVE p \in DOMAIN c /\ c[p] = "object"
  <2>1. PICK list \in Lists : \E k \in 1..Len(d.items[list]) : p = <<list, Elements[k]>>
    BY <1>9, Zenon DEF ItemPath
  <2>2. PICK k \in 1..Len(d.items[list]) : p = <<list, Elements[k]>>
    BY <2>1, Zenon
  <2>3. k \in DOMAIN Elements
    BY <1>8
  <2>4. Last(p) \notin StatusNames
    BY <2>2, <2>3, ElementPath
  <2>5. ShowsItems(s, list, d.items[list])
    BY <1>1, ShownAt
  <2>6. p \in DOMAIN s /\ s[p] = "object"
    BY <2>2, <2>3, <2>5, Zenon DEF ShowsItems
  <2> QED BY <1>2, <2>4, <2>6
<1>10. ASSUME NEW list \in Lists, NEW k \in 1..Len(d.items[list]), NEW p, NEW q, FieldPath(d, p, list, k, q)
       PROVE  p \in DOMAIN c /\ c[p] = d.items[list][k].content[q]
  <2>1. PICK item : item = d.items[list][k]
    OBVIOUS
  <2>2. q \in DOMAIN item.content /\ q[1] \notin StatusNames /\ p = <<list, Elements[k]>> \o q
    BY <1>10, <2>1 DEF FieldPath
  <2>3. HasPaths(item.content) /\ FieldsKnown(<<list, "*">>, item.content)
    BY <2>1 DEF SoundDocument, TypedDocument, SoundItem, Whole, TypedItem
  <2>4. /\ q \in Seq(Names) /\ q # <<>>
        /\ q[1] \in StatusNames \/ Last(q) \in StatusNames => q = <<"status">>
    BY <2>2, <2>3, RootPlace, KnownNames
  <2>5. <<"status">>[1] = "status"
    OBVIOUS
  <2>6. Last(q) \notin StatusNames
    BY <2>2, <2>4, <2>5 DEF StatusNames
  <2>7. PICK x : x = ShownItem(item)
    OBVIOUS
  <2>8. q \in DOMAIN x /\ x[q] = item.content[q]
    BY <2>2, <2>3, <2>7, ShownItemFields DEF StatusNames
  <2>9. k \in DOMAIN Elements
    BY <1>8
  <2>10. ShowsItems(s, list, d.items[list])
    BY <1>1, ShownAt
  <2>11. p \in DOMAIN s /\ s[p] = x[q]
    BY <2>1, <2>2, <2>4, <2>7, <2>8, <2>9, <2>10, Zenon DEF ShowsItems
  <2>12. PICK path : path = <<list, Elements[k]>>
    OBVIOUS
  <2>13. path \in Seq(Names)
    BY <2>9, <2>12, ElementPath
  <2>14. Last(path \o q) = Last(q)
    <4>1. /\ path \o q \in Seq(Names) /\ Len(path \o q) = Len(path) + Len(q)
          /\ \A i \in 1..Len(q) : (path \o q)[Len(path) + i] = q[i]
      BY <2>4, <2>13, NamesPrefixed
    <4>2. Len(q) \in Nat \ {0} /\ Len(path) \in Nat
      BY <2>4, <2>13, TakenApart, LenProperties
    <4>3. Len(q) \in 1..Len(q)
      BY <4>2
    <4> QED BY <4>1, <4>2, <4>3 DEF Last
  <2>15. p = path \o q
    BY <2>2, <2>12, Zenon
  <2> QED BY <1>2, <2>1, <2>6, <2>8, <2>11, <2>14, <2>15
<1>11. \A p \in DOMAIN c : p \in Seq(Names) /\ p # <<>> /\ Last(p) \notin StatusNames
  BY <1>2, <1>3 DEF HasPaths
<1> QED BY <1>5, <1>6, <1>7, <1>9, <1>10, <1>11

\* Nothing is demanded where the schema has no more than optional elements.
LEMMA NothingDemanded ==
    ASSUME NEW content, NEW p, NEW object, object = <<>> \o Generic(p),
           \A n \in Names : Append(object, n) \in DOMAIN OrganisationInsertSchema =>
               n = "*" /\ OrganisationInsertSchema[Append(object, n)] = "optional"
    PROVE  Complete(<<>>, content, p)
<1>1. ASSUME NEW e \in InsertDemands, Front(e) = object PROVE FALSE
  <2>1. e \in DOMAIN OrganisationInsertSchema /\ OrganisationInsertSchema[e] = "required"
    BY DEF InsertDemands, Demands
  <2>2. Last(e) \in Names /\ e = Append(object, Last(e))
    BY <1>1, <2>1, FieldNames
  <2>3. OrganisationInsertSchema[Append(object, Last(e))] = "optional"
    BY <2>1, <2>2
  <2> QED BY <2>1, <2>2, <2>3
<1>2. object \notin InsertUsers
  <2>1. "role" \in Names /\ "role" # "*"
    BY DEF Names
  <2>2. object \in InsertUsers => Append(object, "role") \in DOMAIN OrganisationInsertSchema
    BY FieldNames
  <2> QED BY <2>1, <2>2
<1> QED BY <1>1, <1>2 DEF Complete

LEMMA VersionFields == \A n \in {"version", "schemaVersion"} : <<n>> \in DOMAIN OrganisationInsertSchema
<1> DEFINE names == {"schemaVersion", "version", "reprocessingNations", "businessType"}
           u == Keys(names, "optional")
           parts == {
             Keys({"id", "orgId", "wasteProcessingTypes", "formSubmissionTime", "submittedToRegulator"}, "required"),
             Keys({"status"}, "forbidden"), u,
             Object("companyDetails", "optional", CompanyDetailsSchema),
             Object("partnership", "optional", PartnershipSchema),
             Object("submitterContactDetails", "required", UserSchema),
             Object("managementContactDetails", "optional", UserSchema),
             ListOf("registrations", "optional", RegistrationSchema),
             ListOf("accreditations", "optional", AccreditationSchema)}
<1>1. OrganisationInsertSchema = Together(parts) /\ u \in parts
  BY DEF OrganisationInsertSchema
<1> HIDE DEF parts
<1>2. names \in SUBSET Names
  BY DEF Names
<1> HIDE DEF names
<1>3. \A n \in names : <<n>> \in DOMAIN u
  BY <1>2, KeysFields
<1> HIDE DEF u
<1>4. DOMAIN OrganisationInsertSchema = UNION {DOMAIN s : s \in parts}
  BY <1>1, PartsTogether, Zenon
<1>5. \A n \in names : <<n>> \in DOMAIN OrganisationInsertSchema
  BY <1>1, <1>3, <1>4
<1> QED BY <1>5 DEF names

LEMMA GenericOfOne ==
    ASSUME NEW n \in Names, n \notin Range(Elements)
    PROVE  Generic(<<n>>) = <<n>>
<1>1. Append(<<>>, n) = <<n>>
  BY OneName
<1>2. Generic(Append(<<>>, n)) = Append(Generic(<<>>), n)
  BY EmptySeq, GenericAppended
<1> QED BY <1>1, <1>2, GenericOfNone

LEMMA VersionsAndLists ==
    ASSUME NEW content, NEW p, VersionPath(p) \/ ListPath(p)
    PROVE  Complete(<<>>, content, p)
<1>1. PICK n \in {"version", "schemaVersion"} \cup Lists : p = <<n>>
  BY Zenon DEF VersionPath, ListPath
<1>2. n \in Names /\ n \notin Range(Elements)
  <2>1. CASE n \in Lists
    BY <2>1, ElementNames
  <2>2. CASE n \in {"version", "schemaVersion"}
    <3>1. n \in Names
      BY <2>2 DEF Names
    <3>2. <<n>> \in DOMAIN OrganisationInsertSchema
      BY <2>2, VersionFields
    <3> QED BY <3>1, <3>2, NameOfField
  <2> QED BY <1>1, <2>1, <2>2
<1>3. <<n>> \in Seq(Names) /\ Len(<<n>>) = 1 /\ <<n>>[1] = n
  BY <1>2, OneName
<1>4. Generic(<<n>>) = <<n>>
  BY <1>2, GenericOfOne
<1>5. <<>> \o Generic(p) = <<n>>
  <2>1. <<>> \o Generic(<<n>>) = Generic(<<n>>)
    BY <1>3, OfRoot
  <2> QED BY <1>1, <1>4, <2>1, Zenon
<1>6. ASSUME NEW x \in Names, Append(<<n>>, x) \in DOMAIN OrganisationInsertSchema
      PROVE  x = "*" /\ OrganisationInsertSchema[Append(<<n>>, x)] = "optional"
  <2>1. PICK f : f = Append(<<n>>, x)
    OBVIOUS
  <2>2. f[1] = n /\ Len(f) = 2 /\ f[2] = x
    BY <1>2, <1>3, <2>1, Appended
  <2>3. n \in Lists
    <3>1. f \in DOMAIN OrganisationInsertSchema
      BY <1>6, <2>1
    <3>2. f[1] \in {"version", "schemaVersion"} => Len(f) = 1
      BY <3>1, InsertFields
    <3> QED BY <1>1, <2>2, <3>2
  <2>4. f = <<n, "*">> /\ OrganisationInsertSchema[f] = "optional"
    BY <1>6, <2>1, <2>2, <2>3, InsertFields
  <2>5. f[2] = "*"
    BY <2>4
  <2> QED BY <2>1, <2>2, <2>4, <2>5
<1> QED BY <1>5, <1>6, NothingDemanded

LEMMA LastMoved ==
    ASSUME NEW path \in Seq(Names), NEW q \in Seq(Names), q # <<>>
    PROVE  Last(path \o q) = Last(q)
<1>1. /\ path \o q \in Seq(Names) /\ Len(path \o q) = Len(path) + Len(q)
      /\ \A i \in 1..Len(q) : (path \o q)[Len(path) + i] = q[i]
  BY NamesPrefixed
<1>2. Len(q) \in Nat \ {0} /\ Len(path) \in Nat
  BY TakenApart, LenProperties
<1>3. Len(q) \in 1..Len(q)
  BY <1>2
<1> QED BY <1>1, <1>2, <1>3 DEF Last

\* An insert demands nothing of a document that a GET does not show of it.
LEMMA OwnIsShownComplete ==
    ASSUME NEW d, SoundDocument(d), TypedDocument(d), NEW c, c = WithoutStatuses(Shown(d)),
           NEW p, p = <<>> \/ OwnPath(d, p)
    PROVE  Complete(<<>>, c, p)
<1>1. HasPaths(d.content) /\ Whole(<<>>, d.content) /\ Named(d.content) \cap Lists = {}
  BY DEF SoundDocument, TypedDocument
<1>2. Complete(<<>>, d.content, p) /\ p \in Seq(Names)
  BY <1>1, EmptySeq DEF Whole, OwnPath, HasPaths
<1>3. ASSUME NEW n \in Names \ Range(Elements), n \notin StatusNames, Append(p, n) \in DOMAIN d.content
      PROVE  Append(p, n) \in DOMAIN c
  <2>1. PICK r : r = Append(p, n)
    OBVIOUS
  <2>2. r[1] \notin Lists
    BY <1>1, <1>3, <2>1 DEF Named
  <2>3. CASE r[1] \notin ShownNames
    <3>1. OwnPath(d, r)
      BY <1>3, <2>1, <2>2, <2>3 DEF OwnPath
    <3> QED BY <2>1, <3>1, ShownValues
  <2>4. CASE r[1] \in ShownNames
    <3>1. p = <<>>
      <4>1. SUFFICES ASSUME OwnPath(d, p), p # <<>> PROVE FALSE
        OBVIOUS
      <4>2. r[1] = p[1]
        <5>1. Len(p) \in Nat \ {0}
          BY <1>2, <4>1, TakenApart
        <5> QED BY <1>2, <2>1, <5>1, Appended
      <4> QED BY <2>4, <4>1, <4>2 DEF OwnPath
    <3>2. r = <<n>>
      BY <2>1, <3>1, OneName
    <3>3. r[1] = n
      BY <3>2
    <3>4. n = "version" \/ n = "schemaVersion"
      BY <1>3, <2>4, <3>3 DEF ShownNames, StatusNames
    <3>5. VersionPath(r)
      BY <3>2, <3>4, Zenon DEF VersionPath
    <3> QED BY <2>1, <3>5, ShownValues
  <2> QED BY <2>3, <2>4
<1> QED BY <1>2, <1>3, CompleteMoved

Reaches(content1, p1, content2, p2) ==
    \A n \in Names \ Range(Elements) :
        n \notin StatusNames /\ Append(p1, n) \in DOMAIN content1 => Append(p2, n) \in DOMAIN content2

LEMMA CompleteHere ==
    ASSUME NEW place, NEW content1, NEW p1, NEW content2, NEW p2, place \o Generic(p1) = <<>> \o Generic(p2),
           Complete(place, content1, p1), Reaches(content1, p1, content2, p2)
    PROVE  Complete(<<>>, content2, p2)
BY CompleteMoved DEF Reaches

LEMMA ItemIsShownComplete ==
    ASSUME NEW d, SoundDocument(d), TypedDocument(d), NEW c, c = WithoutStatuses(Shown(d)),
           NEW list \in Lists, NEW k \in 1..Len(d.items[list]), NEW path, path = <<list, Elements[k]>>,
           NEW content, content = d.items[list][k].content,
           NEW q, q = <<>> \/ (q \in DOMAIN content /\ q[1] \notin StatusNames)
    PROVE  Complete(<<>>, c, path \o q)
<1>1. HasPaths(content) /\ Whole(<<list, "*">>, content)
  BY DEF SoundDocument, TypedDocument, SoundItem, TypedItem
<1>2. PICK place : place = <<list, "*">>
  OBVIOUS
<1>3. Complete(place, content, q) /\ q \in Seq(Names)
  <2>1. Complete(<<list, "*">>, content, q)
    BY <1>1 DEF Whole
  <2>2. q \in Seq(Names)
    BY <1>1, EmptySeq DEF HasPaths
  <2> QED BY <1>2, <2>1, <2>2
<1>4. k \in DOMAIN Elements
  <2>1. DOMAIN Elements = 1..Len(Elements) /\ Len(Elements) \in Nat
    BY ElementsAssumption
  <2>2. Len(d.items[list]) \in Nat /\ Len(d.items[list]) <= Len(Elements)
    BY ListIsSeq DEF SoundDocument
  <2> QED BY <2>1, <2>2
<1>5. path \in Seq(Names) /\ Generic(path) = place
  <2>1. Generic(path) = <<list, "*">>
    BY <1>4, ElementPath
  <2>2. path \in Seq(Names)
    BY <1>4, ElementPath
  <2> QED BY <1>2, <2>1, <2>2
<1>6. PICK p : p = path \o q
  OBVIOUS
<1>7. p \in Seq(Names) /\ \A n \in Names : Append(p, n) = path \o Append(q, n)
  BY <1>3, <1>5, <1>6, NamesPrefixed
<1>8. place \o Generic(q) = <<>> \o Generic(p)
  <2>1. Generic(path \o q) = Generic(path) \o Generic(q)
    BY <1>3, <1>5, GenericPrefixed
  <2>2. <<>> \o Generic(p) = Generic(p)
    BY <1>7, OfRoot
  <2> QED BY <1>5, <1>6, <2>1, <2>2, Zenon
<1>9. ASSUME NEW n \in Names \ Range(Elements), n \notin StatusNames, Append(q, n) \in DOMAIN content
      PROVE  Append(p, n) \in DOMAIN c
  <2>1. PICK r : r = Append(q, n)
    OBVIOUS
  <2>2. r[1] \notin StatusNames
    <3>1. CASE q = <<>>
      <4>1. r = <<n>>
        BY <2>1, <3>1, OneName
      <4>2. r[1] = n
        BY <4>1
      <4> QED BY <1>9, <4>2
    <3>2. CASE q # <<>>
      <4>1. Len(q) \in Nat \ {0}
        BY <1>3, <3>2, TakenApart
      <4>2. r[1] = q[1]
        BY <1>3, <2>1, <4>1, Appended
      <4> QED BY <3>2, <4>2
    <3> QED BY <3>1, <3>2
  <2>3. PICK t : t = path \o r
    OBVIOUS
  <2>4. t = <<list, Elements[k]>> \o r
    BY <2>3, Zenon
  <2>5. FieldPath(d, t, list, k, r)
    BY <1>9, <2>1, <2>2, <2>4 DEF FieldPath
  <2>6. t \in DOMAIN c
    BY <2>5, ShownValues
  <2> QED BY <1>7, <2>1, <2>3, <2>6
<1>10. Complete(<<>>, c, p)
  <2>1. Reaches(content, q, c, p)
    BY <1>9, Zenon DEF Reaches
  <2> QED BY <1>3, <1>8, <2>1, CompleteHere
<1> QED BY <1>6, <1>10

LEMMA KindsComplete ==
    ASSUME NEW d, SoundDocument(d), TypedDocument(d), NEW c, c = WithoutStatuses(Shown(d)),
           NEW p \in DOMAIN c
    PROVE  Complete(<<>>, c, p) /\ c[p] # Bad
<1>1. CASE OwnPath(d, p)
  <2>1. c[p] = d.content[p]
    BY <1>1, ShownValues
  <2>2. d.content[p] # Bad
    BY <1>1 DEF OwnPath, SoundDocument, Whole, FieldsKnown
  <2> QED BY <1>1, <2>1, <2>2, OwnIsShownComplete
<1>2. CASE VersionPath(p)
  <2>1. c[p] = "stored"
    BY <1>2, ShownValues
  <2> QED BY <1>2, <2>1, VersionsAndLists DEF Bad
<1>3. CASE ListPath(p)
  <2>1. c[p] = "object"
    BY <1>3, ShownValues
  <2> QED BY <1>3, <2>1, VersionsAndLists DEF Bad
<1>4. CASE ItemPath(d, p)
  <2>1. c[p] = "object"
    BY <1>4, ShownValues
  <2>2. PICK list \in Lists : \E k \in 1..Len(d.items[list]) : p = <<list, Elements[k]>>
    BY <1>4, Zenon DEF ItemPath
  <2>3. PICK k \in 1..Len(d.items[list]) : p = <<list, Elements[k]>>
    BY <2>2, Zenon
  <2>4. PICK content : content = d.items[list][k].content
    OBVIOUS
  <2>5. PICK none : none = <<>>
    OBVIOUS
  <2>6. Complete(<<>>, c, p \o none)
    BY <2>3, <2>4, <2>5, ItemIsShownComplete, Zenon
  <2>7. p \o none = p
    BY <2>5, ShownValues, ConcatEmptySeq
  <2> QED BY <2>1, <2>6, <2>7 DEF Bad
<1>5. CASE InItemPath(d, p)
  <2>1. PICK list \in Lists : \E k \in 1..Len(d.items[list]) : \E q : FieldPath(d, p, list, k, q)
    BY <1>5, Zenon DEF InItemPath
  <2>2. PICK k \in 1..Len(d.items[list]) : \E q : FieldPath(d, p, list, k, q)
    BY <2>1, Zenon
  <2>3. PICK q : FieldPath(d, p, list, k, q)
    BY <2>2, Zenon
  <2>4. PICK content : content = d.items[list][k].content
    OBVIOUS
  <2>5. c[p] = content[q]
    BY <2>3, <2>4, ShownValues
  <2>6. q \in DOMAIN content /\ q[1] \notin StatusNames /\ p = <<list, Elements[k]>> \o q
    BY <2>3, <2>4, Zenon DEF FieldPath
  <2>7. content[q] # Bad
    BY <2>4, <2>6 DEF SoundDocument, SoundItem, Whole, FieldsKnown
  <2>8. PICK path : path = <<list, Elements[k]>>
    OBVIOUS
  <2>9. Complete(<<>>, c, path \o q)
    BY <2>4, <2>6, <2>8, ItemIsShownComplete, Zenon
  <2>10. p = path \o q
    BY <2>6, <2>8, Zenon
  <2> QED BY <2>5, <2>7, <2>9, <2>10
<1> QED BY <1>1, <1>2, <1>3, <1>4, <1>5, ShownKinds

LEMMA ShownIsInsert ==
    ASSUME NEW d, SoundDocument(d), TypedDocument(d)
    PROVE  IsInsert(WithoutStatuses(Shown(d)))
<1> PICK c : c = WithoutStatuses(Shown(d))
  OBVIOUS
<1>1. ASSUME NEW p \in DOMAIN c, Generic(p) \in DOMAIN OrganisationInsertSchema
      PROVE  c[p] # Bad /\ OrganisationInsertSchema[Generic(p)] # "forbidden"
  <2>1. p \in Seq(Names) /\ p # <<>> /\ Last(p) \notin StatusNames
    BY ShownValues
  <2>2. OrganisationInsertSchema[Generic(p)] = "forbidden" <=> Last(Generic(p)) = "status"
    BY <1>1, RegularInsert DEF Regular
  <2>3. Last(Generic(p)) # "status"
    <3>1. /\ Len(Generic(p)) = Len(p)
          /\ \A i \in 1..Len(p) : Generic(p)[i] = IF p[i] \in Range(Elements) THEN "*" ELSE p[i]
      BY <2>1, GenericPath
    <3>2. Len(p) \in Nat \ {0}
      BY <2>1, TakenApart
    <3>3. Generic(p)[Len(p)] = IF p[Len(p)] \in Range(Elements) THEN "*" ELSE p[Len(p)]
      BY <3>1, <3>2
    <3> QED BY <2>1, <3>1, <3>3 DEF Last, StatusNames
  <2> QED BY <2>2, <2>3, KindsComplete
<1>2. ASSUME NEW p \in DOMAIN c \cup {<<>>}
      PROVE  /\ \A e \in InsertDemands : Front(e) = Generic(p) => Append(p, Last(e)) \in DOMAIN c
             /\ Generic(p) \in InsertUsers => {Append(p, "role"), Append(p, "title")} \cap DOMAIN c # {}
  <2>1. Complete(<<>>, c, p)
    BY OwnIsShownComplete, KindsComplete
  <2>2. p \in Seq(Names)
    BY ShownValues, EmptySeq
  <2>3. <<>> \o Generic(p) = Generic(p)
    BY <2>2, OfRoot
  <2> QED BY <2>1, <2>3, Zenon DEF Complete
<1>3. IsInsert(c)
  BY <1>1, <1>2 DEF IsInsert, Accepts
<1> QED BY <1>3

\* After any updates, whatever was in their fragments, the stored organisation is one
\* that validateOrganisationInsert takes, and no item is in it twice.
THEOREM StoredValid == EditsSpec => []StoredStaysValid
<1>1. StoreInv => StoredStaysValid
  BY ShownIsInsert, Zenon DEF StoreInv, EditsInv, DocumentSound, SoundDocument, TypedStore, StoredStaysValid
<1> QED BY <1>1, StoreInductive, PTL
--------------------------------------------------------------------------------
(* What was shown is put back *)

LEMMA LastIsGood == ASSUME NEW statuses, SoundHistory(statuses) PROVE Last(statuses) # Bad
<1>1. PICK n \in Nat : n = Len(statuses) /\ DOMAIN statuses = 1..n
  BY ListIsSeq DEF SoundHistory
<1>2. n # 0
  <2>1. CASE n = 0
    <3>1. statuses = [k \in 1..n |-> statuses[k]] /\ statuses # <<>>
      BY <1>1, Zenon DEF SoundHistory, IsList
    <3>2. statuses = <<>>
      BY <2>1, <3>1
    <3> QED BY <3>1, <3>2
  <2> QED BY <2>1
<1>3. Last(statuses) \in Range(statuses)
  BY <1>1, <1>2 DEF Last, Range
<1> QED BY <1>3 DEF SoundHistory

StatusPath(d, p, value) ==
    \/ p = <<"status">> /\ value = Last(d.statuses)
    \/ p = <<"statusHistory">> /\ value = "stored"
    \/ \E list \in Lists : \E k \in 1..Len(d.items[list]) :
          \/ p = <<list, Elements[k]>> \o <<"status">> /\ value = Last(d.items[list][k].statuses)
          \/ p = <<list, Elements[k]>> \o <<"statusHistory">> /\ value = "stored"

LEMMA ShownStatuses ==
    ASSUME NEW d, SoundDocument(d), TypedDocument(d), NEW s, s = Shown(d),
           NEW p \in DOMAIN s, Last(p) \in StatusNames
    PROVE  StatusPath(d, p, s[p])
<1>1. CASE p[1] \notin Lists
  <2>1. (\E n \in ShownNames : p = <<n>>) \/ (p \in DOMAIN d.content /\ p[1] \notin ShownNames)
    BY <1>1, ShownFields
  <2>2. ASSUME NEW n \in ShownNames, p = <<n>> PROVE StatusPath(d, p, s[p])
    <3>1. Last(p) = n
      BY <2>2 DEF Last
    <3>2. CASE n = "status"
      <4>1. s[<<"status">>] = Last(d.statuses)
        BY ShownFields
      <4> QED BY <2>2, <3>2, <4>1, Zenon DEF StatusPath
    <3>3. CASE n = "statusHistory"
      <4>1. s[<<n>>] = "stored"
        BY <3>3, ShownFields
      <4> QED BY <2>2, <3>3, <4>1, Zenon DEF StatusPath
    <3> QED BY <3>1, <3>2, <3>3 DEF StatusNames
  <2>3. ASSUME p \in DOMAIN d.content, p[1] \notin ShownNames PROVE FALSE
    <3>1. HasPaths(d.content) /\ FieldsKnown(<<>>, d.content)
      BY DEF SoundDocument, TypedDocument, Whole
    <3>2. p = <<"status">>
      BY <2>3, <3>1, RootPlace, KnownNames
    <3>3. p[1] = "status"
      BY <3>2
    <3> QED BY <2>3, <3>3 DEF ShownNames
  <2> QED BY <2>1, <2>2, <2>3
<1>2. ASSUME NEW list \in Lists, p[1] = list PROVE StatusPath(d, p, s[p])
  <2>1. PICK items : items = d.items[list]
    OBVIOUS
  <2>2. PICK l : l = Listed(list, items)
    OBVIOUS
  <2>3. p \in DOMAIN l /\ s[p] = l[p]
    BY <1>2, <2>1, <2>2, ShownFields
  <2>4. IsList(items) /\ Len(items) <= Len(Elements)
        /\ \A k \in 1..Len(items) : TypedItem(items[k]) /\ SoundItem(list, items[k])
    BY <2>1 DEF SoundDocument, TypedDocument
  <2>5. ListsShown(l, list, items)
    BY <2>2, <2>4, ListedFields
  <2>6. \/ p = <<list>>
        \/ \E k \in 1..Len(items) : p = <<list, Elements[k]>>
        \/ \E k \in 1..Len(items) : \E q \in DOMAIN ShownItem(items[k]) :
              p = <<list, Elements[k]>> \o q /\ l[p] = ShownItem(items[k])[q]
    BY <2>3, <2>5, Zenon DEF ListsShown
  <2>7. p # <<list>>
    <3>1. Last(<<list>>) = list
      BY DEF Last
    <3>2. list \notin StatusNames
      BY DEF StatusNames, Lists
    <3> QED BY <3>1, <3>2
  <2>8. 1..Len(items) \subseteq DOMAIN Elements
    <3>1. DOMAIN Elements = 1..Len(Elements) /\ Len(Elements) \in Nat /\ Len(items) \in Nat
      BY <2>4, ElementsAssumption, ListIsSeq
    <3> QED BY <2>4, <3>1
  <2>9. ASSUME NEW k \in 1..Len(items) PROVE p # <<list, Elements[k]>>
    <3>1. PICK path : path = <<list, Elements[k]>>
      OBVIOUS
    <3>2. Last(path) \notin StatusNames
      BY <2>8, <3>1, ElementPath
    <3> QED BY <3>1, <3>2
  <2>10. PICK k \in 1..Len(items) : \E q \in DOMAIN ShownItem(items[k]) :
              p = <<list, Elements[k]>> \o q /\ l[p] = ShownItem(items[k])[q]
    BY <2>6, <2>7, <2>9, Zenon
  <2>11. PICK x : x = ShownItem(items[k])
    OBVIOUS
  <2>12. PICK q \in DOMAIN x : p = <<list, Elements[k]>> \o q /\ l[p] = x[q]
    BY <2>10, <2>11, Zenon
  <2>13. HasPaths(items[k].content) /\ FieldsKnown(<<list, "*">>, items[k].content)
    BY <2>4 DEF TypedItem, SoundItem, Whole
  <2>14. /\ HasPaths(x)
         /\ \/ q \in {<<"status">>, <<"statusHistory">>}
            \/ q \in DOMAIN items[k].content /\ q[1] \notin {"status", "statusHistory"}
         /\ x[<<"status">>] = Last(items[k].statuses) /\ x[<<"statusHistory">>] = "stored"
    BY <2>11, <2>13, ShownItemFields
  <2>15. q \in Seq(Names) /\ q # <<>>
    BY <2>14 DEF HasPaths
  <2>16. PICK path : path = <<list, Elements[k]>>
    OBVIOUS
  <2>17. path \in Seq(Names)
    BY <2>8, <2>16, ElementPath
  <2>18. p = path \o q
    BY <2>12, <2>16, Zenon
  <2>19. Last(q) \in StatusNames
    BY <2>15, <2>17, <2>18, LastMoved
  <2>20. q = <<"status">> \/ q = <<"statusHistory">>
    <3>1. ASSUME q \in DOMAIN items[k].content, q[1] \notin {"status", "statusHistory"} PROVE FALSE
      <4>1. q = <<"status">>
        BY <2>13, <2>19, <3>1, RootPlace, KnownNames
      <4>2. q[1] = "status"
        BY <4>1
      <4> QED BY <3>1, <4>2
    <3> QED BY <2>14, <3>1
  <2>21. k \in 1..Len(d.items[list]) /\ items[k] = d.items[list][k]
    BY <2>1
  <2>22. CASE q = <<"status">>
    <3>1. s[p] = Last(d.items[list][k].statuses)
      BY <2>3, <2>12, <2>14, <2>21, <2>22
    <3>2. p = <<list, Elements[k]>> \o <<"status">>
      BY <2>12, <2>22, Zenon
    <3> QED BY <2>21, <3>1, <3>2, Zenon DEF StatusPath
  <2>23. CASE q = <<"statusHistory">>
    <3>1. s[p] = "stored"
      BY <2>3, <2>12, <2>14, <2>23
    <3>2. p = <<list, Elements[k]>> \o <<"statusHistory">>
      BY <2>12, <2>23, Zenon
    <3> QED BY <2>21, <3>1, <3>2, Zenon DEF StatusPath
  <2> QED BY <2>20, <2>22, <2>23
<1> QED BY <1>1, <1>2

\* Statuses have no fields, and one of its statuses can be set of an item.
LEMMA StatusIsSettable ==
    ASSUME NEW d, SoundDocument(d), NEW p \in Seq(Names), p # <<>>, NEW value, StatusPath(d, p, value)
    PROVE  /\ value # Bad
           /\ Last(p) = "status" => Len(p) = 1 \/ (Len(p) = 3 /\ p[3] = "status")
<1>1. CASE p = <<"status">> /\ value = Last(d.statuses)
  <2>1. Len(p) = 1
    BY <1>1
  <2> QED BY <1>1, <2>1, LastIsGood DEF SoundDocument
<1>2. CASE p = <<"statusHistory">> /\ value = "stored"
  <2>1. Len(p) = 1
    BY <1>2
  <2> QED BY <1>2, <2>1 DEF Bad
<1>3. ASSUME NEW list \in Lists, NEW k \in 1..Len(d.items[list]), NEW n \in StatusNames,
             p = <<list, Elements[k]>> \o <<n>>
      PROVE  Len(p) = 3 /\ p[3] = n
  <2>1. k \in DOMAIN Elements
    <3>1. DOMAIN Elements = 1..Len(Elements) /\ Len(Elements) \in Nat
      BY ElementsAssumption
    <3>2. Len(d.items[list]) \in Nat /\ Len(d.items[list]) <= Len(Elements)
      BY ListIsSeq DEF SoundDocument
    <3> QED BY <3>1, <3>2
  <2>2. PICK path : path = <<list, Elements[k]>>
    OBVIOUS
  <2>3. PICK q : q = <<n>>
    OBVIOUS
  <2>4. path \in Seq(Names) /\ Len(path) = 2
    BY <2>1, <2>2, ElementPath
  <2>5. q \in Seq(Names) /\ Len(q) = 1 /\ q[1] = n
    <3>1. n \in Names
      BY DEF StatusNames, Names
    <3> QED BY <2>3, <3>1, OneName
  <2>6. p = path \o q
    BY <1>3, <2>2, <2>3, Zenon
  <2>7. Len(path \o q) = Len(path) + Len(q) /\ \A i \in 1..Len(q) : (path \o q)[Len(path) + i] = q[i]
    BY <2>4, <2>5, NamesPrefixed
  <2> QED BY <2>4, <2>5, <2>6, <2>7
<1>4. "status" \in StatusNames /\ "statusHistory" \in StatusNames
  BY DEF StatusNames
<1>5. ASSUME NEW list \in Lists, NEW k \in 1..Len(d.items[list]),
             p = <<list, Elements[k]>> \o <<"status">>, value = Last(d.items[list][k].statuses)
      PROVE  value # Bad /\ Len(p) = 3 /\ p[3] = "status"
  <2>1. SoundHistory(d.items[list][k].statuses)
    BY DEF SoundDocument, SoundItem
  <2> QED BY <1>3, <1>4, <1>5, <2>1, LastIsGood
<1>6. ASSUME NEW list \in Lists, NEW k \in 1..Len(d.items[list]),
             p = <<list, Elements[k]>> \o <<"statusHistory">>, value = "stored"
      PROVE  value # Bad /\ Last(p) # "status"
  <2>1. Len(p) = 3 /\ p[3] = "statusHistory"
    BY <1>3, <1>4, <1>6
  <2> QED BY <1>6, <2>1 DEF Bad, Last
<1> QED BY <1>1, <1>2, <1>5, <1>6, Zenon DEF StatusPath

LEMMA NothingUnderStatus ==
    ASSUME NEW p \in Seq(Names), p # <<>>, Last(p) \in StatusNames
    PROVE  /\ Len(Generic(p)) = Len(p) /\ Last(Generic(p)) = Last(p)
           /\ \A n \in Names : Append(Generic(p), n) \notin DOMAIN OrganisationInsertSchema
<1>1. PICK g : g = Generic(p)
  OBVIOUS
<1>2. PICK m \in Nat \ {0} : m = Len(p)
  BY TakenApart
<1>3. g \in Seq(Names) /\ Len(g) = m /\ \A i \in 1..m : g[i] = IF p[i] \in Range(Elements) THEN "*" ELSE p[i]
  BY <1>1, <1>2, GenericPath
<1>4. \A n \in StatusNames : n \notin Range(Elements)
  <2>1. "status" \in Names /\ <<"status">> \in DOMAIN OrganisationInsertSchema
    BY InsertFields DEF Names
  <2> QED BY <2>1, NameOfField, ElementsAssumption DEF StatusNames
<1>5. p[m] \in StatusNames /\ g[m] = p[m]
  BY <1>2, <1>3, <1>4 DEF Last
<1>6. Last(g) = Last(p)
  BY <1>2, <1>3, <1>5 DEF Last
<1>7. ASSUME NEW n \in Names, Append(g, n) \in DOMAIN OrganisationInsertSchema PROVE FALSE
  <2>1. PICK f : f = Append(g, n)
    OBVIOUS
  <2>2. Len(f) = m + 1 /\ f[m] = g[m]
    BY <1>3, <2>1, Appended
  <2>3. \A i \in 1..Len(f) : f[i] # "statusHistory" /\ (f[i] = "status" => i = Len(f))
    BY <1>7, <2>1, RegularInsert DEF Regular
  <2> QED BY <1>5, <2>2, <2>3 DEF StatusNames
<1> QED BY <1>1, <1>2, <1>3, <1>6, <1>7

LEMMA GenericOfField ==
    ASSUME NEW p \in Seq(Names), p # <<>>
    PROVE  /\ Len(Generic(p)) = Len(p) /\ Len(p) \in Nat \ {0}
           /\ (Generic(p)[1] = p[1] \/ Generic(p)[1] = "*")
           /\ (Last(Generic(p)) = Last(p) \/ Last(Generic(p)) = "*")
<1>1. PICK g : g = Generic(p)
  OBVIOUS
<1>2. PICK m \in Nat \ {0} : m = Len(p)
  BY TakenApart
<1>3. g \in Seq(Names) /\ Len(g) = m /\ \A i \in 1..m : g[i] = IF p[i] \in Range(Elements) THEN "*" ELSE p[i]
  BY <1>1, <1>2, GenericPath
<1>4. (g[1] = p[1] \/ g[1] = "*") /\ (g[m] = p[m] \/ g[m] = "*")
  BY <1>2, <1>3
<1> QED BY <1>1, <1>2, <1>3, <1>4 DEF Last

LEMMA ShownIsSettable ==
    ASSUME NEW d, SoundDocument(d), TypedDocument(d), NEW s, s = Shown(d),
           NEW p \in DOMAIN s, p[1] \notin NonUpdatableFields, Generic(p) \in DOMAIN OrganisationInsertSchema
    PROVE  s[p] # Bad /\ OrganisationUpdateSchema[Generic(p)] # "forbidden"
<1>1. PICK g : g = Generic(p)
  OBVIOUS
<1>2. p \in Seq(Names) /\ p # <<>>
  BY ShownFields DEF HasPaths
<1>3. /\ Len(g) = Len(p) /\ Len(p) \in Nat \ {0}
      /\ (g[1] = p[1] \/ g[1] = "*") /\ (Last(g) = Last(p) \/ Last(g) = "*")
  BY <1>1, <1>2, GenericOfField
<1>4. OrganisationInsertSchema[g] = "forbidden" <=> Last(g) = "status"
  BY <1>1, RegularInsert DEF Regular
<1>5. /\ Len(g) > 1 /\ OrganisationUpdateSchema[g] = "forbidden" =>
           OrganisationInsertSchema[g] = "forbidden" /\ (Len(g) = 3 => g[3] # "status")
      /\ Len(g) = 1 /\ OrganisationUpdateSchema[g] = "forbidden" => g[1] \in NonUpdatableFields
  BY <1>1, UpdateFields
<1>6. "*" \notin NonUpdatableFields /\ "*" # "status"
  BY DEF NonUpdatableFields
<1>7. PICK m \in Nat \ {0} : m = Len(g) /\ m = Len(p)
  BY <1>3
<1>8. m = 1 \/ m > 1
  OBVIOUS
<1>9. Len(g) = 1 => OrganisationUpdateSchema[g] # "forbidden"
  BY <1>3, <1>5, <1>6
<1>10. CASE Last(p) \in StatusNames
  <2>1. s[p] # Bad /\ (Last(p) = "status" => Len(p) = 1 \/ (Len(p) = 3 /\ p[3] = "status"))
    <3>1. StatusPath(d, p, s[p])
      BY <1>10, ShownStatuses
    <3> QED BY <1>2, <3>1, StatusIsSettable
  <2>2. Last(g) = Last(p)
    BY <1>1, <1>2, <1>10, NothingUnderStatus
  <2>3. Len(g) > 1 => OrganisationUpdateSchema[g] # "forbidden"
    <3>1. ASSUME Len(g) > 1, OrganisationUpdateSchema[g] = "forbidden" PROVE FALSE
      <4>1. Last(g) = "status" /\ (Len(g) = 3 => g[3] # "status")
        BY <1>4, <1>5, <3>1
      <4>2. Len(g) = 3
        BY <1>7, <2>1, <2>2, <3>1, <4>1
      <4> QED BY <4>1, <4>2 DEF Last
    <3> QED BY <3>1
  <2> QED BY <1>1, <1>7, <1>8, <1>9, <2>1, <2>3
<1>11. CASE Last(p) \notin StatusNames
  <2>1. PICK c : c = WithoutStatuses(s)
    OBVIOUS
  <2>2. p \in DOMAIN c /\ c[p] = s[p]
    BY <1>11, <2>1 DEF WithoutStatuses, StatusNames
  <2>3. c[p] # Bad
    BY <2>1, <2>2, KindsComplete
  <2>4. Last(g) # "status"
    BY <1>3, <1>6, <1>11 DEF StatusNames
  <2>5. Len(g) > 1 => OrganisationUpdateSchema[g] # "forbidden"
    BY <1>4, <1>5, <2>4
  <2> QED BY <1>1, <1>7, <1>8, <1>9, <2>2, <2>3, <2>5
<1> QED BY <1>10, <1>11

LEMMA ShownIsComplete ==
    ASSUME NEW d, SoundDocument(d), TypedDocument(d), NEW f, f = Sanitised(Shown(d)),
           NEW p \in DOMAIN f \cup {<<>>}
    PROVE  /\ \A e \in UpdateDemands : Front(e) = Generic(p) => Append(p, Last(e)) \in DOMAIN f
           /\ Generic(p) \in UpdateUsers => {Append(p, "role"), Append(p, "title")} \cap DOMAIN f # {}
<1>1. PICK s : s = Shown(d)
  OBVIOUS
<1>2. PICK c : c = WithoutStatuses(s)
  OBVIOUS
<1>3. \A r : r \in DOMAIN f <=> r \in DOMAIN s /\ r[1] \notin {"version", "id", "schemaVersion"}
  BY <1>1 DEF Sanitised, Without
<1>4. \A r : r \in DOMAIN c <=> r \in DOMAIN s /\ Last(r) \notin StatusNames
  BY <1>2 DEF WithoutStatuses, StatusNames
<1>5. HasPaths(s)
  BY <1>1, ShownFields
<1>6. p \in Seq(Names)
  BY <1>3, <1>5, EmptySeq DEF HasPaths
<1>7. CASE p # <<>> /\ Last(p) \in StatusNames
  <2>1. \A n \in Names : Append(Generic(p), n) \notin DOMAIN OrganisationInsertSchema
    BY <1>6, <1>7, NothingUnderStatus
  <2>2. ASSUME NEW e \in UpdateDemands, Front(e) = Generic(p) PROVE FALSE
    <3>1. e \in InsertDemands
      BY UpdateFields
    <3>2. e \in DOMAIN OrganisationInsertSchema
      BY <3>1 DEF InsertDemands, Demands
    <3>3. Last(e) \in Names /\ e = Append(Front(e), Last(e))
      BY <3>2, FieldNames
    <3> QED BY <2>1, <2>2, <3>2, <3>3
  <2>3. Generic(p) \notin UpdateUsers
    <3>1. UpdateUsers = InsertUsers
      BY UpdateFields
    <3>2. "role" \in Names
      BY DEF Names
    <3>3. Generic(p) \in InsertUsers => Append(Generic(p), "role") \in DOMAIN OrganisationInsertSchema
      BY FieldNames
    <3> QED BY <2>1, <3>1, <3>2, <3>3
  <2> QED BY <2>2, <2>3
<1>8. CASE p = <<>> \/ Last(p) \notin StatusNames
  <2>1. Complete(<<>>, c, p)
    <3>1. CASE p = <<>>
      BY <1>1, <1>2, <3>1, OwnIsShownComplete
    <3>2. CASE p # <<>>
      <4>1. p \in DOMAIN c
        BY <1>3, <1>4, <1>8, <3>2
      <4> QED BY <1>1, <1>2, <4>1, KindsComplete
    <3> QED BY <3>1, <3>2
  <2>2. <<>> \o Generic(p) = Generic(p)
    BY <1>6, OfRoot
  <2>3. /\ \A e \in InsertDemands : Front(e) = Generic(p) => Append(p, Last(e)) \in DOMAIN c
        /\ Generic(p) \in InsertUsers => {Append(p, "role"), Append(p, "title")} \cap DOMAIN c # {}
    BY <2>1, <2>2, Zenon DEF Complete
  <2>4. ASSUME NEW n \in Names, p # <<>> \/ n \in {"role", "title"}, Append(p, n) \in DOMAIN c
        PROVE  Append(p, n) \in DOMAIN f
    <3>1. PICK r : r = Append(p, n)
      OBVIOUS
    <3>2. r \in DOMAIN s
      BY <1>4, <2>4, <3>1
    <3>3. CASE p # <<>>
      <4>1. Len(p) \in Nat \ {0}
        BY <1>6, <3>3, TakenApart
      <4>2. r[1] = p[1]
        BY <1>6, <3>1, <4>1, Appended
      <4>3. p[1] \notin {"version", "id", "schemaVersion"}
        BY <1>3, <3>3
      <4> QED BY <1>3, <3>1, <3>2, <4>2, <4>3
    <3>4. CASE p = <<>>
      <4>1. r = <<n>>
        BY <3>1, <3>4, OneName
      <4>2. r[1] = n
        BY <4>1
      <4> QED BY <1>3, <2>4, <3>1, <3>2, <3>4, <4>2
    <3> QED BY <3>3, <3>4
  <2>5. ASSUME NEW e \in UpdateDemands, Front(e) = Generic(p) PROVE Append(p, Last(e)) \in DOMAIN f
    <3>1. e \in InsertDemands /\ Len(e) # 1
      BY UpdateFields
    <3>2. e \in DOMAIN OrganisationInsertSchema
      BY <3>1 DEF InsertDemands, Demands
    <3>3. Last(e) \in Names /\ e = Append(Front(e), Last(e)) /\ e \in Seq(Names) /\ e # <<>>
      BY <3>2, FieldNames
    <3>4. p # <<>>
      <4>1. CASE p = <<>>
        <5>1. Front(e) = <<>>
          BY <2>5, <4>1, GenericOfNone
        <5>2. e = <<Last(e)>>
          BY <3>3, <5>1, OneName
        <5>3. Len(e) = 1
          BY <5>2
        <5> QED BY <3>1, <5>3
      <4> QED BY <4>1
    <3> QED BY <2>3, <2>4, <2>5, <3>1, <3>3, <3>4
  <2>6. ASSUME Generic(p) \in UpdateUsers
        PROVE  {Append(p, "role"), Append(p, "title")} \cap DOMAIN f # {}
    <3>1. Generic(p) \in InsertUsers
      BY <2>6, UpdateFields
    <3>2. PICK n \in {"role", "title"} : Append(p, n) \in DOMAIN c
      BY <2>3, <3>1
    <3>3. n \in Names
      BY DEF Names
    <3>4. Append(p, n) \in DOMAIN f
      BY <2>4, <3>2, <3>3
    <3> QED BY <3>4
  <2> QED BY <2>5, <2>6
<1> QED BY <1>7, <1>8

LEMMA ShownIsUpdate ==
    ASSUME NEW d, SoundDocument(d), TypedDocument(d), NEW f, f = Sanitised(Shown(d))
    PROVE  IsUpdate(f)
<1>1. PICK s : s = Shown(d)
  OBVIOUS
<1>2. \A p \in DOMAIN f : p \in DOMAIN s /\ p[1] \notin NonUpdatableFields /\ f[p] = s[p]
  BY <1>1 DEF Sanitised, Without, NonUpdatableFields
<1>3. DOMAIN OrganisationUpdateSchema = DOMAIN OrganisationInsertSchema
  BY UpdateFields
<1>4. ASSUME NEW p \in DOMAIN f, Generic(p) \in DOMAIN OrganisationUpdateSchema
      PROVE  f[p] # Bad /\ OrganisationUpdateSchema[Generic(p)] # "forbidden"
  BY <1>1, <1>2, <1>3, <1>4, ShownIsSettable
<1>5. \A p \in DOMAIN f \cup {<<>>} :
        /\ \A e \in UpdateDemands : Front(e) = Generic(p) => Append(p, Last(e)) \in DOMAIN f
        /\ Generic(p) \in UpdateUsers => {Append(p, "role"), Append(p, "title")} \cap DOMAIN f # {}
  BY ShownIsComplete
<1> QED BY <1>4, <1>5, Zenon DEF IsUpdate, Accepts
--------------------------------------------------------------------------------
(* What is put back *)

\* What is given again, names aside, leaves the rest as it is.
LEMMA SpreadBack ==
    ASSUME NEW content, NEW update, NEW names,
           \A q \in DOMAIN update : q[1] \in names \/ (q \in DOMAIN content /\ content[q] = update[q]),
           \A q \in DOMAIN content : q[1] \notin names /\ q[1] \in Named(update) => q \in DOMAIN update
    PROVE  Without(Spread(content, update), names) = Without(content, names)
<1>1. PICK spread : spread = Spread(content, update)
  OBVIOUS
<1>2. /\ \A p : p \in DOMAIN spread <=>
           p \in DOMAIN update \/ (p \in DOMAIN content /\ p[1] \notin Named(update))
      /\ \A p \in DOMAIN update : spread[p] = update[p]
      /\ \A p \in DOMAIN content : p[1] \notin Named(update) => spread[p] = content[p]
  BY <1>1, SpreadFields
<1>3. \A p : p[1] \notin names => (p \in DOMAIN spread <=> p \in DOMAIN content)
  BY <1>2
<1>4. \A p \in DOMAIN spread : p[1] \notin names => spread[p] = content[p]
  BY <1>2
<1>5. Without(spread, names) = Without(content, names)
  BY <1>3, <1>4 DEF Without
<1> QED BY <1>1, <1>5

LEMMA HistoryPutBack ==
    ASSUME NEW update, NEW statuses, <<"status">> \in DOMAIN update => update[<<"status">>] = Last(statuses)
    PROVE  StatusHistoryWithChanges(update, statuses) = statuses
BY DEF StatusHistoryWithChanges, StatusOf

\* What a PUT makes of what a GET shows.
PutBack(d) == StripUnknown(OrganisationUpdateSchema, Sanitised(Shown(d)))

LEMMA PutBackFields ==
    ASSUME NEW d, SoundDocument(d), TypedDocument(d), NEW s, s = Shown(d), NEW u, u = PutBack(d)
    PROVE  /\ HasPaths(u)
           /\ \A p : p \in DOMAIN u <=>
                /\ p \in DOMAIN s /\ p[1] \notin {"version", "id", "schemaVersion"}
                /\ Generic(p) \in DOMAIN OrganisationInsertSchema
           /\ \A p \in DOMAIN u : u[p] = s[p]
<1>1. PICK f : f = Sanitised(s)
  OBVIOUS
<1>2. /\ \A p : p \in DOMAIN f <=> p \in DOMAIN s /\ p[1] \notin {"version", "id", "schemaVersion"}
      /\ \A p \in DOMAIN f : f[p] = s[p]
  BY <1>1 DEF Sanitised, Without
<1>3. PICK schema : schema = OrganisationUpdateSchema
  OBVIOUS
<1>4. DOMAIN schema = DOMAIN OrganisationInsertSchema
  BY <1>3, UpdateFields
<1>5. u = StripUnknown(schema, f)
  BY <1>1, <1>3 DEF PutBack
<1>6. /\ \A p : p \in DOMAIN u <=> p \in DOMAIN f /\ Generic(p) \in DOMAIN schema
      /\ \A p \in DOMAIN u : u[p] = f[p]
  BY <1>5, StrippedFields
<1>7. HasPaths(s)
  BY ShownFields
<1> QED BY <1>2, <1>4, <1>6, <1>7 DEF HasPaths

LEMMA OwnPutBack ==
    ASSUME NEW d, SoundDocument(d), TypedDocument(d), NEW u, u = PutBack(d)
    PROVE  /\ StatusHistoryWithChanges(u, d.statuses) = d.statuses
           /\ Without(Spread(d.content, OwnUpdate(u)), ShownNames) = Without(d.content, ShownNames)
<1>1. PICK s : s = Shown(d)
  OBVIOUS
<1>2. /\ \A p : p \in DOMAIN u <=>
           /\ p \in DOMAIN s /\ p[1] \notin {"version", "id", "schemaVersion"}
           /\ Generic(p) \in DOMAIN OrganisationInsertSchema
      /\ \A p \in DOMAIN u : u[p] = s[p]
  BY <1>1, PutBackFields
<1>3. s[<<"status">>] = Last(d.statuses)
  BY <1>1, ShownFields
<1>4. PICK w : w = OwnUpdate(u)
  OBVIOUS
<1>5. /\ \A p : p \in DOMAIN w <=> p \in DOMAIN u /\ p[1] \notin Lists
      /\ \A p \in DOMAIN w : w[p] = u[p]
  BY <1>4 DEF OwnUpdate, Without
<1>6. HasPaths(d.content) /\ FieldsKnown(<<>>, d.content) /\ Named(d.content) \cap Lists = {}
  BY DEF SoundDocument, TypedDocument, Whole
<1>7. /\ \A p : p[1] \notin Lists =>
           (p \in DOMAIN s <=> \/ \E n \in ShownNames : p = <<n>>
                               \/ p \in DOMAIN d.content /\ p[1] \notin ShownNames)
      /\ \A p \in DOMAIN d.content : p[1] \notin ShownNames => s[p] = d.content[p]
  BY <1>1, ShownFields
<1>8. \A n : <<n>>[1] = n
  OBVIOUS
<1>9. ASSUME NEW q \in DOMAIN w, q[1] \notin ShownNames
      PROVE  q \in DOMAIN d.content /\ d.content[q] = w[q]
  <2>1. q \in DOMAIN s /\ q[1] \notin Lists /\ w[q] = s[q]
    BY <1>2, <1>5
  <2>2. ~ \E n \in ShownNames : q = <<n>>
    BY <1>8, <1>9, Zenon
  <2>3. q \in DOMAIN d.content
    BY <1>7, <2>1, <2>2
  <2> QED BY <1>7, <1>9, <2>1, <2>3
<1>10. ASSUME NEW q \in DOMAIN d.content, q[1] \notin ShownNames, q[1] \in Named(w)
       PROVE  q \in DOMAIN w
  <2>1. PICK r \in DOMAIN w : r[1] = q[1]
    BY <1>10 DEF Named
  <2>2. q[1] \notin Lists /\ q[1] \notin {"version", "id", "schemaVersion"}
    BY <1>2, <1>5, <2>1
  <2>3. q \in DOMAIN s
    BY <1>7, <1>10, <2>2
  <2>4. <<>> \o Generic(q) \in DOMAIN OrganisationInsertSchema
    BY <1>6 DEF FieldsKnown
  <2>5. Generic(q) \in DOMAIN OrganisationInsertSchema
    BY <1>6, <2>4, OfRoot DEF HasPaths
  <2> QED BY <1>2, <1>5, <2>2, <2>3, <2>5
<1>11. Without(Spread(d.content, w), ShownNames) = Without(d.content, ShownNames)
  BY <1>9, <1>10, SpreadBack
<1> QED BY <1>2, <1>3, <1>4, <1>11, HistoryPutBack

LEMMA ItemPutBack ==
    ASSUME NEW d, SoundDocument(d), TypedDocument(d), NEW u, u = PutBack(d),
           NEW list \in Lists, NEW k \in 1..Len(d.items[list]), NEW path, path = <<list, Elements[k]>>,
           NEW item, item = d.items[list][k], NEW update, update = At(u, path),
           NEW new, new = [content |-> Spread(item.content, update),
                           statuses |-> StatusHistoryWithChanges(update, item.statuses)]
    PROVE  IdOf(update) = IdOf(item.content) /\ ShownItem(new) = ShownItem(item)
<1>1. PICK s : s = Shown(d)
  OBVIOUS
<1>2. PICK items : items = d.items[list]
  OBVIOUS
<1>3. IsList(items) /\ Len(items) <= Len(Elements) /\ k \in 1..Len(items) /\ SoundItem(list, item) /\ HasPaths(item.content)
  <2>1. IsList(items) /\ Len(items) <= Len(Elements) /\ \A i \in 1..Len(items) : SoundItem(list, items[i])
    BY <1>2 DEF SoundDocument
  <2>2. \A i \in 1..Len(items) : HasPaths(items[i].content)
    BY <1>2 DEF TypedDocument, TypedItem
  <2> QED BY <1>2, <2>1, <2>2
<1>4. k \in DOMAIN Elements
  <2>1. DOMAIN Elements = 1..Len(Elements) /\ Len(Elements) \in Nat /\ Len(items) \in Nat
    BY <1>3, ElementsAssumption, ListIsSeq
  <2> QED BY <1>3, <2>1
<1>5. /\ Elements[k] \in Names /\ list \in Names /\ path \in Seq(Names)
      /\ path[1] = list /\ path[2] = Elements[k] /\ Len(path) = 2
      /\ Generic(path) = <<list, "*">>
  BY <1>4, ElementPath
<1>6. PICK shown : shown = ShownItem(item)
  OBVIOUS
<1>7. \A q \in Seq(Names) : q # <<>> =>
         /\ path \o q \in DOMAIN s <=> q \in DOMAIN shown
         /\ q \in DOMAIN shown => s[path \o q] = shown[q]
  <2>1. ShowsItems(s, list, items)
    BY <1>1, <1>2, ShownAt
  <2>2. shown = ShownItem(items[k])
    BY <1>2, <1>6
  <2> QED BY <1>3, <1>4, <2>1, <2>2, Zenon DEF ShowsItems
<1>8. /\ \A p : p \in DOMAIN u <=>
           /\ p \in DOMAIN s /\ p[1] \notin {"version", "id", "schemaVersion"}
           /\ Generic(p) \in DOMAIN OrganisationInsertSchema
      /\ \A p \in DOMAIN u : u[p] = s[p]
      /\ HasPaths(u)
  BY <1>1, PutBackFields
<1>9. /\ HasPaths(update)
      /\ \A q \in Seq(Names) : q \in DOMAIN update <=> q # <<>> /\ path \o q \in DOMAIN u
      /\ \A q \in DOMAIN update : update[q] = u[path \o q]
  BY <1>5, <1>8, AtFields
<1>10. PICK place : place = <<list, "*">>
  OBVIOUS
<1>11. ASSUME NEW q \in Seq(Names), q # <<>>
       PROVE  q \in DOMAIN update <=> q \in DOMAIN shown /\ place \o Generic(q) \in DOMAIN OrganisationInsertSchema
  <2>1. PICK p : p = path \o q
    OBVIOUS
  <2>2. p[1] = list
    <3>1. 1 \in 1..Len(path)
      BY <1>5
    <3> QED BY <1>5, <2>1, <3>1, NamesPrefixed
  <2>3. p[1] \notin {"version", "id", "schemaVersion"}
    BY <2>2 DEF Lists
  <2>4. Generic(p) = place \o Generic(q)
    BY <1>5, <1>10, <2>1, GenericPrefixed
  <2>5. p \in DOMAIN s <=> q \in DOMAIN shown
    BY <1>7, <1>11, <2>1
  <2>6. q \in DOMAIN update <=> p \in DOMAIN u
    BY <1>9, <1>11, <2>1
  <2> QED BY <1>8, <2>3, <2>4, <2>5, <2>6
<1>12. ASSUME NEW q \in DOMAIN update PROVE q \in DOMAIN shown /\ update[q] = shown[q]
  <2>1. q \in Seq(Names) /\ q # <<>>
    BY <1>9 DEF HasPaths
  <2>2. q \in DOMAIN shown
    BY <1>11, <2>1
  <2>3. path \o q \in DOMAIN u /\ update[q] = u[path \o q]
    BY <1>9, <2>1
  <2> QED BY <1>7, <1>8, <2>1, <2>2, <2>3
<1>13. /\ \A q : q \in DOMAIN shown <=>
            \/ q \in {<<"status">>, <<"statusHistory">>}
            \/ q \in DOMAIN item.content /\ q[1] \notin StatusNames
       /\ shown[<<"status">>] = Last(item.statuses)
       /\ \A q \in DOMAIN item.content : q[1] \notin StatusNames => shown[q] = item.content[q]
  BY <1>3, <1>6, ShownItemFields DEF StatusNames
<1>14. ASSUME NEW q \in DOMAIN item.content, q[1] \notin StatusNames PROVE q \in DOMAIN update
  <2>1. q \in Seq(Names) /\ q # <<>>
    BY <1>3 DEF HasPaths
  <2>2. FieldsKnown(place, item.content)
    BY <1>3, <1>10 DEF SoundItem, Whole
  <2>3. place \o Generic(q) \in DOMAIN OrganisationInsertSchema
    BY <2>2 DEF FieldsKnown
  <2> QED BY <1>11, <1>13, <1>14, <2>1, <2>3
<1>15. ASSUME NEW q \in DOMAIN update
       PROVE  q[1] \in StatusNames \/ (q \in DOMAIN item.content /\ item.content[q] = update[q])
  <2>1. <<"status">>[1] \in StatusNames /\ <<"statusHistory">>[1] \in StatusNames
    BY DEF StatusNames
  <2> QED BY <1>12, <1>13, <2>1
<1>16. Without(Spread(item.content, update), StatusNames) = Without(item.content, StatusNames)
  BY <1>14, <1>15, SpreadBack
<1>17. StatusHistoryWithChanges(update, item.statuses) = item.statuses
  BY <1>12, <1>13, HistoryPutBack
<1>18. ShownItem(new) = ShownItem(item)
  <2>1. new.statuses = item.statuses /\ Without(new.content, StatusNames) = Without(item.content, StatusNames)
    BY <1>16, <1>17
  <2> QED BY <2>1, Zenon DEF ShownItem, StatusNames
<1>19. IdOf(update) = IdOf(item.content)
  <2>1. Complete(place, item.content, <<>>)
    BY <1>3, <1>10 DEF SoundItem, Whole
  <2>2. <<"id">> \in DOMAIN item.content
    BY <1>10, <2>1, HasItsId
  <2>3. <<"id">>[1] \notin StatusNames
    BY DEF StatusNames
  <2>4. <<"id">> \in DOMAIN update
    BY <1>14, <2>2, <2>3
  <2> QED BY <1>15, <2>3, <2>4 DEF IdOf
<1> QED BY <1>18, <1>19

LEMMA ListPutBack ==
    ASSUME NEW d, SoundDocument(d), TypedDocument(d), NEW u, u = PutBack(d), NEW list \in Lists,
           NEW items, items = d.items[list], NEW merge, merge = MergeItems(items, ItemsOf(u, list))
    PROVE  Listed(list, merge) = Listed(list, items)
<1>1. PICK s : s = Shown(d)
  OBVIOUS
<1>2. IsList(items) /\ DOMAIN items = 1..Len(items) /\ Len(items) \in Nat /\ Len(items) <= Len(Elements)
  BY ListIsSeq DEF SoundDocument
<1>3. Distinct(items)
  BY DEF SoundDocument
<1>4. PICK updates : updates = ItemsOf(u, list)
  OBVIOUS
<1>5. /\ IsList(updates)
      /\ \A j \in 1..Len(updates) : \E i \in DOMAIN Elements :
           /\ <<list, Elements[i]>> \in DOMAIN u
           /\ updates[j] = At(u, <<list, Elements[i]>>)
  BY <1>4, ItemsAreElements
<1>6. \A p \in DOMAIN u : p \in DOMAIN s
  BY <1>1, PutBackFields
<1>7. ShowsItems(s, list, items)
  BY <1>1, ShownAt
<1>8. ASSUME NEW j \in 1..Len(updates)
      PROVE  \E i \in 1..Len(items) : updates[j] = At(u, <<list, Elements[i]>>)
  <2>1. PICK i \in DOMAIN Elements :
           <<list, Elements[i]>> \in DOMAIN u /\ updates[j] = At(u, <<list, Elements[i]>>)
    BY <1>5
  <2>2. i \in 1..Len(items)
    BY <1>6, <1>7, <2>1, Zenon DEF ShowsItems
  <2> QED BY <2>1, <2>2
<1>9. ASSUME NEW i \in 1..Len(items), NEW update, update = At(u, <<list, Elements[i]>>)
      PROVE  /\ IdOf(update) = IdOf(items[i].content)
             /\ ShownItem([content |-> Spread(items[i].content, update),
                           statuses |-> StatusHistoryWithChanges(update, items[i].statuses)]) = ShownItem(items[i])
  BY <1>9, ItemPutBack
<1>10. /\ IsList(merge) /\ Len(items) <= Len(merge)
       /\ \A k \in 1..Len(items) :
            \/ merge[k] = items[k]
            \/ \E j \in 1..Len(updates) :
                 /\ IdOf(updates[j]) = IdOf(items[k].content)
                 /\ merge[k] = [content |-> Spread(items[k].content, updates[j]),
                                statuses |-> StatusHistoryWithChanges(updates[j], items[k].statuses)]
       /\ \A k \in (Len(items) + 1)..Len(merge) :
            /\ \E j \in 1..Len(updates) :
                 merge[k] = [content |-> updates[j], statuses |-> InitialStatusHistory]
            /\ \A i \in 1..Len(items) : IdOf(items[i].content) # IdOf(merge[k].content)
  <2>1. merge = MergeItems(items, updates)
    BY <1>4
  <2>2. Merges(items, updates, merge)
    BY <1>2, <1>5, <2>1, MergedItems
  <2> QED BY <2>2, ZenonT(60) DEF Merges
<1>11. ASSUME NEW k \in (Len(items) + 1)..Len(merge) PROVE FALSE
  <2>1. PICK j \in 1..Len(updates) : merge[k] = [content |-> updates[j], statuses |-> InitialStatusHistory]
    BY <1>10
  <2>2. PICK i \in 1..Len(items) : updates[j] = At(u, <<list, Elements[i]>>)
    BY <1>8
  <2>3. IdOf(updates[j]) = IdOf(items[i].content)
    BY <1>9, <2>2
  <2>4. merge[k].content = updates[j]
    BY <2>1
  <2> QED BY <1>10, <2>3, <2>4
<1>12. DOMAIN merge = DOMAIN items
  <2>1. PICK n \in Nat : n = Len(items)
    BY <1>2
  <2>2. PICK m \in Nat : m = Len(merge)
    BY <1>10 DEF IsList
  <2>3. n <= m /\ ~(m \in (n + 1)..m)
    BY <1>10, <1>11, <2>1, <2>2
  <2>4. n = m
    BY <2>3
  <2> QED BY <1>2, <1>10, <2>1, <2>2, <2>4, ListIsSeq
<1>13. ASSUME NEW k \in DOMAIN items PROVE ShownItem(merge[k]) = ShownItem(items[k])
  <2>1. CASE merge[k] = items[k]
    BY <2>1
  <2>2. ASSUME NEW j \in 1..Len(updates), IdOf(updates[j]) = IdOf(items[k].content),
               merge[k] = [content |-> Spread(items[k].content, updates[j]),
                           statuses |-> StatusHistoryWithChanges(updates[j], items[k].statuses)]
        PROVE  ShownItem(merge[k]) = ShownItem(items[k])
    <3>1. PICK i \in 1..Len(items) : updates[j] = At(u, <<list, Elements[i]>>)
      BY <1>8
    <3>2. IdOf(updates[j]) = IdOf(items[i].content)
      BY <1>9, <3>1
    <3>3. i = k
      BY <1>2, <1>3, <2>2, <3>2 DEF Distinct
    <3>4. PICK update : update = updates[j]
      OBVIOUS
    <3>5. update = At(u, <<list, Elements[k]>>)
      BY <3>1, <3>3, <3>4
    <3>6. ShownItem([content |-> Spread(items[k].content, update),
                     statuses |-> StatusHistoryWithChanges(update, items[k].statuses)]) = ShownItem(items[k])
      BY <1>2, <1>9, <3>5
    <3>7. merge[k] = [content |-> Spread(items[k].content, update),
                      statuses |-> StatusHistoryWithChanges(update, items[k].statuses)]
      BY <2>2, <3>4, Zenon
    <3> QED BY <3>6, <3>7, Zenon
  <2>3. k \in 1..Len(items)
    BY <1>2
  <2>4. \/ merge[k] = items[k]
        \/ \E j \in 1..Len(updates) :
             /\ IdOf(updates[j]) = IdOf(items[k].content)
             /\ merge[k] = [content |-> Spread(items[k].content, updates[j]),
                            statuses |-> StatusHistoryWithChanges(updates[j], items[k].statuses)]
    BY <1>10, <2>3, Zenon
  <2> QED BY <2>1, <2>2, <2>4, Zenon
<1>14. [k \in DOMAIN merge |-> ShownItem(merge[k])] = [k \in DOMAIN items |-> ShownItem(items[k])]
  BY <1>12, <1>13
<1>15. /\ Listed(list, merge) = Itemised(<<list>>, [k \in DOMAIN merge |-> ShownItem(merge[k])])
       /\ Listed(list, items) = Itemised(<<list>>, [k \in DOMAIN items |-> ShownItem(items[k])])
  BY Zenon DEF Listed, ShownItem
<1> QED BY <1>14, <1>15

LEMMA PutBackShowsTheSame ==
    ASSUME NEW d, SoundDocument(d), TypedDocument(d)
    PROVE  Shown(Updated(d, PutBack(d))) = Shown(d)
<1>1. PICK u : u = PutBack(d)
  OBVIOUS
<1>2. PICK e : e = Updated(d, u)
  OBVIOUS
<1>3. /\ e.content = Spread(d.content, OwnUpdate(u))
      /\ e.statuses = StatusHistoryWithChanges(u, d.statuses)
      /\ \A list \in Lists :
           e.items[list] = IF <<list>> \in DOMAIN u THEN MergeItems(d.items[list], ItemsOf(u, list)) ELSE d.items[list]
  BY <1>2, UpdatedFields
<1>4. e.statuses = d.statuses
  BY <1>1, <1>3, OwnPutBack
<1>5. Without(e.content, ShownNames) = Without(d.content, ShownNames)
  BY <1>1, <1>3, OwnPutBack
<1>6. ASSUME NEW list \in Lists PROVE Listed(list, e.items[list]) = Listed(list, d.items[list])
  <2>1. CASE <<list>> \notin DOMAIN u
    BY <1>3, <2>1
  <2>2. CASE <<list>> \in DOMAIN u
    BY <1>1, <1>3, <2>2, ListPutBack
  <2> QED BY <2>1, <2>2
<1>7. /\ Listed("registrations", e.items["registrations"]) = Listed("registrations", d.items["registrations"])
      /\ Listed("accreditations", e.items["accreditations"]) = Listed("accreditations", d.items["accreditations"])
  BY <1>6 DEF Lists
<1>8. Shown(e) = Shown(d)
  BY <1>4, <1>5, <1>7, Zenon DEF Shown, ShownNames
<1> QED BY <1>1, <1>2, <1>8

\* An admin who PUTs back what a GET answered with is not refused, and what the next
\* GET answers with is the same.
THEOREM PutBackKept == EditsSpec => []PutBackChangesNothing
<1>1. ASSUME StoreInv PROVE PutBackChangesNothing
  <2>1. CASE document = NoDocument
    BY <2>1 DEF PutBackChangesNothing
  <2>2. CASE document # NoDocument
    <3>1. PICK d : d = document
      OBVIOUS
    <3>2. SoundDocument(d) /\ TypedDocument(d)
      BY <1>1, <2>2, <3>1 DEF StoreInv, EditsInv, DocumentSound, TypedStore
    <3>3. IsUpdate(Sanitised(Shown(d)))
      BY <3>2, ShownIsUpdate
    <3>4. Shown(Updated(d, StripUnknown(OrganisationUpdateSchema, Sanitised(Shown(d))))) = Shown(d)
      BY <3>2, PutBackShowsTheSame DEF PutBack
    <3> QED BY <3>1, <3>3, <3>4 DEF PutBackChangesNothing
  <2> QED BY <2>1, <2>2
<1> QED BY <1>1, StoreInductive, PTL
================================================================================
