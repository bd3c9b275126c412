-------------------------- MODULE OrganisationsProofs --------------------------
(***************************************************************************)
(* Proofs about Organisations, for any number of organisations, items,     *)
(* PUTs, servers and secondaries, with any faults.  What needs all reads   *)
(* to be answered by one node says so with OneNode.  The second half is    *)
(* about InMemoryOrganisations: over either implementation of the          *)
(* repository the service keeps the invariant that goes with it, and the   *)
(* in-memory one implements the register of OrganisationStore whatever the *)
(* lag of its copy.                                                        *)
(***************************************************************************)
EXTENDS InMemoryOrganisations, SequenceTheorems, TLAPS
--------------------------------------------------------------------------------
(* Lemmas about the operators *)

\* A commit adds one state to one document and touches nothing else.
LEMMA CommitAppends ==
    ASSUME history \in [Orgs -> Seq(Docs)], NEW o \in Orgs, NEW doc \in Docs,
           Commit(o, doc)
    PROVE  /\ history' \in [Orgs -> Seq(Docs)]
           /\ Len(history[o]) \in Nat
           /\ Len(history'[o]) = Len(history[o]) + 1
           /\ history'[o][Len(history[o]) + 1] = doc
           /\ Latest(o)' = doc
           /\ history'[o] # <<>>
           /\ \A i \in 1..Len(history[o]) : history'[o][i] = history[o][i]
           /\ \A q \in Orgs : q # o => history'[q] = history[q]
           /\ \A q \in Orgs : Len(history[q]) \in Nat /\ Len(history[q]) <= Len(history'[q])
<1>1. history' = [history EXCEPT ![o] = Append(history[o], doc)]
  BY DEF Commit
<1>2. history[o] \in Seq(Docs) /\ history'[o] = Append(history[o], doc)
  BY <1>1
<1>3. /\ Len(history[o]) \in Nat
      /\ Len(history'[o]) = Len(history[o]) + 1
      /\ history'[o][Len(history[o]) + 1] = doc
      /\ history'[o] # <<>>
      /\ \A i \in 1..Len(history[o]) : history'[o][i] = history[o][i]
  BY <1>2
<1>4. \A q \in Orgs : q # o => history'[q] = history[q]
  BY <1>1
<1>5. history' \in [Orgs -> Seq(Docs)]
  BY <1>1, <1>2
<1>6. \A q \in Orgs : Len(history[q]) \in Nat /\ Len(history[q]) <= Len(history'[q])
  BY <1>3, <1>4
<1> QED BY <1>3, <1>4, <1>5, <1>6 DEF Latest

\* The last state of a document is one of its states.
LEMMA LatestIsDoc ==
    ASSUME history \in [Orgs -> Seq(Docs)], NEW o \in Orgs, history[o] # <<>>
    PROVE  /\ Len(history[o]) \in 1..Len(history[o])
           /\ Latest(o) = history[o][Len(history[o])]
           /\ Latest(o) \in Docs
<1>1. history[o] \in Seq(Docs) /\ Len(history[o]) \in Nat /\ Len(history[o]) # 0
  OBVIOUS
<1>2. Len(history[o]) \in 1..Len(history[o])
  BY <1>1
<1> QED BY <1>1, <1>2 DEF Latest

LEMMA StateIsADoc ==
    ASSUME history \in [Orgs -> Seq(Docs)], NEW o \in Orgs, NEW i \in 1..Len(history[o])
    PROVE  history[o][i] \in Docs
  OBVIOUS

\* A sequence is a prefix of itself and of itself with one more element.
LEMMA PrefixOfAppend ==
    ASSUME NEW S, NEW s \in Seq(S), NEW x \in S
    PROVE  IsPrefix(s, s) /\ IsPrefix(s, Append(s, x)) /\ IsPrefix(<<>>, s)
<1>1. SubSeq(s, 1, Len(s)) = s
  BY SubSeqFull
<1>2. SubSeq(Append(s, x), 1, Len(s)) = s
  <2> DEFINE t == Append(s, x)  u == SubSeq(t, 1, Len(s))
  <2>1. /\ t \in Seq(S) /\ Len(t) = Len(s) + 1 /\ Len(s) \in Nat
        /\ \A i \in 1..Len(s) : t[i] = s[i]
    OBVIOUS
  <2>2. \A i \in 1..Len(s) : t[i] \in S
    BY <2>1
  <2>3. /\ u \in Seq(S) /\ Len(u) = Len(s)
        /\ \A i \in 1..Len(s) : u[i] = t[i]
    <3> HIDE DEF t
    <3> QED BY <2>1, <2>2, SubSeqProperties
  <2> HIDE DEF u
  <2>4. u = s
    BY <2>1, <2>3, SeqEqual
  <2> QED BY <2>4 DEF u
<1>3. SubSeq(s, 1, 0) = <<>>
  BY SubSeqEmpty
<1> QED BY <1>1, <1>2, <1>3 DEF IsPrefix

\* Merging a status keeps what a status history has.
LEMMA StatusesGrow ==
    ASSUME NEW statuses \in Seq(OrgStatuses), NEW status \in NewStatuses \cup {"none"}
    PROVE  /\ StatusHistoryWithChanges(status, statuses) \in Seq(OrgStatuses)
           /\ IsPrefix(statuses, StatusHistoryWithChanges(status, statuses))
<1>1. "created" \in OrgStatuses /\ <<"created">> \in Seq(OrgStatuses)
  BY DEF OrgStatuses
<1>2. CASE statuses = <<>>
  <2>1. StatusHistoryWithChanges(status, statuses) = <<"created">>
    BY <1>2 DEF StatusHistoryWithChanges, InitialStatusHistory
  <2> QED BY <1>1, <1>2, <2>1, PrefixOfAppend
<1>3. CASE statuses # <<>> /\ status \in {"none", CurrentStatus(statuses)}
  <2>1. StatusHistoryWithChanges(status, statuses) = statuses
    BY <1>3 DEF StatusHistoryWithChanges
  <2> QED BY <1>1, <2>1, PrefixOfAppend
<1>4. CASE statuses # <<>> /\ status \notin {"none", CurrentStatus(statuses)}
  <2>1. StatusHistoryWithChanges(status, statuses) = Append(statuses, status)
    BY <1>4 DEF StatusHistoryWithChanges
  <2>2. status \in OrgStatuses
    BY <1>4, StatusAssumption
  <2> QED BY <2>1, <2>2, PrefixOfAppend, AppendProperties
<1> QED BY <1>2, <1>3, <1>4

\* What an update writes is a document, one version on, with one part rewritten
\* and no status forgotten.
LEMMA MergedIsDoc ==
    ASSUME NEW existing \in Docs, NEW part \in Parts, NEW writer \in Editors \cup {Form},
           NEW status \in NewStatuses \cup {"none"}
    PROVE  LET doc == Merged(existing, part, writer, status)
           IN  /\ doc \in Docs
               /\ doc.version = existing.version + 1
               /\ doc.content = [existing.content EXCEPT ![part] = writer]
               /\ \A p \in Parts : IsPrefix(existing.statuses[p], doc.statuses[p])
<1> DEFINE doc == Merged(existing, part, writer, status)
           grown == StatusHistoryWithChanges(status, existing.statuses[part])
<1>1. /\ existing.version \in Nat
      /\ existing.content \in [Parts -> Editors \cup {Form, Nobody}]
      /\ existing.statuses \in [Parts -> Seq(OrgStatuses)]
  BY DEF Docs
<1>2. /\ doc = [version |-> existing.version + 1,
                content |-> [existing.content EXCEPT ![part] = writer],
                statuses |-> [existing.statuses EXCEPT ![part] = grown]]
  BY DEF Merged
<1>3. grown \in Seq(OrgStatuses) /\ IsPrefix(existing.statuses[part], grown)
  BY <1>1, StatusesGrow
<1> HIDE DEF doc, grown
<1>4. doc \in Docs
  BY <1>1, <1>2, <1>3 DEF Docs
<1>5. \A p \in Parts : IsPrefix(existing.statuses[p], doc.statuses[p])
  <2> SUFFICES ASSUME NEW p \in Parts
               PROVE  IsPrefix(existing.statuses[p], doc.statuses[p])
    OBVIOUS
  <2>1. CASE p = part
    BY <1>1, <1>2, <1>3, <2>1
  <2>2. CASE p # part
    <3>1. doc.statuses[p] = existing.statuses[p] /\ existing.statuses[p] \in Seq(OrgStatuses)
      BY <1>1, <1>2, <2>2
    <3>2. "created" \in OrgStatuses
      BY DEF OrgStatuses
    <3> QED BY <3>1, <3>2, PrefixOfAppend
  <2> QED BY <2>1, <2>2
<1> QED BY <1>2, <1>4, <1>5 DEF doc

LEMMA InsertedIsDoc == InsertedDoc \in Docs /\ InsertedDoc.version = 1
<1>1. FormContent \in [Parts -> Editors \cup {Form, Nobody}]
  BY DEF FormContent
<1>2. [p \in Parts |-> IF p = Top THEN InitialStatusHistory ELSE <<>>] \in [Parts -> Seq(OrgStatuses)]
  <2>1. InitialStatusHistory \in Seq(OrgStatuses) /\ <<>> \in Seq(OrgStatuses)
    BY DEF InitialStatusHistory, OrgStatuses
  <2> QED BY <2>1
<1> QED BY <1>1, <1>2 DEF InsertedDoc, Docs
--------------------------------------------------------------------------------
(* What commits and quiet steps keep *)

\* Documents only move on, and so do the nodes that are read.
LEMMA ReadableGrows ==
    ASSUME TypeOK, TypeOK', NEW o \in Orgs, NEW v \in Nat,
           Len(history[o]) <= Len(history'[o]),
           \A d \in Secondaries : applied[d][o] <= applied'[d][o],
           \A i \in Readable(o) : v <= i
    PROVE  \A i \in Readable(o)' : v <= i
<1>1. Len(history[o]) \in Nat /\ Len(history'[o]) \in Nat
  BY DEF TypeOK
<1>2. \A d \in Secondaries : applied[d][o] \in Nat /\ applied'[d][o] \in Nat
  BY DEF TypeOK
<1>3. CASE ReadFrom = "primary"
  BY <1>1, <1>3 DEF Readable
<1>4. CASE ReadFrom # "primary"
  <2> SUFFICES ASSUME NEW d \in Secondaries PROVE v <= applied'[d][o]
    BY <1>4 DEF Readable
  <2>1. v <= applied[d][o]
    BY <1>4 DEF Readable
  <2> QED BY <1>2, <2>1
<1> QED BY <1>3, <1>4

\* With one node there is one thing to read.
LEMMA OneReadable ==
    ASSUME OneNode, NEW o \in Orgs, NEW i \in Readable(o)
    PROVE  Readable(o) = {i}
  BY DEF OneNode, Readable

\* What is read is 0 or the place of a committed state.
LEMMA ReadableIsCommitted ==
    ASSUME TypeOK, ReadsAreCommitted, NEW o \in Orgs, NEW i \in Readable(o)
    PROVE  i \in 0..Len(history[o])
<1>1. Len(history[o]) \in Nat
  BY DEF TypeOK
<1>2. \A d \in Secondaries : applied[d][o] \in Nat /\ applied[d][o] <= Len(history[o])
  BY DEF TypeOK, ReadsAreCommitted
<1> QED BY <1>1, <1>2 DEF Readable

\* A commit that goes one version on from the last state, and forgets no status.
LEMMA CommitKeeps ==
    ASSUME TypeOK, VersionsArePlaces, StatusHistoryOnlyGrows,
           NEW o \in Orgs, NEW doc \in Docs, Commit(o, doc),
           doc.version = Len(history[o]) + 1,
           history[o] # <<>> =>
               \A p \in Parts : IsPrefix(Latest(o).statuses[p], doc.statuses[p])
    PROVE  VersionsArePlaces' /\ StatusHistoryOnlyGrows'
<1>1. /\ Len(history[o]) \in Nat
      /\ Len(history'[o]) = Len(history[o]) + 1
      /\ history'[o][Len(history[o]) + 1] = doc
      /\ \A i \in 1..Len(history[o]) : history'[o][i] = history[o][i]
      /\ \A q \in Orgs : q # o => history'[q] = history[q]
  BY CommitAppends DEF TypeOK
<1>2. VersionsArePlaces'
  BY <1>1 DEF VersionsArePlaces
<1>3. ASSUME NEW p \in Parts, NEW i \in 2..Len(history'[o])
      PROVE  IsPrefix(history'[o][i - 1].statuses[p], history'[o][i].statuses[p])
  <2>1. CASE i <= Len(history[o])
    <3>1. i \in 2..Len(history[o]) /\ i - 1 \in 1..Len(history[o]) /\ i \in 1..Len(history[o])
      BY <1>1, <2>1
    <3>2. history'[o][i - 1] = history[o][i - 1] /\ history'[o][i] = history[o][i]
      BY <1>1, <3>1
    <3> QED BY <3>1, <3>2 DEF StatusHistoryOnlyGrows
  <2>2. CASE i = Len(history[o]) + 1
    <3>1. i - 1 = Len(history[o]) /\ i - 1 \in 1..Len(history[o]) /\ history[o] # <<>>
      BY <1>1, <2>2
    <3>2. history'[o][i - 1] = Latest(o) /\ history'[o][i] = doc
      BY <1>1, <2>2, <3>1 DEF Latest
    <3> QED BY <3>1, <3>2
  <2> QED BY <1>1, <2>1, <2>2
<1>4. StatusHistoryOnlyGrows'
  <2> SUFFICES ASSUME NEW q \in Orgs, NEW i \in 2..Len(history'[q]), NEW p \in Parts
               PROVE  IsPrefix(history'[q][i - 1].statuses[p], history'[q][i].statuses[p])
    BY DEF StatusHistoryOnlyGrows
  <2>1. CASE q = o
    BY <1>3, <2>1
  <2>2. CASE q # o
    BY <1>1, <2>2 DEF StatusHistoryOnlyGrows
  <2> QED BY <2>1, <2>2
<1> QED BY <1>2, <1>4

\* An edit that a state has stays in that state: stored edits are not taken back.
LEMMA EditStaysInState ==
    ASSUME TypeOK, TypeOK', UNCHANGED edit, NEW e \in Editors, written[e] > 0, NEW i,
           history'[OrgOf(e)][i] = history[OrgOf(e)][i],
           \A q \in Editors : written[q] > 0 => written'[q] = written[q],
           i \in Nat,
           HasTheEdit(e, i)
    PROVE  HasTheEdit(e, i)'
<1>1. \A q \in Editors : OrgOf(q)' = OrgOf(q) /\ written[q] \in Nat
  BY DEF OrgOf, TypeOK
<1>2. written'[e] = written[e]
  OBVIOUS
<1>3. CASE history[OrgOf(e)][i].content[edit[e].part] = e
  BY <1>1, <1>3 DEF HasTheEdit
<1>4. ASSUME NEW q \in Editors \ {e}, OrgOf(q) = OrgOf(e), edit[q].part = edit[e].part,
             written[q] \in written[e]..i
      PROVE  HasTheEdit(e, i)'
  <2>1. written[q] > 0 /\ written'[q] = written[q]
    BY <1>1, <1>4
  <2> QED BY <1>1, <1>2, <1>4, <2>1 DEF HasTheEdit
<1>5. CASE edit[e].part = Top /\ i > written[e]
  BY <1>2, <1>5 DEF HasTheEdit
<1> QED BY <1>3, <1>4, <1>5 DEF HasTheEdit

\* A step that writes no document leaves the edits in them.
LEMMA QuietKeepsEdits ==
    ASSUME TypeOK, TypeOK', StoredEditsStay, UNCHANGED <<history, edit, written>>,
           \A e \in Editors : written[e] > 0 => known'[e] = known[e],
           \A e \in Editors : reply'[e] = 200 => reply[e] = 200 /\ shown'[e] = shown[e]
    PROVE  StoredEditsStay'
<1> SUFFICES ASSUME NEW e \in Editors
             PROVE  /\ written[e] > 0 =>
                        /\ written[e] = known'[e] + 1
                        /\ \A i \in written[e]..Len(history[OrgOf(e)]) : HasTheEdit(e, i)'
                    /\ reply'[e] = 200 =>
                        written[e] > 0 /\ shown'[e] \in written[e]..Len(history[OrgOf(e)])
  BY DEF StoredEditsStay, OrgOf
<1>1. \A i : HasTheEdit(e, i)' <=> HasTheEdit(e, i)
  BY DEF HasTheEdit, OrgOf
<1> QED BY <1>1 DEF StoredEditsStay

\* A commit of a document in which writer w rewrote part p of the last state.
LEMMA CommitKeepsEdits ==
    ASSUME TypeOK, TypeOK', PutsInOrder, StoredEditsStay, UNCHANGED <<edit, known>>,
           NEW o \in Orgs, NEW doc \in Docs, Commit(o, doc),
           NEW p \in Parts, NEW w \in Editors \cup {Form},
           doc.content[p] = w,
           history[o] # <<>> => \A q \in Parts \ {p} : doc.content[q] = Latest(o).content[q],
           w = Form => p = Top,
           w \in Editors => /\ OrgOf(w) = o /\ edit[w].part = p
                           /\ written[w] = 0 /\ known[w] = Len(history[o])
                           /\ written'[w] = Len(history[o]) + 1,
           \A e \in Editors \ {w} : written'[e] = written[e],
           \A e \in Editors : reply'[e] = 200 => reply[e] = 200 /\ shown'[e] = shown[e]
    PROVE  StoredEditsStay'
<1> SUFFICES ASSUME NEW n, n = Len(history[o])
             PROVE  StoredEditsStay'
  OBVIOUS
<1>1. /\ n \in Nat /\ Len(history'[o]) = n + 1
      /\ history'[o][n + 1] = doc
      /\ \A i \in 1..n : history'[o][i] = history[o][i]
      /\ \A q \in Orgs : q # o => history'[q] = history[q]
      /\ \A q \in Orgs : Len(history[q]) \in Nat /\ Len(history[q]) <= Len(history'[q])
  BY CommitAppends DEF TypeOK
<1>2. \A e \in Editors : /\ OrgOf(e)' = OrgOf(e) /\ OrgOf(e) \in Orgs /\ edit[e].part \in Parts
                         /\ written[e] \in Nat /\ written[e] <= Len(history[OrgOf(e)])
  BY DEF OrgOf, TypeOK, Edits, PutsInOrder
<1>3. \A e \in Editors : e # w => written'[e] = written[e]
  BY DEF TypeOK
<1>4. \A e \in Editors : written[e] > 0 => written'[e] = written[e] /\ e # w
  BY <1>3
<1>5. \A e \in Editors : \A i :
        HasTheEdit(e, i)' <=>
            \/ history'[OrgOf(e)'][i].content[edit'[e].part] = e
            \/ \E q \in Editors \ {e} :
                OrgOf(q)' = OrgOf(e)' /\ edit'[q].part = edit'[e].part /\ written'[q] \in written'[e]..i
            \/ edit'[e].part = Top /\ i > written'[e]
  BY DEF HasTheEdit
<1>6. ASSUME NEW e \in Editors, written[e] > 0, NEW i \in written[e]..Len(history[OrgOf(e)])
      PROVE  HasTheEdit(e, i)'
  <2>1. i \in Nat /\ i \in 1..Len(history[OrgOf(e)])
    BY <1>1, <1>2, <1>6
  <2>2. history'[OrgOf(e)][i] = history[OrgOf(e)][i]
    BY <1>1, <1>2, <2>1
  <2>3. HasTheEdit(e, i)
    BY <1>6 DEF StoredEditsStay
  <2> QED BY <1>4, <1>6, <2>1, <2>2, <2>3, EditStaysInState
<1>7. ASSUME NEW e \in Editors, written[e] > 0, OrgOf(e) = o
      PROVE  HasTheEdit(e, n + 1)'
  <2>1. written[e] \in 1..n /\ history[o] # <<>> /\ n \in written[e]..n
    BY <1>1, <1>2, <1>7
  <2>2. written'[e] = written[e] /\ e # w
    BY <1>4, <1>7
  <2>3. CASE edit[e].part = p /\ w = Form
    <3>1. edit'[e].part = Top /\ n + 1 > written'[e]
      BY <1>1, <2>1, <2>2, <2>3
    <3> QED BY <1>5, <3>1
  <2>4. CASE edit[e].part = p /\ w \in Editors
    <3>1. written'[w] = n + 1
      BY <2>4 DEF TypeOK
    <3>2. w \in Editors \ {e} /\ OrgOf(w)' = OrgOf(e)' /\ edit'[w].part = edit'[e].part
      BY <1>2, <1>7, <2>2, <2>4
    <3>3. written'[w] \in written'[e]..(n + 1)
      BY <1>1, <2>1, <2>2, <3>1
    <3> QED BY <1>5, <3>2, <3>3
  <2>5. CASE edit[e].part # p
    <3>1. HasTheEdit(e, n)
      BY <1>7, <2>1 DEF StoredEditsStay
    <3>2. doc.content[edit[e].part] = history[o][n].content[edit[e].part]
      BY <1>2, <2>1, <2>5 DEF Latest
    <3>3. CASE history[o][n].content[edit[e].part] = e
      <4>1. history'[OrgOf(e)'][n + 1].content[edit'[e].part] = e
        BY <1>1, <1>2, <1>7, <3>2, <3>3
      <4> QED BY <1>5, <4>1
    <3>4. ASSUME NEW q \in Editors \ {e}, OrgOf(q) = OrgOf(e), edit[q].part = edit[e].part,
                 written[q] \in written[e]..n
          PROVE  HasTheEdit(e, n + 1)'
      <4>1. written[q] > 0 /\ written'[q] = written[q] /\ written[q] \in written[e]..(n + 1)
        BY <1>1, <1>2, <1>4, <2>1, <3>4
      <4>2. OrgOf(q)' = OrgOf(e)' /\ edit'[q].part = edit'[e].part
            /\ written'[q] \in written'[e]..(n + 1)
        BY <1>2, <2>2, <3>4, <4>1
      <4> QED BY <1>5, <4>2
    <3>5. CASE edit[e].part = Top /\ n > written[e]
      <4>1. edit'[e].part = Top /\ n + 1 > written'[e]
        BY <1>1, <1>2, <2>2, <3>5
      <4> QED BY <1>5, <4>1
    <3> QED BY <1>7, <3>1, <3>3, <3>4, <3>5 DEF HasTheEdit
  <2> QED BY <2>3, <2>4, <2>5
<1>8. ASSUME NEW e \in Editors, written'[e] > 0
      PROVE  /\ written'[e] = known'[e] + 1
             /\ \A i \in written'[e]..Len(history'[OrgOf(e)']) : HasTheEdit(e, i)'
  <2>1. CASE written[e] > 0
    <3>1. written'[e] = written[e] /\ written[e] = known[e] + 1
      BY <1>4, <2>1 DEF StoredEditsStay
    <3>2. CASE OrgOf(e) = o
      <4>1. \A i \in written[e]..(n + 1) : i \in written[e]..n \/ i = n + 1
        BY <1>1, <1>2
      <4> QED BY <1>1, <1>2, <1>6, <1>7, <2>1, <3>1, <3>2, <4>1
    <3>3. CASE OrgOf(e) # o
      BY <1>1, <1>2, <1>6, <2>1, <3>1, <3>3
    <3> QED BY <3>2, <3>3
  <2>2. CASE written[e] = 0
    <3>1. e = w /\ w \in Editors /\ written'[e] = n + 1 /\ known[e] = n /\ OrgOf(e) = o
          /\ edit[e].part = p
      <4>1. e = w /\ w \in Editors
        BY <1>3, <1>8, <2>2
      <4> QED BY <4>1 DEF TypeOK
    <3>2. HasTheEdit(e, n + 1)'
      <4>1. history'[OrgOf(e)'][n + 1].content[edit'[e].part] = e
        BY <1>1, <1>2, <3>1
      <4> QED BY <1>5, <4>1
    <3>3. \A i \in (n + 1)..(n + 1) : i = n + 1
      BY <1>1
    <3> QED BY <1>1, <1>2, <3>1, <3>2, <3>3
  <2> QED BY <1>2, <2>1, <2>2
<1>9. ASSUME NEW e \in Editors, reply'[e] = 200
      PROVE  written'[e] > 0 /\ shown'[e] \in written'[e]..Len(history'[OrgOf(e)'])
  <2>1. reply[e] = 200 /\ shown'[e] = shown[e] /\ shown[e] \in Nat
    BY <1>9 DEF TypeOK
  <2>2. written[e] > 0 /\ shown[e] \in written[e]..Len(history[OrgOf(e)])
    BY <2>1 DEF StoredEditsStay
  <2> QED BY <1>1, <1>2, <1>4, <2>1, <2>2
<1> QED BY <1>8, <1>9 DEF StoredEditsStay
--------------------------------------------------------------------------------
(* The invariant, one PUT and one upsert at a time *)

PutOk(e) ==
    /\ pc[e] = "write" => base[e] \in 1..Len(history[OrgOf(e)])
    /\ pc[e] \in {"get", "find", "write"} => written[e] = 0 /\ tries[e] = 0
    /\ pc[e] = "confirm" => written[e] > 0 /\ tries[e] < MaxRetries
    /\ pc[e] # "done" => reply[e] = 0
    /\ written[e] <= Len(history[OrgOf(e)])
    /\ OneNode => PutMovesForward(e)

UpsertOk(s, o) ==
    /\ upsert[s][o].at = "write" => upsert[s][o].base \in 1..Len(history[o])
    /\ OneNode => UpsertMovesForward(s, o)

DocsOk ==
    /\ \A d \in Secondaries, o \in Orgs : applied[d][o] <= Len(history[o])
    /\ OneNode => VersionsArePlaces /\ StatusHistoryOnlyGrows /\ StoredEditsStay

LEMMA IInvByParts ==
    IInv <=> /\ TypeOK /\ DocsOk /\ OneMigrationAtATime
             /\ \A e \in Editors : PutOk(e)
             /\ \A s \in Servers, o \in Orgs : UpsertOk(s, o)
<1> USE DEF IInv, DocsOk, PutOk, UpsertOk, ReadsAreCommitted, PutsInOrder, ReadsMoveForward
<1>1. CASE OneNode
  BY <1>1
<1>2. CASE ~OneNode
  BY <1>2
<1> QED BY <1>1, <1>2

LEMMA IInvNext ==
    ASSUME TypeOK', DocsOk', OneMigrationAtATime', \A e \in Editors : PutOk(e)',
           \A s \in Servers, o \in Orgs : UpsertOk(s, o)'
    PROVE  IInv'
<1>1. (OneNode' <=> OneNode) /\ ReadsAreCommitted' /\ PutsInOrder'
  BY DEF OneNode, DocsOk, PutOk, UpsertOk, ReadsAreCommitted, PutsInOrder
<1>2. ASSUME OneNode
      PROVE  ReadsMoveForward' /\ VersionsArePlaces' /\ StatusHistoryOnlyGrows' /\ StoredEditsStay'
  BY <1>1, <1>2 DEF DocsOk, PutOk, UpsertOk, ReadsMoveForward
<1> QED BY <1>1, <1>2 DEF IInv

\* No step takes a committed state or an applied state back.
MovesOn ==
    /\ \A o \in Orgs : Len(history[o]) <= Len(history'[o])
    /\ \A d \in Secondaries, o \in Orgs : applied[d][o] <= applied'[d][o]

\* What is true of a PUT stays true while others act.
LEMMA OtherPut ==
    ASSUME TypeOK, TypeOK', MovesOn, UNCHANGED edit, NEW e \in Editors, PutOk(e),
           pc'[e] = pc[e], known'[e] = known[e], base'[e] = base[e], tries'[e] = tries[e],
           reply'[e] = reply[e], written'[e] = written[e]
    PROVE  PutOk(e)'
<1>1. OrgOf(e)' = OrgOf(e) /\ OrgOf(e) \in Orgs
  BY DEF OrgOf, TypeOK, Edits
<1>2. /\ Len(history[OrgOf(e)]) \in Nat /\ Len(history'[OrgOf(e)]) \in Nat
      /\ Len(history[OrgOf(e)]) <= Len(history'[OrgOf(e)])
      /\ base[e] \in Nat /\ written[e] \in Nat /\ known[e] \in Nat
  BY <1>1 DEF TypeOK, MovesOn
<1>3. pc[e] = "write" => base[e] \in 1..Len(history'[OrgOf(e)])
  BY <1>2 DEF PutOk
<1>4. written[e] <= Len(history'[OrgOf(e)])
  BY <1>2 DEF PutOk
<1>5. ASSUME OneNode PROVE PutMovesForward(e)'
  <2>1. InFlight(e) => \A i \in Readable(OrgOf(e)) : known[e] <= i
    BY <1>5 DEF PutOk, PutMovesForward
  <2>2. pc[e] = "write" => known[e] <= base[e]
    BY <1>5 DEF PutOk, PutMovesForward
  <2>3. PICK g \in Orgs : g = OrgOf(e) /\ g = OrgOf(e)'
    BY <1>1
  <2>4. InFlight(e) => \A i \in Readable(g)' : known[e] <= i
    BY <1>2, <2>1, <2>3, ReadableGrows DEF MovesOn
  <2>5. Readable(OrgOf(e))' = Readable(g)' /\ (InFlight(e)' <=> InFlight(e))
    BY <2>3 DEF InFlight, Readable
  <2> QED BY <2>2, <2>4, <2>5 DEF PutMovesForward
<1> QED BY <1>1, <1>3, <1>4, <1>5 DEF PutOk, OneNode

\* The same of an upsert.
LEMMA OtherUpsert ==
    ASSUME TypeOK, TypeOK', MovesOn, NEW s \in Servers, NEW o \in Orgs, UpsertOk(s, o),
           upsert'[s][o] = upsert[s][o]
    PROVE  UpsertOk(s, o)'
<1>1. /\ Len(history[o]) \in Nat /\ Len(history'[o]) \in Nat
      /\ Len(history[o]) <= Len(history'[o])
      /\ upsert[s][o].base \in Nat /\ upsert[s][o].version \in Nat
  BY DEF TypeOK, MovesOn, Upserts
<1>2. upsert[s][o].at = "write" => upsert[s][o].base \in 1..Len(history'[o])
  BY <1>1 DEF UpsertOk
<1>3. ASSUME OneNode PROVE UpsertMovesForward(s, o)'
  <2>1. /\ upsert[s][o].at = "reread" => \A i \in Readable(o) : upsert[s][o].version <= i
        /\ upsert[s][o].at = "write" => upsert[s][o].version <= upsert[s][o].base
    BY <1>3 DEF UpsertOk, UpsertMovesForward
  <2>2. upsert[s][o].at = "reread" => \A i \in Readable(o)' : upsert[s][o].version <= i
    BY <1>1, <2>1, ReadableGrows DEF MovesOn
  <2> QED BY <2>1, <2>2 DEF UpsertMovesForward
<1> QED BY <1>2, <1>3 DEF UpsertOk, OneNode

\* A step of PUT e that leaves the documents, their readers and the migration alone.
LEMMA QuietPut ==
    ASSUME IInv, TypeOK', UNCHANGED <<storage, edit, written, migration>>,
           NEW e \in Editors, PutOk(e)',
           \A q \in Editors \ {e} :
               /\ pc'[q] = pc[q] /\ known'[q] = known[q] /\ base'[q] = base[q]
               /\ tries'[q] = tries[q] /\ reply'[q] = reply[q] /\ shown'[q] = shown[q],
           written[e] > 0 => known'[e] = known[e],
           OneNode => (reply'[e] = 200 =>
               written[e] > 0 /\ shown'[e] \in written[e]..Len(history[OrgOf(e)]))
    PROVE  IInv'
<1>1. MovesOn /\ TypeOK
  BY DEF MovesOn, storage, IInv, TypeOK
<1>2. \A q \in Editors : PutOk(q)'
  BY <1>1, OtherPut, IInvByParts
<1>3. \A s \in Servers, o \in Orgs : UpsertOk(s, o)'
  BY <1>1, OtherUpsert, IInvByParts DEF migration
<1>4. OneMigrationAtATime'
  BY DEF IInv, OneMigrationAtATime, Migrating, migration
<1>5. DocsOk'
  <2>1. \A d \in Secondaries, o \in Orgs : applied'[d][o] <= Len(history'[o])
    BY DEF IInv, ReadsAreCommitted, storage
  <2>2. ASSUME OneNode PROVE VersionsArePlaces' /\ StatusHistoryOnlyGrows'
    BY <2>2 DEF IInv, VersionsArePlaces, StatusHistoryOnlyGrows, storage
  <2>3. ASSUME OneNode PROVE StoredEditsStay'
    <3>1. \A q \in Editors : \A i : HasTheEdit(q, i)' <=> HasTheEdit(q, i)
      BY DEF HasTheEdit, OrgOf, storage
    <3>2. StoredEditsStay
      BY <2>3 DEF IInv
    <3> SUFFICES ASSUME NEW q \in Editors
                 PROVE  /\ written[q] > 0 =>
                            /\ written[q] = known'[q] + 1
                            /\ \A i \in written[q]..Len(history[OrgOf(q)]) : HasTheEdit(q, i)'
                        /\ reply'[q] = 200 =>
                            written[q] > 0 /\ shown'[q] \in written[q]..Len(history[OrgOf(q)])
      BY DEF StoredEditsStay, OrgOf, storage
    <3>3. CASE q = e
      BY <2>3, <3>1, <3>2, <3>3 DEF StoredEditsStay
    <3>4. CASE q # e
      BY <3>1, <3>2, <3>4 DEF StoredEditsStay
    <3> QED BY <3>3, <3>4
  <2> QED BY <2>1, <2>2, <2>3 DEF DocsOk, OneNode
<1> QED BY <1>2, <1>3, <1>4, <1>5, IInvNext

\* A step of the migrations that writes no document, and lets no reader lag more.
LEMMA QuietMigration ==
    ASSUME IInv, TypeOK', UNCHANGED <<history, puts>>, OneMigrationAtATime',
           \A d \in Secondaries, o \in Orgs :
               applied[d][o] <= applied'[d][o] /\ applied'[d][o] <= Len(history[o]),
           \A s \in Servers, o \in Orgs : upsert'[s][o] = upsert[s][o] \/ UpsertOk(s, o)'
    PROVE  IInv'
<1>1. MovesOn /\ TypeOK
  BY DEF MovesOn, IInv, TypeOK
<1>2. \A q \in Editors : PutOk(q)'
  BY <1>1, OtherPut, IInvByParts DEF puts
<1>3. \A s \in Servers, o \in Orgs : UpsertOk(s, o)'
  BY <1>1, OtherUpsert, IInvByParts
<1>4. DocsOk'
  <2>1. ASSUME OneNode PROVE VersionsArePlaces' /\ StatusHistoryOnlyGrows'
    BY <2>1 DEF IInv, VersionsArePlaces, StatusHistoryOnlyGrows
  <2>2. ASSUME OneNode PROVE StoredEditsStay'
    BY <1>1, <2>2, QuietKeepsEdits DEF IInv, puts
  <2> QED BY <2>1, <2>2 DEF DocsOk, OneNode
<1> QED BY <1>2, <1>3, <1>4, IInvNext
LEMMA StorageStays ==
    ASSUME IInv, UNCHANGED storage
    PROVE  /\ UNCHANGED history
           /\ \A d \in Secondaries, o \in Orgs :
               applied[d][o] <= applied'[d][o] /\ applied'[d][o] <= Len(history[o])
<1>1. \A d \in Secondaries, o \in Orgs : applied[d][o] \in Nat /\ applied[d][o] <= Len(history[o])
  BY DEF IInv, TypeOK, ReadsAreCommitted
<1> QED BY <1>1 DEF storage
--------------------------------------------------------------------------------
(* Steps that write a document *)

\* The document a PUT stores.  When all reads are answered by one node, a version
\* that matches is the version of the state that was read: the change is merged
\* into the last state.
LEMMA StoredEdit ==
    ASSUME IInv, NEW e \in Editors, pc[e] = "write", StoreEdit(e)
    PROVE  /\ OrgOf(e) \in Orgs /\ edit[e].part \in Parts
           /\ history[OrgOf(e)] # <<>>
           /\ Edited(e) \in Docs
           /\ Edited(e).content = [Base(e).content EXCEPT ![edit[e].part] = e]
           /\ OneNode =>
               /\ Base(e) = Latest(OrgOf(e))
               /\ known[e] = Len(history[OrgOf(e)])
               /\ Edited(e).version = Len(history[OrgOf(e)]) + 1
               /\ \A p \in Parts : IsPrefix(Latest(OrgOf(e)).statuses[p], Edited(e).statuses[p])
<1>1. /\ OrgOf(e) \in Orgs /\ edit[e].part \in Parts
      /\ edit[e].status \in NewStatuses \cup {"none"}
      /\ history \in [Orgs -> Seq(Docs)]
  BY DEF IInv, TypeOK, OrgOf, Edits
<1>2. base[e] \in 1..Len(history[OrgOf(e)]) /\ Base(e) \in Docs
  BY <1>1, StateIsADoc DEF IInv, ReadsAreCommitted, Base
<1>3. history[OrgOf(e)] # <<>> /\ Latest(OrgOf(e)).version = known[e]
  BY DEF StoreEdit, VersionMatches
<1>4. /\ Edited(e) \in Docs
      /\ Edited(e).version = Base(e).version + 1
      /\ Edited(e).content = [Base(e).content EXCEPT ![edit[e].part] = e]
      /\ \A p \in Parts : IsPrefix(Base(e).statuses[p], Edited(e).statuses[p])
  BY <1>1, <1>2, MergedIsDoc DEF Edited
<1>5. ASSUME OneNode
      PROVE  /\ Base(e) = Latest(OrgOf(e))
             /\ known[e] = Len(history[OrgOf(e)])
             /\ Base(e).version = Len(history[OrgOf(e)])
  <2>1. Len(history[OrgOf(e)]) \in 1..Len(history[OrgOf(e)]) /\ known[e] \in Nat
    BY <1>1, <1>3, LatestIsDoc DEF IInv, TypeOK
  <2>2. known[e] = Len(history[OrgOf(e)])
    BY <1>1, <1>3, <1>5, <2>1 DEF IInv, VersionsArePlaces, Latest
  <2>3. known[e] <= base[e]
    BY <1>5 DEF IInv, ReadsMoveForward, PutMovesForward
  <2>4. base[e] = Len(history[OrgOf(e)])
    BY <1>2, <2>1, <2>2, <2>3
  <2> QED BY <1>3, <2>2, <2>4 DEF Base, Latest
<1> QED BY <1>1, <1>3, <1>4, <1>5

\* The same of an upsert of an organisation that is there.
LEMMA StoredUpsert ==
    ASSUME IInv, NEW s \in Servers, NEW o \in Orgs, upsert[s][o].at = "write",
           StoreUpsert(s, o)
    PROVE  LET doc == Merged(history[o][upsert[s][o].base], Top, Form, "none")
           IN  /\ history[o] # <<>> /\ Commit(o, doc)
               /\ doc \in Docs /\ doc.content[Top] = Form
               /\ OneNode =>
                   /\ doc.version = Len(history[o]) + 1
                   /\ history[o][upsert[s][o].base] = Latest(o)
                   /\ upsert[s][o].version = Latest(o).version
                   /\ \A p \in Parts \ {Top} : doc.content[p] = Latest(o).content[p]
                   /\ \A p \in Parts : IsPrefix(Latest(o).statuses[p], doc.statuses[p])
<1> DEFINE b == history[o][upsert[s][o].base]
           doc == Merged(b, Top, Form, "none")
<1>1. history \in [Orgs -> Seq(Docs)] /\ Top \in Parts
  BY DEF IInv, TypeOK, Parts
<1>2. upsert[s][o].base \in 1..Len(history[o]) /\ b \in Docs
  BY <1>1, StateIsADoc DEF IInv, ReadsAreCommitted
<1>3. /\ history[o] # <<>> /\ Latest(o).version = upsert[s][o].version
      /\ Commit(o, doc)
  BY DEF StoreUpsert, VersionMatches
<1>4. /\ doc \in Docs
      /\ doc.version = b.version + 1
      /\ doc.content = [b.content EXCEPT ![Top] = Form]
      /\ \A p \in Parts : IsPrefix(b.statuses[p], doc.statuses[p])
  BY <1>1, <1>2, MergedIsDoc
<1>5. b.content \in [Parts -> Editors \cup {Form, Nobody}]
  BY <1>2 DEF Docs
<1>6. ASSUME OneNode
      PROVE  b = Latest(o) /\ b.version = Len(history[o])
  <2>1. Len(history[o]) \in 1..Len(history[o]) /\ upsert[s][o].version \in Nat
    BY <1>1, <1>3, LatestIsDoc DEF IInv, TypeOK, Upserts
  <2>2. upsert[s][o].version = Len(history[o])
    BY <1>1, <1>3, <1>6, <2>1 DEF IInv, VersionsArePlaces, Latest
  <2>3. upsert[s][o].version <= upsert[s][o].base
    BY <1>6 DEF IInv, ReadsMoveForward, UpsertMovesForward
  <2>4. upsert[s][o].base = Len(history[o])
    BY <1>2, <2>1, <2>2, <2>3
  <2> QED BY <1>3, <2>2, <2>4 DEF Latest
<1> HIDE DEF doc, b
<1>7. doc.content[Top] = Form /\ \A p \in Parts \ {Top} : doc.content[p] = b.content[p]
  BY <1>1, <1>4, <1>5
<1>8. OneNode =>
          /\ doc.version = Len(history[o]) + 1
          /\ b = Latest(o)
          /\ upsert[s][o].version = Latest(o).version
          /\ \A p \in Parts \ {Top} : doc.content[p] = Latest(o).content[p]
          /\ \A p \in Parts : IsPrefix(Latest(o).statuses[p], doc.statuses[p])
  BY <1>3, <1>4, <1>6, <1>7
<1> QED BY <1>3, <1>4, <1>7, <1>8 DEF doc, b

\* The write of a PUT, whether its answer arrives or not.
LEMMA EditKeeps ==
    ASSUME IInv, TypeOK', NEW e \in Editors, pc[e] = "write", StoreEdit(e),
           UNCHANGED <<applied, edit, known, base, tries, shown, migration>>,
           \/ pc' = [pc EXCEPT ![e] = "confirm"] /\ UNCHANGED reply
           \/ pc' = [pc EXCEPT ![e] = "done"] /\ reply' = [reply EXCEPT ![e] = 500]
    PROVE  IInv'
<1> SUFFICES ASSUME NEW o, o = OrgOf(e), NEW n, n = Len(history[o]),
                    NEW doc, doc = Edited(e), NEW p, p = edit[e].part
             PROVE  IInv'
  OBVIOUS
<1>1. /\ o \in Orgs /\ p \in Parts /\ history[o] # <<>> /\ doc \in Docs
      /\ doc.content = [Base(e).content EXCEPT ![p] = e]
      /\ OneNode =>
          /\ Base(e) = Latest(o) /\ known[e] = n /\ doc.version = n + 1
          /\ \A q \in Parts : IsPrefix(Latest(o).statuses[q], doc.statuses[q])
  BY StoredEdit
<1>2. Commit(o, doc) /\ written' = [written EXCEPT ![e] = n + 1]
  BY DEF StoreEdit
<1>3. /\ n \in Nat /\ Len(history'[o]) = n + 1
      /\ \A q \in Orgs : Len(history[q]) \in Nat /\ Len(history[q]) <= Len(history'[q])
      /\ TypeOK
  BY <1>1, <1>2, CommitAppends DEF IInv, TypeOK
<1>4. MovesOn
  BY <1>3 DEF MovesOn, TypeOK
<1>5. PutOk(e)'
  <2>1. written'[e] = n + 1 /\ OrgOf(e)' = o
    BY <1>2 DEF IInv, TypeOK, OrgOf
  <2>2. /\ tries'[e] = 0 /\ 0 < MaxRetries /\ reply[e] = 0
    BY RetriesAssumption DEF IInv, PutsInOrder
  <2>3. pc'[e] \in {"confirm", "done"} /\ (pc'[e] # "done" => reply'[e] = 0)
    BY <2>2 DEF IInv, TypeOK
  <2>4. ASSUME OneNode PROVE PutMovesForward(e)'
    <3>1. \A i \in Readable(o) : known[e] <= i
      BY <2>4 DEF IInv, ReadsMoveForward, PutMovesForward, InFlight
    <3>2. known[e] \in Nat
      BY DEF IInv, TypeOK
    <3>3. \A i \in Readable(o)' : known[e] <= i
      BY <1>1, <1>3, <1>4, <3>1, <3>2, ReadableGrows DEF MovesOn
    <3>4. Readable(OrgOf(e))' = Readable(o)' /\ pc'[e] # "write"
      BY <2>1, <2>3 DEF Readable
    <3> QED BY <3>3, <3>4 DEF PutMovesForward
  <2> QED BY <1>3, <2>1, <2>2, <2>3, <2>4 DEF PutOk, OneNode
<1>6. \A q \in Editors : PutOk(q)'
  <2> SUFFICES ASSUME NEW q \in Editors, q # e PROVE PutOk(q)'
    BY <1>5
  <2>1. pc'[q] = pc[q] /\ reply'[q] = reply[q] /\ written'[q] = written[q]
    BY <1>2 DEF IInv, TypeOK
  <2> QED BY <1>3, <1>4, <2>1, OtherPut, IInvByParts
<1>7. \A s \in Servers, q \in Orgs : UpsertOk(s, q)'
  BY <1>3, <1>4, OtherUpsert, IInvByParts DEF migration
<1>8. OneMigrationAtATime'
  BY DEF IInv, OneMigrationAtATime, Migrating, migration
<1>9. DocsOk'
  <2>1. \A d \in Secondaries, q \in Orgs : applied'[d][q] <= Len(history'[q])
    BY <1>3 DEF IInv, ReadsAreCommitted, TypeOK
  <2>2. ASSUME OneNode PROVE VersionsArePlaces' /\ StatusHistoryOnlyGrows'
    BY <1>1, <1>2, <1>3, <2>2, CommitKeeps DEF IInv
  <2>3. ASSUME OneNode PROVE StoredEditsStay'
    <3>1. doc.content[p] = e /\ \A q \in Parts \ {p} : doc.content[q] = Latest(o).content[q]
      <4>1. Latest(o).content \in [Parts -> Editors \cup {Form, Nobody}]
        BY <1>1, <1>3, LatestIsDoc DEF TypeOK, Docs
      <4> QED BY <1>1, <2>3, <4>1
    <3>2. e # Form /\ written[e] = 0
      BY WritersAssumption DEF IInv, PutsInOrder
    <3>3. \A q \in Editors : reply'[q] = 200 => reply[q] = 200 /\ shown'[q] = shown[q]
      BY DEF IInv, TypeOK
    <3>4. /\ OrgOf(e) = o /\ edit[e].part = p /\ written[e] = 0
          /\ known[e] = Len(history[o])
          /\ written'[e] = Len(history[o]) + 1
          /\ \A q \in Editors \ {e} : written'[q] = written[q]
      BY <1>1, <1>2, <2>3, <3>2 DEF IInv, TypeOK
    <3>5. PutsInOrder /\ StoredEditsStay /\ UNCHANGED <<edit, known>> /\ e \in Editors \cup {Form}
      BY <2>3 DEF IInv
    <3>6. /\ o \in Orgs /\ p \in Parts /\ doc \in Docs /\ Commit(o, doc) /\ TypeOK
          /\ history[o] # <<>> => \A q \in Parts \ {p} : doc.content[q] = Latest(o).content[q]
          /\ e = Form => p = Top
      BY <1>1, <1>2, <1>3, <3>1, <3>2
    <3> QED BY <3>1, <3>3, <3>4, <3>5, <3>6, CommitKeepsEdits
  <2> QED BY <2>1, <2>2, <2>3 DEF DocsOk, OneNode
<1> QED BY <1>6, <1>7, <1>8, <1>9, IInvNext

\* The write of an upsert, the same way.
LEMMA UpsertKeeps ==
    ASSUME IInv, TypeOK', NEW s \in Servers, NEW o \in Orgs,
           UNCHANGED <<applied, puts, phase, lock>>,
           \/ upsert[s][o].at = "insert" /\ StoreInsert(o)
           \/ upsert[s][o].at = "write" /\ StoreUpsert(s, o),
           NEW outcome \in UpsertEnds, Ends(s, o, outcome)
    PROVE  IInv'
<1>1. PICK doc \in Docs :
          /\ Commit(o, doc) /\ doc.content[Top] = Form
          /\ OneNode =>
              /\ doc.version = Len(history[o]) + 1
              /\ history[o] # <<>> =>
                  /\ \A p \in Parts \ {Top} : doc.content[p] = Latest(o).content[p]
                  /\ \A p \in Parts : IsPrefix(Latest(o).statuses[p], doc.statuses[p])
  <2>1. CASE upsert[s][o].at = "insert" /\ StoreInsert(o)
    <3>1. history[o] = <<>> /\ Commit(o, InsertedDoc)
      BY <2>1 DEF StoreInsert
    <3>2. Len(history[o]) = 0
      BY <3>1
    <3>3. InsertedDoc.content[Top] = Form
      BY DEF InsertedDoc, FormContent, Parts
    <3> QED BY <3>1, <3>2, <3>3, InsertedIsDoc
  <2>2. CASE upsert[s][o].at = "write" /\ StoreUpsert(s, o)
    <3> DEFINE doc == Merged(history[o][upsert[s][o].base], Top, Form, "none")
    <3>1. /\ history[o] # <<>> /\ Commit(o, doc)
          /\ doc \in Docs /\ doc.content[Top] = Form
          /\ OneNode =>
              /\ doc.version = Len(history[o]) + 1
              /\ \A p \in Parts \ {Top} : doc.content[p] = Latest(o).content[p]
              /\ \A p \in Parts : IsPrefix(Latest(o).statuses[p], doc.statuses[p])
      BY <2>2, StoredUpsert
    <3> HIDE DEF doc
    <3> QED BY <3>1
  <2> QED BY <2>1, <2>2
<1>2. /\ TypeOK
      /\ \A q \in Orgs : Len(history[q]) \in Nat /\ Len(history[q]) <= Len(history'[q])
  BY <1>1, CommitAppends DEF IInv, TypeOK
<1>3. MovesOn
  BY <1>2 DEF MovesOn, TypeOK
<1>4. \A q \in Editors : PutOk(q)'
  BY <1>2, <1>3, OtherPut, IInvByParts DEF puts
<1>5. \A t \in Servers, q \in Orgs : UpsertOk(t, q)'
  <2> SUFFICES ASSUME NEW t \in Servers, NEW q \in Orgs PROVE UpsertOk(t, q)'
    OBVIOUS
  <2>1. CASE upsert'[t][q] = upsert[t][q]
    BY <1>2, <1>3, <2>1, OtherUpsert, IInvByParts
  <2>2. CASE upsert'[t][q] # upsert[t][q]
    <3>1. upsert'[t][q].at \in UpsertEnds
      BY <1>2, <2>2 DEF TypeOK, Ends, Moves, UpsertAt
    <3> QED BY <3>1 DEF UpsertOk, UpsertMovesForward, UpsertEnds
  <2> QED BY <2>1, <2>2
<1>6. OneMigrationAtATime'
  BY DEF IInv, OneMigrationAtATime, Migrating
<1>7. DocsOk'
  <2>1. \A d \in Secondaries, q \in Orgs : applied'[d][q] <= Len(history'[q])
    BY <1>2 DEF IInv, ReadsAreCommitted, TypeOK
  <2>2. ASSUME OneNode PROVE VersionsArePlaces' /\ StatusHistoryOnlyGrows'
    BY <1>1, <1>2, <2>2, CommitKeeps DEF IInv
  <2>3. ASSUME OneNode PROVE StoredEditsStay'
    <3>1. Top \in Parts /\ Form \notin Editors
      BY WritersAssumption DEF Parts
    <3> QED BY <1>1, <1>2, <2>3, <3>1, CommitKeepsEdits DEF IInv, puts
  <2> QED BY <2>1, <2>2, <2>3 DEF DocsOk, OneNode
<1> QED BY <1>4, <1>5, <1>6, <1>7, IInvNext
--------------------------------------------------------------------------------
(* One lemma per action *)

LEMMA EditorFacts ==
    ASSUME IInv, NEW e \in Editors
    PROVE  /\ OrgOf(e) \in Orgs /\ TypeOK /\ ReadsAreCommitted /\ PutOk(e)
           /\ Len(history[OrgOf(e)]) \in Nat
           /\ \A i \in Readable(OrgOf(e)) :
               /\ i \in 0..Len(history[OrgOf(e)])
               /\ OneNode => Readable(OrgOf(e)) = {i}
<1>1. TypeOK /\ ReadsAreCommitted /\ PutOk(e)
  BY IInvByParts DEF IInv
<1>2. OrgOf(e) \in Orgs /\ Len(history[OrgOf(e)]) \in Nat
  BY <1>1 DEF TypeOK, OrgOf, Edits
<1> QED BY <1>1, <1>2, ReadableIsCommitted, OneReadable

LEMMA GetByIdKeeps ==
    ASSUME IInv, NEW e \in Editors, GetById(e)
    PROVE  IInv'
<1>1. /\ OrgOf(e) \in Orgs /\ TypeOK /\ PutOk(e) /\ Len(history[OrgOf(e)]) \in Nat
  BY EditorFacts
<1>2. PICK i \in Readable(OrgOf(e)) \ {0} :
          known' = [known EXCEPT ![e] = history[OrgOf(e)][i].version]
  BY DEF GetById
<1>3. i \in 1..Len(history[OrgOf(e)]) /\ (OneNode => Readable(OrgOf(e)) = {i})
  BY <1>2, EditorFacts
<1>4. history[OrgOf(e)][i].version \in Nat
  BY <1>1, <1>3, StateIsADoc DEF TypeOK, Docs
<1>5. TypeOK'
  BY <1>1, <1>2, <1>4 DEF TypeOK, GetById, storage, migration, PCs
<1>6. OneNode => history[OrgOf(e)][i].version = i
  BY <1>1, <1>3 DEF IInv, VersionsArePlaces
<1>7. PutOk(e)'
  <2>1. /\ pc[e] = "get" /\ pc'[e] = "find" /\ OrgOf(e)' = OrgOf(e)
        /\ written[e] = 0 /\ tries[e] = 0 /\ reply[e] = 0
    BY <1>1 DEF GetById, PutOk, OrgOf, TypeOK
  <2>2. Readable(OrgOf(e))' = Readable(OrgOf(e))
    BY <2>1 DEF GetById, Readable, storage
  <2>3. OneNode => \A j \in Readable(OrgOf(e)) : known'[e] <= j
    BY <1>1, <1>2, <1>3, <1>6 DEF TypeOK
  <2> QED BY <1>1, <2>1, <2>2, <2>3 DEF PutOk, PutMovesForward, GetById, OneNode
<1>8. /\ pc[e] = "get" /\ written[e] = 0 /\ reply[e] = 0
      /\ UNCHANGED <<storage, edit, base, tries, reply, shown, written, migration>>
      /\ pc' = [pc EXCEPT ![e] = "find"]
  BY <1>1 DEF GetById, PutOk
<1>9. \A q \in Editors \ {e} : pc'[q] = pc[q] /\ known'[q] = known[q]
  BY <1>1, <1>2, <1>8 DEF TypeOK
<1> QED BY <1>5, <1>7, <1>8, <1>9, QuietPut

LEMMA UpdateFindKeeps ==
    ASSUME IInv, NEW e \in Editors, UpdateFind(e)
    PROVE  IInv'
<1>1. /\ OrgOf(e) \in Orgs /\ TypeOK /\ PutOk(e) /\ Len(history[OrgOf(e)]) \in Nat
  BY EditorFacts
<1>2. /\ pc[e] = "find" /\ UNCHANGED <<storage, edit, known, tries, shown, written, migration, faults>>
      /\ written[e] = 0 /\ tries[e] = 0 /\ reply[e] = 0 /\ OrgOf(e)' = OrgOf(e)
  BY <1>1 DEF UpdateFind, PutOk, OrgOf
<1>3. PICK i \in Readable(OrgOf(e)) :
        \/ i = 0 /\ Answer(e, 404) /\ UNCHANGED base
        \/ /\ i # 0 /\ base' = [base EXCEPT ![e] = i]
           /\ pc' = [pc EXCEPT ![e] = "write"] /\ UNCHANGED reply
  BY DEF UpdateFind
<1>4. i \in 0..Len(history[OrgOf(e)]) /\ (OneNode => known[e] <= i)
  BY <1>1, <1>2, EditorFacts DEF PutOk, PutMovesForward, InFlight
<1>5. i \in Nat
  BY <1>1, <1>4
<1>6. Readable(OrgOf(e))' = Readable(OrgOf(e)) /\ history' = history
  BY <1>2 DEF Readable, storage
<1>7. CASE i = 0 /\ Answer(e, 404) /\ UNCHANGED base
  <2>1. pc'[e] = "done" /\ reply'[e] = 404
    BY <1>1, <1>7 DEF Answer, TypeOK
  <2>2. TypeOK'
    BY <1>1, <1>2, <1>7 DEF TypeOK, Answer, PCs, storage, migration
  <2>3. PutOk(e)'
    BY <1>1, <1>2, <1>6, <2>1 DEF PutOk, PutMovesForward, InFlight, OneNode
  <2>4. \A q \in Editors \ {e} :
               /\ pc'[q] = pc[q] /\ known'[q] = known[q] /\ base'[q] = base[q]
               /\ tries'[q] = tries[q] /\ reply'[q] = reply[q] /\ shown'[q] = shown[q]
    BY <1>1, <1>2, <1>7 DEF Answer, TypeOK
  <2> QED BY <1>1, <1>2, <1>7, <2>1, <2>2, <2>3, <2>4, QuietPut
<1>8. CASE /\ i # 0 /\ base' = [base EXCEPT ![e] = i]
           /\ pc' = [pc EXCEPT ![e] = "write"] /\ UNCHANGED reply
  <2>1. pc'[e] = "write" /\ base'[e] = i /\ reply'[e] = 0
    BY <1>1, <1>2, <1>8 DEF TypeOK
  <2>2. i \in 1..Len(history[OrgOf(e)])
    BY <1>1, <1>4, <1>8
  <2>3. TypeOK'
    BY <1>1, <1>2, <1>5, <1>8 DEF TypeOK, PCs, storage, migration
  <2>4. OneNode => PutMovesForward(e)'
    BY <1>1, <1>2, <1>4, <1>6, <2>1 DEF PutOk, PutMovesForward, InFlight
  <2>5. PutOk(e)'
    BY <1>1, <1>2, <1>6, <2>1, <2>2, <2>4 DEF PutOk, OneNode
  <2>6. \A q \in Editors \ {e} :
               /\ pc'[q] = pc[q] /\ known'[q] = known[q] /\ base'[q] = base[q]
               /\ tries'[q] = tries[q] /\ reply'[q] = reply[q] /\ shown'[q] = shown[q]
    BY <1>1, <1>2, <1>8 DEF TypeOK
  <2> QED BY <1>1, <1>2, <1>8, <2>1, <2>3, <2>5, <2>6, QuietPut
<1> QED BY <1>3, <1>7, <1>8

LEMMA UpdateWriteKeeps ==
    ASSUME IInv, NEW e \in Editors, UpdateWrite(e)
    PROVE  IInv'
<1>1. /\ OrgOf(e) \in Orgs /\ TypeOK /\ PutOk(e) /\ Len(history[OrgOf(e)]) \in Nat
  BY EditorFacts
<1>2. pc[e] = "write" /\ UNCHANGED <<applied, edit, known, base, tries, shown, migration, faults>>
  BY DEF UpdateWrite
<1>3. CASE StoreEdit(e) /\ pc' = [pc EXCEPT ![e] = "confirm"] /\ UNCHANGED reply
  <2>1. Edited(e) \in Docs
    BY <1>2, <1>3, StoredEdit
  <2>2. history' \in [Orgs -> Seq(Docs)]
    BY <1>1, <1>3, <2>1, CommitAppends DEF StoreEdit, TypeOK
  <2>3. written' \in [Editors -> Nat]
    BY <1>1, <1>3 DEF StoreEdit, TypeOK
  <2>4. TypeOK'
    BY <1>1, <1>2, <1>3, <2>2, <2>3 DEF TypeOK, migration, PCs
  <2> QED BY <1>2, <1>3, <2>4, EditKeeps
<1>4. CASE Answer(e, 409) /\ UNCHANGED <<history, written>>
  <2>1. pc'[e] = "done" /\ reply'[e] = 409 /\ written[e] = 0 /\ OrgOf(e)' = OrgOf(e)
    BY <1>1, <1>2, <1>4 DEF Answer, TypeOK, PutOk, OrgOf
  <2>2. TypeOK'
    BY <1>1, <1>2, <1>4 DEF TypeOK, Answer, migration, PCs
  <2>3. PutOk(e)'
    BY <1>1, <1>2, <1>4, <2>1 DEF PutOk, PutMovesForward, InFlight, OneNode
  <2>4. \A q \in Editors \ {e} :
               /\ pc'[q] = pc[q] /\ known'[q] = known[q] /\ base'[q] = base[q]
               /\ tries'[q] = tries[q] /\ reply'[q] = reply[q] /\ shown'[q] = shown[q]
    BY <1>1, <1>2, <1>4 DEF Answer, TypeOK
  <2> QED BY <1>1, <1>2, <1>4, <2>1, <2>2, <2>3, <2>4, QuietPut DEF storage
<1> QED BY <1>3, <1>4 DEF UpdateWrite

LEMMA ConfirmKeeps ==
    ASSUME IInv, NEW e \in Editors, Confirm(e)
    PROVE  IInv'
<1>1. /\ OrgOf(e) \in Orgs /\ TypeOK /\ PutOk(e) /\ Len(history[OrgOf(e)]) \in Nat
  BY EditorFacts
<1>2. /\ pc[e] = "confirm" /\ UNCHANGED <<storage, edit, known, base, written, migration, faults>>
      /\ written[e] > 0 /\ tries[e] < MaxRetries /\ reply[e] = 0 /\ OrgOf(e)' = OrgOf(e)
  BY <1>1 DEF Confirm, PutOk, OrgOf
<1>3. tries[e] \in Nat /\ tries[e] + 1 \in 0..MaxRetries
  BY <1>1, <1>2, RetriesAssumption DEF TypeOK
<1>4. PICK i \in Readable(OrgOf(e)) :
        \/ /\ RecentEnough(OrgOf(e), i, known[e] + 1)
           /\ shown' = [shown EXCEPT ![e] = i] /\ Answer(e, 200) /\ UNCHANGED tries
        \/ /\ UNCHANGED shown /\ tries' = [tries EXCEPT ![e] = @ + 1]
           /\ \/ tries[e] + 1 < MaxRetries /\ UNCHANGED <<pc, reply>>
              \/ Answer(e, IF i = 0 THEN 404 ELSE 500)
  BY DEF Confirm
<1>5. i \in 0..Len(history[OrgOf(e)]) /\ i \in Nat
  BY <1>1, EditorFacts
<1>6. Readable(OrgOf(e))' = Readable(OrgOf(e)) /\ history' = history
  BY <1>2 DEF Readable, storage
<1>7. CASE /\ RecentEnough(OrgOf(e), i, known[e] + 1)
           /\ shown' = [shown EXCEPT ![e] = i] /\ Answer(e, 200) /\ UNCHANGED tries
  <2>1. pc'[e] = "done" /\ reply'[e] = 200 /\ shown'[e] = i
    BY <1>1, <1>7 DEF Answer, TypeOK
  <2>2. TypeOK'
    BY <1>1, <1>2, <1>5, <1>7 DEF TypeOK, Answer, storage, migration, PCs
  <2>3. PutOk(e)'
    BY <1>1, <1>2, <1>6, <2>1 DEF PutOk, PutMovesForward, InFlight, OneNode
  <2>4. ASSUME OneNode PROVE written[e] > 0 /\ i \in written[e]..Len(history[OrgOf(e)])
    <3>1. i \in 1..Len(history[OrgOf(e)]) /\ history[OrgOf(e)][i].version >= known[e] + 1
      BY <1>1, <1>5, <1>7 DEF RecentEnough
    <3>2. history[OrgOf(e)][i].version = i /\ written[e] = known[e] + 1
      BY <1>1, <1>2, <2>4, <3>1 DEF IInv, VersionsArePlaces, StoredEditsStay
    <3> QED BY <1>2, <3>1, <3>2
  <2>5. \A q \in Editors \ {e} :
               /\ pc'[q] = pc[q] /\ known'[q] = known[q] /\ base'[q] = base[q]
               /\ tries'[q] = tries[q] /\ reply'[q] = reply[q] /\ shown'[q] = shown[q]
    BY <1>1, <1>2, <1>7 DEF Answer, TypeOK
  <2> QED BY <1>1, <1>2, <1>7, <2>1, <2>2, <2>3, <2>4, <2>5, QuietPut
<1>8. CASE /\ UNCHANGED shown /\ tries' = [tries EXCEPT ![e] = @ + 1]
           /\ tries[e] + 1 < MaxRetries /\ UNCHANGED <<pc, reply>>
  <2>1. TypeOK'
    BY <1>1, <1>2, <1>3, <1>8 DEF TypeOK, storage, migration
  <2>2. tries'[e] = tries[e] + 1
    BY <1>1, <1>8 DEF TypeOK
  <2>3. PutOk(e)'
    BY <1>1, <1>2, <1>6, <1>8, <2>2 DEF PutOk, PutMovesForward, InFlight, OneNode
  <2>4. \A q \in Editors \ {e} :
               /\ pc'[q] = pc[q] /\ known'[q] = known[q] /\ base'[q] = base[q]
               /\ tries'[q] = tries[q] /\ reply'[q] = reply[q] /\ shown'[q] = shown[q]
    BY <1>1, <1>2, <1>8 DEF TypeOK
  <2> QED BY <1>1, <1>2, <1>8, <2>1, <2>3, <2>4, QuietPut
<1>9. CASE /\ UNCHANGED shown /\ tries' = [tries EXCEPT ![e] = @ + 1]
           /\ Answer(e, IF i = 0 THEN 404 ELSE 500)
  <2>1. TypeOK'
    BY <1>1, <1>2, <1>3, <1>9 DEF TypeOK, Answer, storage, migration, PCs
  <2>2. pc'[e] = "done" /\ reply'[e] # 200
    BY <1>1, <1>9 DEF Answer, TypeOK
  <2>3. PutOk(e)'
    BY <1>1, <1>2, <1>6, <2>2 DEF PutOk, PutMovesForward, InFlight, OneNode
  <2>4. \A q \in Editors \ {e} :
               /\ pc'[q] = pc[q] /\ known'[q] = known[q] /\ base'[q] = base[q]
               /\ tries'[q] = tries[q] /\ reply'[q] = reply[q] /\ shown'[q] = shown[q]
    BY <1>1, <1>2, <1>9 DEF Answer, TypeOK
  <2> QED BY <1>1, <1>2, <1>9, <2>1, <2>2, <2>3, <2>4, QuietPut
<1> QED BY <1>4, <1>7, <1>8, <1>9

LEMMA PutDatabaseErrorKeeps ==
    ASSUME IInv, NEW e \in Editors, PutDatabaseError(e)
    PROVE  IInv'
<1>1. /\ OrgOf(e) \in Orgs /\ TypeOK /\ PutOk(e) /\ Len(history[OrgOf(e)]) \in Nat
  BY EditorFacts
<1>2. /\ Answer(e, 500) /\ faults' = faults + 1
      /\ UNCHANGED <<applied, edit, known, base, tries, shown, migration>>
  BY DEF PutDatabaseError, Fail
<1>3. faults' \in Nat /\ reply' \in [Editors -> {-1, 0, 200, 404, 409, 500}] /\ pc' \in [Editors -> PCs]
  BY <1>1, <1>2 DEF TypeOK, Answer, PCs
<1>4. pc'[e] = "done" /\ reply'[e] = 500 /\ OrgOf(e)' = OrgOf(e)
  BY <1>1, <1>2 DEF Answer, TypeOK, OrgOf
<1>5. CASE UNCHANGED <<history, written>>
  <2>1. TypeOK'
    BY <1>1, <1>2, <1>3, <1>5 DEF TypeOK, migration
  <2>2. PutOk(e)'
    BY <1>1, <1>4, <1>5 DEF PutOk, PutMovesForward, InFlight, OneNode
  <2>3. \A q \in Editors \ {e} :
               /\ pc'[q] = pc[q] /\ known'[q] = known[q] /\ base'[q] = base[q]
               /\ tries'[q] = tries[q] /\ reply'[q] = reply[q] /\ shown'[q] = shown[q]
    BY <1>1, <1>2, <1>4, <1>5 DEF Answer, TypeOK
  <2> QED BY <1>1, <1>2, <1>4, <1>5, <2>1, <2>2, <2>3, QuietPut DEF storage
<1>6. CASE pc[e] = "write" /\ StoreEdit(e)
  <2>1. Edited(e) \in Docs
    BY <1>6, StoredEdit
  <2>2. history' \in [Orgs -> Seq(Docs)] /\ written' \in [Editors -> Nat]
    BY <1>1, <1>6, <2>1, CommitAppends DEF StoreEdit, TypeOK
  <2>3. TypeOK'
    BY <1>1, <1>2, <1>3, <2>2 DEF TypeOK, migration
  <2> QED BY <1>2, <1>6, <2>3, EditKeeps DEF Answer
<1> QED BY <1>5, <1>6 DEF PutDatabaseError

\* The migration of a server moves from place to place.
LEMMA PhaseKeeps ==
    ASSUME IInv, NEW s \in Servers, NEW place \in Phases,
           UNCHANGED <<storage, puts, upsert>>, Goto(s, place), faults' \in Nat,
           lock' \in Servers \cup {Nobody},
           place \in {"list", "upserts", "free"} => lock' = s,
           \A t \in Servers \ {s} : Migrating(t) => lock' = lock
    PROVE  IInv'
<1>1. TypeOK /\ OneMigrationAtATime
  BY DEF IInv
<1>2. TypeOK'
  BY <1>1 DEF TypeOK, Goto, storage, puts
<1>3. \A t \in Servers : phase'[t] = IF t = s THEN place ELSE phase[t]
  BY <1>1 DEF TypeOK, Goto
<1>4. OneMigrationAtATime'
  BY <1>1, <1>3 DEF OneMigrationAtATime, Migrating
<1> QED BY <1>1, <1>2, <1>4, StorageStays, QuietMigration

LEMMA LockKeeps ==
    ASSUME IInv, NEW s \in Servers, Lock(s)
    PROVE  IInv'
<1>1. TypeOK /\ OneMigrationAtATime /\ UNCHANGED <<storage, puts, upsert, faults>>
  BY DEF IInv, Lock
<1>2. faults' \in Nat
  BY <1>1 DEF TypeOK
<1>3. CASE lock = Nobody /\ lock' = s /\ Goto(s, "list")
  <2>1. \A t \in Servers : ~Migrating(t)
    BY <1>1, <1>3, WritersAssumption DEF OneMigrationAtATime
  <2> QED BY <1>1, <1>2, <1>3, <2>1, PhaseKeeps DEF Phases
<1>4. CASE Goto(s, "done") /\ UNCHANGED lock
  <2>1. lock' \in Servers \cup {Nobody}
    BY <1>1, <1>4 DEF TypeOK
  <2> QED BY <1>1, <1>2, <1>4, <2>1, PhaseKeeps DEF Phases
<1> QED BY <1>3, <1>4 DEF Lock

LEMMA UpsertsEndKeeps ==
    ASSUME IInv, NEW s \in Servers, UpsertsEnd(s) \/ ListDatabaseError(s)
    PROVE  IInv'
<1>1. TypeOK /\ OneMigrationAtATime
  BY DEF IInv
<1>2. /\ Migrating(s) /\ Goto(s, "free") /\ UNCHANGED <<storage, puts, upsert, lock>>
      /\ faults' \in {faults, faults + 1}
  BY DEF UpsertsEnd, ListDatabaseError, Fail, Migrating
<1>3. lock = s /\ lock' = s /\ faults' \in Nat
  BY <1>1, <1>2 DEF OneMigrationAtATime, TypeOK
<1> QED BY <1>1, <1>2, <1>3, PhaseKeeps DEF Phases

LEMMA FreeKeeps ==
    ASSUME IInv, NEW s \in Servers, Free(s)
    PROVE  IInv'
<1>1. TypeOK /\ OneMigrationAtATime
  BY DEF IInv
<1>2. /\ Migrating(s) /\ Goto(s, "done") /\ UNCHANGED <<storage, puts, upsert>>
      /\ lock' \in {lock, Nobody} /\ faults' \in {faults, faults + 1}
  BY DEF Free, Fail, Migrating
<1>3. lock = s /\ \A t \in Servers \ {s} : ~Migrating(t)
  BY <1>1, <1>2 DEF OneMigrationAtATime
<1>4. faults' \in Nat /\ lock' \in Servers \cup {Nobody}
  BY <1>1, <1>2 DEF TypeOK
<1> QED BY <1>1, <1>2, <1>3, <1>4, PhaseKeeps DEF Phases

LEMMA RestartKeeps ==
    ASSUME IInv, NEW s \in Servers, Restart(s)
    PROVE  IInv'
<1>1. TypeOK /\ Goto(s, "lock") /\ UNCHANGED <<storage, puts, upsert, lock, faults>>
  BY DEF IInv, Restart
<1>2. faults' \in Nat /\ lock' \in Servers \cup {Nobody}
  BY <1>1 DEF TypeOK
<1> QED BY <1>1, <1>2, PhaseKeeps DEF Phases

LEMMA ReleaseAbandonedKeeps ==
    ASSUME IInv, NEW s \in Servers, ReleaseAbandoned(s)
    PROVE  IInv'
<1>1. TypeOK /\ OneMigrationAtATime
  BY DEF IInv
<1>2. /\ lock = s /\ ~Migrating(s) /\ lock' = Nobody
      /\ UNCHANGED <<storage, puts, phase, upsert, faults>>
  BY DEF ReleaseAbandoned, Migrating
<1>3. \A t \in Servers : ~Migrating(t)
  BY <1>1, <1>2 DEF OneMigrationAtATime
<1>4. TypeOK'
  BY <1>1, <1>2 DEF TypeOK, storage, puts
<1>5. OneMigrationAtATime'
  BY <1>2, <1>3 DEF OneMigrationAtATime, Migrating
<1> QED BY <1>1, <1>2, <1>4, <1>5, StorageStays, QuietMigration

LEMMA ListSubmissionsKeeps ==
    ASSUME IInv, NEW s \in Servers, ListSubmissions(s)
    PROVE  IInv'
<1>1. TypeOK /\ OneMigrationAtATime
  BY DEF IInv
<1>2. /\ phase[s] = "list" /\ Goto(s, "upserts") /\ UNCHANGED <<storage, puts, lock, faults>>
  BY DEF ListSubmissions
<1>3. PICK listed \in SUBSET Orgs :
        upsert' = [upsert EXCEPT ![s] = [o \in Orgs |->
            UpsertAt(IF o \notin listed THEN "notListed"
                     ELSE IF o \in Malformed THEN "transformFailed" ELSE "find")]]
  BY DEF ListSubmissions
<1>4. \A o \in Orgs : /\ upsert'[s][o] \in Upserts
                      /\ upsert'[s][o].at \in {"notListed", "transformFailed", "find"}
  BY <1>1, <1>3 DEF TypeOK, UpsertAt, Upserts, UpsertEnds, UpsertSteps
<1>5. \A t \in Servers \ {s} : upsert'[t] = upsert[t]
  BY <1>1, <1>3 DEF TypeOK
<1>6. upsert' \in [Servers -> [Orgs -> Upserts]]
  BY <1>1, <1>3, <1>4 DEF TypeOK
<1>7. TypeOK'
  BY <1>1, <1>2, <1>6 DEF TypeOK, Goto, Phases, storage, puts
<1>8. OneMigrationAtATime'
  BY <1>1, <1>2 DEF OneMigrationAtATime, Migrating, Goto, TypeOK
<1>9. \A t \in Servers, o \in Orgs : upsert'[t][o] = upsert[t][o] \/ UpsertOk(t, o)'
  BY <1>4, <1>5 DEF UpsertOk, UpsertMovesForward
<1> QED BY <1>1, <1>2, <1>7, <1>8, <1>9, StorageStays, QuietMigration

\* An upsert that moves without writing.
LEMMA UpsertMovesKeeps ==
    ASSUME IInv, NEW s \in Servers, NEW o \in Orgs, NEW to \in Upserts,
           UNCHANGED <<storage, puts, phase, lock>>, faults' \in Nat, Moves(s, o, to),
           to.at = "write" => to.base \in 1..Len(history[o]) /\ (OneNode => to.version <= to.base),
           to.at = "reread" => (OneNode => \A i \in Readable(o) : to.version <= i)
    PROVE  IInv'
<1>1. TypeOK /\ OneMigrationAtATime
  BY DEF IInv
<1>2. upsert' = [upsert EXCEPT ![s] = [upsert[s] EXCEPT ![o] = to]]
  BY DEF Moves
<1>3. upsert' \in [Servers -> [Orgs -> Upserts]] /\ upsert'[s][o] = to
  BY <1>1, <1>2 DEF TypeOK
<1>4. TypeOK'
  BY <1>1, <1>3 DEF TypeOK, storage, puts
<1>5. OneMigrationAtATime'
  BY <1>1 DEF OneMigrationAtATime, Migrating
<1>6. UpsertOk(s, o)'
  BY <1>3 DEF UpsertOk, UpsertMovesForward, OneNode, Readable, storage
<1>7. \A t \in Servers, q \in Orgs : upsert'[t][q] = upsert[t][q] \/ UpsertOk(t, q)'
  BY <1>1, <1>2, <1>6 DEF TypeOK
<1> QED BY <1>1, <1>4, <1>5, <1>7, StorageStays, QuietMigration

LEMMA UpsertOutcomes ==
    ASSUME NEW at \in UpsertEnds \cup {"find", "insert"}
    PROVE  UpsertAt(at) \in Upserts /\ UpsertAt(at).at \notin {"write", "reread"}
  BY DEF UpsertAt, Upserts, UpsertEnds, UpsertSteps

LEMMA UpsertFindKeeps ==
    ASSUME IInv, NEW s \in Servers, NEW o \in Orgs, UpsertFind(s, o)
    PROVE  IInv'
<1>1. TypeOK /\ ReadsAreCommitted /\ UNCHANGED <<storage, puts, phase, lock, faults>>
  BY DEF IInv, UpsertFind
<1>2. faults' \in Nat
  BY <1>1 DEF TypeOK
<1>3. PICK i \in Readable(o) :
        \/ Moves(s, o, UpsertAt("insert"))
        \/ Moves(s, o, UpsertAt("unchanged"))
        \/ i # 0 /\ Moves(s, o, [at |-> "reread", version |-> history[o][i].version, base |-> 0])
  BY DEF UpsertFind, Ends
<1>4. CASE Moves(s, o, UpsertAt("insert")) \/ Moves(s, o, UpsertAt("unchanged"))
  <2>1. PICK at \in UpsertEnds \cup {"find", "insert"} : Moves(s, o, UpsertAt(at))
    BY <1>4 DEF UpsertEnds
  <2> QED BY <1>1, <1>2, <2>1, UpsertOutcomes, UpsertMovesKeeps
<1>5. CASE i # 0 /\ Moves(s, o, [at |-> "reread", version |-> history[o][i].version, base |-> 0])
  <2> DEFINE to == [at |-> "reread", version |-> history[o][i].version, base |-> 0]
  <2>1. Len(history[o]) \in Nat /\ i \in 1..Len(history[o])
    BY <1>1, <1>5, ReadableIsCommitted DEF TypeOK
  <2>2. history[o][i].version \in Nat
    BY <1>1, <2>1, StateIsADoc DEF TypeOK, Docs
  <2>3. to \in Upserts /\ to.at = "reread"
    BY <2>2 DEF Upserts, UpsertSteps
  <2>4. ASSUME OneNode PROVE \A j \in Readable(o) : to.version <= j
    <3>1. to.version = i /\ Readable(o) = {i}
      BY <2>1, <2>4, OneReadable DEF IInv, VersionsArePlaces
    <3> QED BY <2>1, <3>1
  <2>5. Moves(s, o, to)
    BY <1>5
  <2> HIDE DEF to
  <2> QED BY <1>1, <1>2, <2>3, <2>4, <2>5, UpsertMovesKeeps
<1> QED BY <1>3, <1>4, <1>5

LEMMA UpsertRereadKeeps ==
    ASSUME IInv, NEW s \in Servers, NEW o \in Orgs, UpsertReread(s, o)
    PROVE  IInv'
<1>1. TypeOK /\ ReadsAreCommitted /\ UNCHANGED <<storage, puts, phase, lock, faults>>
  BY DEF IInv, UpsertReread
<1>2. faults' \in Nat /\ upsert[s][o].at = "reread" /\ upsert[s][o] \in Upserts
  BY <1>1 DEF TypeOK, UpsertReread, Upserting
<1>3. PICK i \in Readable(o) :
        \/ Moves(s, o, UpsertAt("upsertFailed"))
        \/ i # 0 /\ Moves(s, o, [at |-> "write", version |-> upsert[s][o].version, base |-> i])
  BY DEF UpsertReread, Ends
<1>4. CASE Moves(s, o, UpsertAt("upsertFailed"))
  <2>1. "upsertFailed" \in UpsertEnds \cup {"find", "insert"}
    BY DEF UpsertEnds
  <2> QED BY <1>1, <1>2, <1>4, <2>1, UpsertOutcomes, UpsertMovesKeeps
<1>5. CASE i # 0 /\ Moves(s, o, [at |-> "write", version |-> upsert[s][o].version, base |-> i])
  <2> DEFINE to == [at |-> "write", version |-> upsert[s][o].version, base |-> i]
  <2>1. Len(history[o]) \in Nat /\ i \in 1..Len(history[o])
    BY <1>1, <1>5, ReadableIsCommitted DEF TypeOK
  <2>2. to \in Upserts /\ to.at = "write" /\ to.base = i /\ to.version = upsert[s][o].version
    <3>1. upsert[s][o].version \in Nat /\ i \in Nat /\ "write" \in UpsertSteps
      BY <1>2, <2>1 DEF Upserts, UpsertSteps
    <3> QED BY <3>1 DEF Upserts
  <2>3. OneNode => to.version <= i
    BY <1>2, <2>2 DEF IInv, ReadsMoveForward, UpsertMovesForward
  <2>4. Moves(s, o, to)
    BY <1>5
  <2> HIDE DEF to
  <2> QED BY <1>1, <1>2, <2>1, <2>2, <2>3, <2>4, UpsertMovesKeeps
<1> QED BY <1>3, <1>4, <1>5

\* An upsert that writes, and one that finds it cannot.
LEMMA UpsertStoresKeeps ==
    ASSUME IInv, NEW s \in Servers, NEW o \in Orgs,
           UNCHANGED <<applied, puts, phase, lock>>, faults' \in Nat,
           \/ upsert[s][o].at = "insert" /\ StoreInsert(o)
           \/ upsert[s][o].at = "write" /\ StoreUpsert(s, o)
           \/ UNCHANGED history,
           NEW outcome \in UpsertEnds, Ends(s, o, outcome)
    PROVE  IInv'
<1>1. TypeOK /\ Moves(s, o, UpsertAt(outcome))
  BY DEF IInv, Ends
<1>2. UpsertAt(outcome) \in Upserts /\ UpsertAt(outcome).at \notin {"write", "reread"}
  BY UpsertOutcomes
<1>3. upsert' \in [Servers -> [Orgs -> Upserts]]
  BY <1>1, <1>2 DEF TypeOK, Moves
<1>4. CASE UNCHANGED history
  BY <1>1, <1>2, <1>4, UpsertMovesKeeps DEF storage
<1>5. CASE \/ upsert[s][o].at = "insert" /\ StoreInsert(o)
           \/ upsert[s][o].at = "write" /\ StoreUpsert(s, o)
  <2>1. \E doc \in Docs : Commit(o, doc)
    BY <1>5, InsertedIsDoc, StoredUpsert DEF StoreInsert
  <2>2. history' \in [Orgs -> Seq(Docs)]
    BY <1>1, <2>1, CommitAppends DEF TypeOK
  <2>3. TypeOK'
    BY <1>1, <1>3, <2>2 DEF TypeOK, puts
  <2> QED BY <1>5, <2>3, UpsertKeeps
<1> QED BY <1>4, <1>5

LEMMA UpsertInsertKeeps ==
    ASSUME IInv, NEW s \in Servers, NEW o \in Orgs, UpsertInsert(s, o)
    PROVE  IInv'
<1>1. /\ UNCHANGED <<applied, puts, phase, lock>> /\ faults' \in Nat
      /\ upsert[s][o].at = "insert"
  BY DEF IInv, TypeOK, UpsertInsert, Upserting
<1>2. PICK outcome \in UpsertEnds : Ends(s, o, outcome) /\ (StoreInsert(o) \/ UNCHANGED history)
  BY DEF UpsertInsert, UpsertEnds
<1> QED BY <1>1, <1>2, UpsertStoresKeeps

LEMMA UpsertWriteKeeps ==
    ASSUME IInv, NEW s \in Servers, NEW o \in Orgs, UpsertWrite(s, o)
    PROVE  IInv'
<1>1. /\ UNCHANGED <<applied, puts, phase, lock>> /\ faults' \in Nat
      /\ upsert[s][o].at = "write"
  BY DEF IInv, TypeOK, UpsertWrite, Upserting
<1>2. PICK outcome \in UpsertEnds : Ends(s, o, outcome) /\ (StoreUpsert(s, o) \/ UNCHANGED history)
  BY DEF UpsertWrite, UpsertEnds
<1> QED BY <1>1, <1>2, UpsertStoresKeeps

LEMMA UpsertDatabaseErrorKeeps ==
    ASSUME IInv, NEW s \in Servers, NEW o \in Orgs, UpsertDatabaseError(s, o)
    PROVE  IInv'
<1>1. UNCHANGED <<applied, puts, phase, lock>> /\ faults' \in Nat
  BY DEF IInv, TypeOK, UpsertDatabaseError, Fail
<1>2. "upsertFailed" \in UpsertEnds /\ Ends(s, o, "upsertFailed")
  BY DEF UpsertDatabaseError, UpsertEnds
<1>3. \/ upsert[s][o].at = "insert" /\ StoreInsert(o)
      \/ upsert[s][o].at = "write" /\ StoreUpsert(s, o)
      \/ UNCHANGED history
  BY DEF UpsertDatabaseError, Upserting
<1> QED BY <1>1, <1>2, <1>3, UpsertStoresKeeps

LEMMA ReplicateKeeps ==
    ASSUME IInv, NEW d \in Secondaries, NEW o \in Orgs, Replicate(d, o)
    PROVE  IInv'
<1>1. TypeOK /\ OneMigrationAtATime /\ UNCHANGED <<history, puts, migration, faults>>
  BY DEF IInv, Replicate
<1>2. /\ applied[d][o] < Len(history[o])
      /\ applied' = [applied EXCEPT ![d] = [applied[d] EXCEPT ![o] = applied[d][o] + 1]]
  BY DEF Replicate
<1>3. applied' \in [Secondaries -> [Orgs -> Nat]]
  BY <1>1, <1>2 DEF TypeOK
<1>4. TypeOK'
  BY <1>1, <1>3 DEF TypeOK, puts, migration
<1>5. \A c \in Secondaries, q \in Orgs :
          applied[c][q] <= applied'[c][q] /\ applied'[c][q] <= Len(history[q])
  BY <1>1, <1>2 DEF TypeOK, IInv, ReadsAreCommitted
<1>6. OneMigrationAtATime'
  BY <1>1 DEF OneMigrationAtATime, Migrating, migration
<1> QED BY <1>1, <1>4, <1>5, <1>6, QuietMigration DEF migration

\* A crash loses PUTs and a migration, never a document.
LEMMA CrashKeeps ==
    ASSUME IInv, NEW s \in Servers, Crash(s)
    PROVE  IInv'
<1>1. TypeOK /\ OneMigrationAtATime
  BY DEF IInv
<1>2. /\ UNCHANGED <<storage, edit, known, base, tries, shown, written, lock>>
      /\ Goto(s, "down") /\ faults' = faults + 1
      /\ upsert' = [upsert EXCEPT ![s] = [o \in Orgs |-> UpsertAt("notListed")]]
  BY DEF Crash, Fail
<1>3. PICK lost \in SUBSET {e \in Editors : InFlight(e)} :
        /\ pc' = [e \in Editors |-> IF e \in lost THEN "done" ELSE pc[e]]
        /\ reply' = [e \in Editors |-> IF e \in lost THEN -1 ELSE reply[e]]
  BY DEF Crash
<1>4. TypeOK'
  <2>1. UpsertAt("notListed") \in Upserts
    BY UpsertOutcomes DEF UpsertEnds
  <2>2. upsert' \in [Servers -> [Orgs -> Upserts]]
    BY <1>1, <1>2, <2>1 DEF TypeOK
  <2>3. pc' \in [Editors -> PCs] /\ reply' \in [Editors -> {-1, 0, 200, 404, 409, 500}]
    BY <1>1, <1>3 DEF TypeOK, PCs
  <2> QED BY <1>1, <1>2, <2>2, <2>3 DEF TypeOK, Goto, Phases, storage
<1>5. MovesOn
  BY <1>1, <1>2 DEF MovesOn, storage, TypeOK
<1>6. \A e \in Editors : PutOk(e)'
  <2> SUFFICES ASSUME NEW e \in Editors PROVE PutOk(e)'
    OBVIOUS
  <2>1. CASE e \in lost
    <3>1. pc'[e] = "done" /\ reply'[e] = -1 /\ OrgOf(e)' = OrgOf(e) /\ PutOk(e)
      BY <1>2, <1>3, <2>1, EditorFacts DEF OrgOf
    <3> QED BY <1>2, <3>1 DEF PutOk, PutMovesForward, InFlight, storage, OneNode
  <2>2. CASE e \notin lost
    BY <1>1, <1>2, <1>3, <1>4, <1>5, <2>2, OtherPut, EditorFacts
  <2> QED BY <2>1, <2>2
<1>7. \A t \in Servers, o \in Orgs : UpsertOk(t, o)'
  <2> SUFFICES ASSUME NEW t \in Servers, NEW o \in Orgs PROVE UpsertOk(t, o)'
    OBVIOUS
  <2>1. CASE t = s
    <3>1. upsert'[t][o].at = "notListed"
      BY <1>1, <1>2, <2>1 DEF TypeOK, UpsertAt
    <3> QED BY <3>1 DEF UpsertOk, UpsertMovesForward
  <2>2. CASE t # s
    <3>1. upsert'[t][o] = upsert[t][o]
      BY <1>1, <1>2, <2>2 DEF TypeOK
    <3> QED BY <1>1, <1>4, <1>5, <3>1, OtherUpsert, IInvByParts
  <2> QED BY <2>1, <2>2
<1>8. OneMigrationAtATime'
  BY <1>1, <1>2 DEF OneMigrationAtATime, Migrating, Goto, TypeOK
<1>9. DocsOk'
  <2>1. \A d \in Secondaries, o \in Orgs : applied'[d][o] <= Len(history'[o])
    BY <1>2 DEF IInv, ReadsAreCommitted, storage
  <2>2. ASSUME OneNode PROVE VersionsArePlaces' /\ StatusHistoryOnlyGrows'
    BY <1>2, <2>2 DEF IInv, VersionsArePlaces, StatusHistoryOnlyGrows, storage
  <2>3. \A e \in Editors : reply'[e] = 200 => reply[e] = 200 /\ shown'[e] = shown[e]
    BY <1>2, <1>3
  <2>4. ASSUME OneNode PROVE StoredEditsStay'
    BY <1>1, <1>2, <1>4, <2>3, <2>4, QuietKeepsEdits DEF IInv, storage
  <2> QED BY <2>1, <2>2, <2>4 DEF DocsOk, OneNode
<1> QED BY <1>4, <1>6, <1>7, <1>8, <1>9, IInvNext
--------------------------------------------------------------------------------
(* Theorems *)

LEMMA InitiallyIInv == Init => IInv
<1> SUFFICES ASSUME Init PROVE IInv
  OBVIOUS
<1>1. TypeOK
  <2>1. UpsertAt("notListed") \in Upserts
    BY UpsertOutcomes DEF UpsertEnds
  <2> QED BY <2>1, RetriesAssumption DEF Init, TypeOK, PCs, Phases
<1>2. \A o \in Orgs : Len(history[o]) = 0
  BY DEF Init
<1>3. \A e \in Editors : OrgOf(e) \in Orgs
  BY <1>1 DEF TypeOK, OrgOf, Edits
<1>4. ReadsAreCommitted /\ PutsInOrder /\ OneMigrationAtATime /\ ReadsMoveForward
  BY <1>2, <1>3, RetriesAssumption DEF Init, ReadsAreCommitted, PutsInOrder, OneMigrationAtATime,
     ReadsMoveForward, PutMovesForward, UpsertMovesForward, Migrating, InFlight, UpsertAt
<1>5. VersionsArePlaces /\ StatusHistoryOnlyGrows /\ StoredEditsStay
  BY <1>2, <1>3 DEF Init, VersionsArePlaces, StatusHistoryOnlyGrows, StoredEditsStay
<1> QED BY <1>1, <1>4, <1>5 DEF IInv

LEMMA NextKeeps == IInv /\ [Next]_vars => IInv'
<1> SUFFICES ASSUME IInv, [Next]_vars PROVE IInv'
  OBVIOUS
<1>1. CASE UNCHANGED vars
  <2>1. TypeOK' /\ OneMigrationAtATime'
    BY <1>1 DEF vars, IInv, TypeOK, OneMigrationAtATime, Migrating
  <2>2. UNCHANGED <<storage, puts, upsert>>
    BY <1>1 DEF vars, storage, puts
  <2> QED BY <2>1, <2>2, StorageStays, QuietMigration
<1>2. ASSUME NEW e \in Editors, GetById(e) \/ Put(e) \/ PutDatabaseError(e)
      PROVE  IInv'
  BY <1>2, GetByIdKeeps, UpdateFindKeeps, UpdateWriteKeeps, ConfirmKeeps, PutDatabaseErrorKeeps
     DEF Put
<1>3. ASSUME NEW s \in Servers,
             Lock(s) \/ ListSubmissions(s) \/ UpsertsEnd(s) \/ Free(s)
               \/ ListDatabaseError(s) \/ Crash(s) \/ Restart(s) \/ ReleaseAbandoned(s)
      PROVE  IInv'
  BY <1>3, LockKeeps, ListSubmissionsKeeps, UpsertsEndKeeps, FreeKeeps, CrashKeeps, RestartKeeps,
     ReleaseAbandonedKeeps
<1>4. ASSUME NEW s \in Servers, NEW o \in Orgs, Upsert(s, o) \/ UpsertDatabaseError(s, o)
      PROVE  IInv'
  BY <1>4, UpsertFindKeeps, UpsertInsertKeeps, UpsertRereadKeeps, UpsertWriteKeeps,
     UpsertDatabaseErrorKeeps DEF Upsert
<1>5. ASSUME NEW d \in Secondaries, NEW o \in Orgs, Replicate(d, o)
      PROVE  IInv'
  BY <1>5, ReplicateKeeps
<1> QED BY <1>1, <1>2, <1>3, <1>4, <1>5 DEF Next, Migrate

\* The invariant of the proofs holds in every state of the service.
THEOREM InductiveInvariant == Spec => []IInv
<1> QED BY InitiallyIInv, NextKeeps, PTL DEF Spec

\* Documents, reads, answers and migrations stay what the code takes them for: no
\* PUT is answered twice with different codes, none retries past MaxRetries.
THEOREM TypeCorrect == Spec => []TypeOK
<1>1. IInv => TypeOK
  BY DEF IInv
<1> QED BY <1>1, InductiveInvariant, PTL

\* Servers that start together do not migrate together, whatever crashes and
\* whichever unlock fails: whoever is between lock() and free() holds the lock.
THEOREM OneMigration == Spec => []OneMigrationAtATime
<1>1. IInv => OneMigrationAtATime
  BY DEF IInv
<1> QED BY <1>1, InductiveInvariant, PTL

\* When all reads come from one node, no writer shortens or rewrites the status
\* history of a part, however PUTs and migrations overlap.
THEOREM StatusHistoriesGrow ==
    ASSUME OneNode PROVE Spec => []StatusHistoryOnlyGrows
<1>1. IInv => StatusHistoryOnlyGrows
  BY DEF IInv
<1> QED BY <1>1, InductiveInvariant, PTL

\* What stays in the document is in the state that answers.
LEMMA StoredEditsShow == TypeOK /\ StoredEditsStay => AnswerShowsTheEdit
<1> SUFFICES ASSUME TypeOK, StoredEditsStay, NEW e \in Editors, reply[e] = 200
             PROVE  written[e] \in 1..shown[e] /\ HasTheEdit(e, shown[e])
  BY DEF AnswerShowsTheEdit
<1>1. written[e] > 0 /\ shown[e] \in written[e]..Len(history[OrgOf(e)])
  BY DEF StoredEditsStay
<1>2. HasTheEdit(e, shown[e])
  BY <1>1 DEF StoredEditsStay
<1>3. written[e] \in Nat /\ shown[e] \in Nat
  BY DEF TypeOK
<1> QED BY <1>1, <1>2, <1>3

\* When all reads come from one node, a PUT that is answered 200 is answered with
\* a document that has its change, unless a later writer replaced that part.
THEOREM AnswersShowEdits ==
    ASSUME OneNode PROVE Spec => []AnswerShowsTheEdit
<1>1. IInv => AnswerShowsTheEdit
  BY StoredEditsShow DEF IInv
<1> QED BY <1>1, InductiveInvariant, PTL
--------------------------------------------------------------------------------
(* Refinement: with one node to read from, every update is one atomic step *)

\* Where the steps of Store come from.
LEMMA StepKinds ==
    ASSUME IInv, Next
    PROVE  /\ UNCHANGED edit
           /\ \/ /\ UNCHANGED <<history, written>>
                 /\ \A e \in Editors : \/ written[e] > 0
                                       \/ reply'[e] \in {404, 409} <=> reply[e] \in {404, 409}
              \/ \E e \in Editors :
                  /\ UNCHANGED <<history, written>>
                  /\ written[e] = 0 /\ reply[e] = 0 /\ reply'[e] \in {404, 409}
                  /\ \A q \in Editors \ {e} : reply'[q] = reply[q]
              \/ \E e \in Editors :
                  /\ pc[e] = "write" /\ StoreEdit(e)
                  /\ \A q \in Editors \ {e} : reply'[q] = reply[q]
              \/ \E s \in Servers, o \in Orgs :
                  /\ UNCHANGED <<written, reply>>
                  /\ \/ StoreInsert(o)
                     \/ upsert[s][o].at = "write" /\ StoreUpsert(s, o)
<1> DEFINE Quiet == /\ UNCHANGED <<history, written, edit>>
                    /\ \A e \in Editors : \/ written[e] > 0
                                          \/ reply'[e] \in {404, 409} <=> reply[e] \in {404, 409}
           Refuses(e) == /\ UNCHANGED <<history, written, edit>>
                         /\ written[e] = 0 /\ reply[e] = 0 /\ reply'[e] \in {404, 409}
                         /\ \A q \in Editors \ {e} : reply'[q] = reply[q]
           Applies(e) == /\ UNCHANGED edit
                         /\ pc[e] = "write" /\ StoreEdit(e)
                         /\ \A q \in Editors \ {e} : reply'[q] = reply[q]
           Upserts_(s, o) == /\ UNCHANGED <<edit, written, reply>>
                             /\ \/ StoreInsert(o)
                                \/ upsert[s][o].at = "write" /\ StoreUpsert(s, o)
<1>1. TypeOK /\ PutsInOrder
  BY DEF IInv
<1>2. ASSUME UNCHANGED <<history, puts>> PROVE Quiet
  BY <1>2 DEF puts
<1>3. ASSUME NEW e \in Editors, GetById(e) \/ Put(e) \/ PutDatabaseError(e)
      PROVE  Quiet \/ Refuses(e) \/ Applies(e)
  <2>1. CASE GetById(e)
    BY <2>1 DEF GetById, storage
  <2>2. CASE UpdateFind(e)
    <3>1. /\ UNCHANGED <<history, written, edit>> /\ written[e] = 0 /\ reply[e] = 0
          /\ \/ Answer(e, 404)
             \/ UNCHANGED reply
      BY <1>1, <2>2 DEF UpdateFind, storage, PutsInOrder
    <3>2. CASE Answer(e, 404)
      BY <1>1, <3>1, <3>2 DEF Answer, TypeOK
    <3>3. CASE UNCHANGED reply
      BY <3>1, <3>3
    <3> QED BY <3>1, <3>2, <3>3
  <2>3. CASE UpdateWrite(e)
    <3>1. /\ UNCHANGED edit /\ pc[e] = "write" /\ written[e] = 0 /\ reply[e] = 0
          /\ \/ StoreEdit(e) /\ UNCHANGED reply
             \/ Answer(e, 409) /\ UNCHANGED <<history, written>>
      BY <1>1, <2>3 DEF UpdateWrite, PutsInOrder
    <3>2. CASE StoreEdit(e) /\ UNCHANGED reply
      BY <3>1, <3>2
    <3>3. CASE Answer(e, 409) /\ UNCHANGED <<history, written>>
      BY <1>1, <3>1, <3>3 DEF Answer, TypeOK
    <3> QED BY <3>1, <3>2, <3>3
  <2>4. CASE Confirm(e)
    <3>1. /\ UNCHANGED <<history, written, edit>> /\ written[e] > 0
          /\ \/ UNCHANGED reply
             \/ \E code : Answer(e, code)
      BY <1>1, <2>4 DEF Confirm, storage, PutsInOrder
    <3>2. \A q \in Editors \ {e} : reply'[q] = reply[q]
      BY <1>1, <3>1 DEF Answer, TypeOK
    <3> QED BY <3>1, <3>2
  <2>5. CASE PutDatabaseError(e)
    <3>1. /\ UNCHANGED edit /\ Answer(e, 500) /\ reply[e] = 0
          /\ \/ UNCHANGED <<history, written>>
             \/ pc[e] = "write" /\ StoreEdit(e)
      BY <1>1, <2>5 DEF PutDatabaseError, PutsInOrder
    <3>2. reply'[e] = 500 /\ \A q \in Editors \ {e} : reply'[q] = reply[q]
      BY <1>1, <3>1 DEF Answer, TypeOK
    <3> QED BY <3>1, <3>2
  <2> QED BY <1>3, <2>1, <2>2, <2>3, <2>4, <2>5 DEF Put
<1>4. ASSUME NEW s \in Servers,
             Lock(s) \/ ListSubmissions(s) \/ UpsertsEnd(s) \/ Free(s)
               \/ ListDatabaseError(s) \/ Restart(s) \/ ReleaseAbandoned(s)
      PROVE  Quiet
  <2>1. UNCHANGED <<history, puts>>
    BY <1>4 DEF Lock, ListSubmissions, UpsertsEnd, Free, ListDatabaseError, Restart,
       ReleaseAbandoned, storage
  <2> QED BY <1>2, <2>1
<1>5. ASSUME NEW s \in Servers, Crash(s) PROVE Quiet
  <2>1. UNCHANGED <<history, written, edit>>
    BY <1>5 DEF Crash, storage
  <2>2. PICK lost \in SUBSET {e \in Editors : InFlight(e)} :
          reply' = [e \in Editors |-> IF e \in lost THEN -1 ELSE reply[e]]
    BY <1>5 DEF Crash
  <2>3. \A e \in Editors : reply'[e] = reply[e] \/ (reply'[e] = -1 /\ reply[e] = 0)
    <3>1. \A e \in lost : reply[e] = 0
      BY <1>1 DEF PutsInOrder, InFlight
    <3>2. \A e \in Editors : reply'[e] = IF e \in lost THEN -1 ELSE reply[e]
      BY <2>2
    <3> QED BY <3>1, <3>2
  <2> QED BY <2>1, <2>3
<1>6. ASSUME NEW s \in Servers, NEW o \in Orgs, Upsert(s, o) \/ UpsertDatabaseError(s, o)
      PROVE  Quiet \/ Upserts_(s, o)
  <2>1. UNCHANGED puts
    BY <1>6 DEF Upsert, UpsertFind, UpsertInsert, UpsertReread, UpsertWrite, UpsertDatabaseError
  <2>2. \/ UNCHANGED history
        \/ StoreInsert(o)
        \/ upsert[s][o].at = "write" /\ StoreUpsert(s, o)
    BY <1>6 DEF Upsert, UpsertFind, UpsertInsert, UpsertReread, UpsertWrite, UpsertDatabaseError,
       Upserting, storage
  <2> QED BY <1>2, <2>1, <2>2 DEF puts
<1>7. ASSUME NEW d \in Secondaries, NEW o \in Orgs, Replicate(d, o) PROVE Quiet
  BY <1>2, <1>7 DEF Replicate
<1>8. \/ Quiet
      \/ \E e \in Editors : Refuses(e)
      \/ \E e \in Editors : Applies(e)
      \/ \E s \in Servers, o \in Orgs : Upserts_(s, o)
  BY <1>3, <1>4, <1>5, <1>6, <1>7 DEF Next, Migrate
<1> QED BY <1>8

StoreDoc == [o \in Orgs |-> IF history[o] = <<>> THEN Nobody ELSE Latest(o)]
StoreOutcome == [e \in Editors |->
    IF written[e] > 0 THEN "applied"
    ELSE IF reply[e] \in {404, 409} THEN "refused" ELSE "open"]

\* The two specifications merge in the same way.
LEMMA SameStatuses ==
    ASSUME NEW status, NEW statuses
    PROVE  Store!NextStatuses(statuses, status) = StatusHistoryWithChanges(status, statuses)
  BY DEF Store!NextStatuses, StatusHistoryWithChanges, InitialStatusHistory, CurrentStatus

\* A commit changes one register.
LEMMA CommitChangesOne ==
    ASSUME TypeOK, NEW o \in Orgs, NEW doc \in Docs, Commit(o, doc)
    PROVE  /\ StoreDoc' = [StoreDoc EXCEPT ![o] = doc]
           /\ (StoreDoc[o] = Nobody) <=> (history[o] = <<>>)
           /\ history[o] # <<>> => StoreDoc[o] = Latest(o)
<1>1. /\ history'[o] # <<>> /\ Latest(o)' = doc
      /\ \A q \in Orgs : q # o => history'[q] = history[q]
  BY CommitAppends DEF TypeOK
<1>2. \A q \in Orgs : q # o => StoreDoc'[q] = StoreDoc[q]
  BY <1>1 DEF StoreDoc, Latest
<1>3. StoreDoc'[o] = doc
  BY <1>1 DEF StoreDoc
<1>4. StoreDoc' = [StoreDoc EXCEPT ![o] = doc]
  BY <1>2, <1>3 DEF StoreDoc
<1>5. history[o] # <<>> => Latest(o) # Nobody
  BY LatestIsDoc, NobodyAssumption DEF TypeOK
<1> QED BY <1>4, <1>5 DEF StoreDoc

\* An update in Store is a merge into the register.
LEMMA UpdateIsMerge ==
    ASSUME TypeOK, NEW o \in Orgs, NEW p \in Parts, NEW w, NEW status,
           history[o] # <<>>, Merged(Latest(o), p, w, status) \in Docs,
           Commit(o, Merged(Latest(o), p, w, status))
    PROVE  /\ StoreDoc[o] # Nobody
           /\ StoreDoc' = [StoreDoc EXCEPT ![o] = Store!Rewritten(StoreDoc[o], p, w, status)]
<1>1. StoreDoc[o] = Latest(o) /\ StoreDoc[o] # Nobody
  BY CommitChangesOne
<1>2. Store!Rewritten(Latest(o), p, w, status) = Merged(Latest(o), p, w, status)
  BY SameStatuses DEF Merged, Store!Rewritten
<1>3. StoreDoc' = [StoreDoc EXCEPT ![o] = Store!Rewritten(StoreDoc[o], p, w, status)]
  BY <1>1, <1>2, CommitChangesOne
<1> QED BY <1>1, <1>3

LEMMA OneOutcome ==
    ASSUME NEW e \in Editors, NEW c, StoreOutcome'[e] = c,
           \A q \in Editors \ {e} : StoreOutcome'[q] = StoreOutcome[q]
    PROVE  StoreOutcome' = [StoreOutcome EXCEPT ![e] = c]
<1>1. /\ StoreOutcome = [q \in Editors |-> StoreOutcome[q]]
      /\ StoreOutcome' = [q \in Editors |-> StoreOutcome'[q]]
  BY DEF StoreOutcome
<1> QED BY <1>1

\* An update that is stored with its outcome is one step of the register.
LEMMA StoredUpdateRefines ==
    ASSUME TypeOK, UNCHANGED edit, NEW e \in Editors, NEW o \in Orgs, o = OrgOf(e),
           written[e] = 0, reply[e] = 0, history[o] # <<>>,
           Commit(o, Merged(Latest(o), edit[e].part, e, edit[e].status)),
           written' = [written EXCEPT ![e] = Len(history[o]) + 1],
           \A q \in Editors \ {e} : reply'[q] = reply[q]
    PROVE  Store!Apply(e)
<1>1. PICK p \in Parts, status \in NewStatuses \cup {"none"} :
        p = edit[e].part /\ status = edit[e].status
  BY DEF TypeOK, Edits
<1>2. Latest(o) \in Docs /\ Len(history[o]) \in Nat
  BY LatestIsDoc DEF TypeOK
<1>3. Merged(Latest(o), p, e, status) \in Docs
  BY <1>2, MergedIsDoc
<1>4. Commit(o, Merged(Latest(o), p, e, status))
  BY <1>1 DEF Commit
<1>5. /\ StoreDoc[o] # Nobody
      /\ StoreDoc' = [StoreDoc EXCEPT ![o] = Store!Rewritten(StoreDoc[o], p, e, status)]
  BY <1>3, <1>4, UpdateIsMerge
<1>6. Store!Update(edit[e].org, edit[e].part, e, edit[e].status)
  BY <1>1, <1>5 DEF Store!Update, StoreDoc, OrgOf
<1>7. StoreOutcome[e] = "open" /\ StoreOutcome'[e] = "applied"
  BY <1>2 DEF StoreOutcome, TypeOK
<1>8. \A q \in Editors : q # e => StoreOutcome'[q] = StoreOutcome[q]
  <2>1. \A q \in Editors : q # e => written'[q] = written[q] /\ reply'[q] = reply[q]
    BY DEF TypeOK
  <2> QED BY <2>1 DEF StoreOutcome
<1>9. StoreOutcome' = [StoreOutcome EXCEPT ![e] = "applied"]
  BY <1>7, <1>8, OneOutcome
<1> QED BY <1>6, <1>7, <1>9 DEF Store!Apply, StoreOutcome

\* So are the insert of a form that is new and the update by one that is not.
LEMMA StoredFormRefines ==
    ASSUME TypeOK, UNCHANGED <<edit, written, reply>>, NEW o \in Orgs,
           \/ history[o] = <<>> /\ Commit(o, InsertedDoc)
           \/ history[o] # <<>> /\ Commit(o, Merged(Latest(o), Top, Form, "none"))
    PROVE  Store!Create(o) \/ Store!Resubmit(o)
<1>1. UNCHANGED StoreOutcome
  BY DEF StoreOutcome
<1>2. CASE history[o] = <<>> /\ Commit(o, InsertedDoc)
  <2>1. StoreDoc' = [StoreDoc EXCEPT ![o] = InsertedDoc] /\ StoreDoc[o] = Nobody
    BY <1>2, InsertedIsDoc, CommitChangesOne
  <2>2. Store!Create(o)
    BY <1>1, <2>1 DEF Store!Create, StoreDoc, StoreOutcome, InsertedDoc, FormContent,
       InitialStatusHistory, Store!Parts, Parts
  <2> QED BY <2>2
<1>3. CASE history[o] # <<>> /\ Commit(o, Merged(Latest(o), Top, Form, "none"))
  <2>1. Latest(o) \in Docs
    BY <1>3, LatestIsDoc DEF TypeOK
  <2>2. Top \in Parts /\ Form \in Editors \cup {Form} /\ "none" \in NewStatuses \cup {"none"}
    BY DEF Parts
  <2>3. Merged(Latest(o), Top, Form, "none") \in Docs
    BY <2>1, <2>2, MergedIsDoc
  <2>4. Store!Update(o, Top, Form, "none")
    BY <1>3, <2>2, <2>3, UpdateIsMerge DEF Store!Update, StoreDoc
  <2> QED BY <1>1, <2>4 DEF Store!Resubmit, StoreOutcome
<1> QED BY <1>2, <1>3

LEMMA EditRefines ==
    ASSUME OneNode, IInv, TypeOK', UNCHANGED edit, NEW e \in Editors,
           pc[e] = "write", StoreEdit(e),
           \A q \in Editors \ {e} : reply'[q] = reply[q]
    PROVE  Store!Apply(e)
<1>1. /\ OrgOf(e) \in Orgs /\ history[OrgOf(e)] # <<>> /\ Base(e) = Latest(OrgOf(e))
  BY StoredEdit
<1>2. TypeOK /\ written[e] = 0 /\ reply[e] = 0
  BY DEF IInv, PutsInOrder
<1>3. PICK o \in Orgs : o = OrgOf(e)
  BY <1>1
<1>4. Commit(o, Merged(Latest(o), edit[e].part, e, edit[e].status))
  BY <1>1, <1>3 DEF StoreEdit, Edited
<1>5. written' = [written EXCEPT ![e] = Len(history[o]) + 1]
  BY <1>3 DEF StoreEdit
<1> QED BY <1>1, <1>2, <1>3, <1>4, <1>5, StoredUpdateRefines

LEMMA UpsertRefines ==
    ASSUME OneNode, IInv, UNCHANGED <<edit, written, reply>>, NEW s \in Servers, NEW o \in Orgs,
           \/ StoreInsert(o)
           \/ upsert[s][o].at = "write" /\ StoreUpsert(s, o)
    PROVE  Store!Create(o) \/ Store!Resubmit(o)
<1>1. CASE StoreInsert(o)
  BY <1>1, StoredFormRefines DEF StoreInsert, IInv
<1>2. CASE upsert[s][o].at = "write" /\ StoreUpsert(s, o)
  <2>1. /\ history[o] # <<>> /\ history[o][upsert[s][o].base] = Latest(o)
    BY <1>2, StoredUpsert
  <2>2. Commit(o, Merged(Latest(o), Top, Form, "none"))
    BY <1>2, <2>1 DEF StoreUpsert
  <2> QED BY <2>1, <2>2, StoredFormRefines DEF IInv
<1> QED BY <1>1, <1>2

LEMMA RefusalRefines ==
    ASSUME UNCHANGED <<history, written, edit>>, NEW e \in Editors,
           written[e] = 0, reply[e] = 0, reply'[e] \in {404, 409},
           \A q \in Editors \ {e} : reply'[q] = reply[q]
    PROVE  Store!Refuse(e)
<1>1. UNCHANGED StoreDoc
  BY DEF StoreDoc, Latest
<1>2. /\ StoreOutcome[e] = "open" /\ StoreOutcome'[e] = "refused"
      /\ \A q \in Editors : q # e => StoreOutcome'[q] = StoreOutcome[q]
  BY DEF StoreOutcome
<1>3. StoreOutcome' = [StoreOutcome EXCEPT ![e] = "refused"]
  BY <1>2, OneOutcome
<1> QED BY <1>1, <1>2, <1>3 DEF Store!Refuse, StoreDoc, StoreOutcome

LEMMA InitRefines == Init => Store!Init
<1> SUFFICES ASSUME Init PROVE Store!Init
  OBVIOUS
<1>1. StoreDoc = [o \in Orgs |-> Nobody] /\ StoreOutcome = [e \in Editors |-> "open"]
  BY DEF Init, StoreDoc, StoreOutcome
<1>2. edit \in [Editors -> [org : Orgs, part : Parts, status : NewStatuses \cup {"none"}]]
  BY DEF Init, Edits
<1> QED BY <1>1, <1>2 DEF Store!Init, StoreDoc, StoreOutcome, Store!Parts, Parts

LEMMA QuietRefines ==
    ASSUME UNCHANGED <<history, written, edit>>,
           \A e \in Editors : \/ written[e] > 0
                              \/ reply'[e] \in {404, 409} <=> reply[e] \in {404, 409}
    PROVE  UNCHANGED Store!register
<1>1. UNCHANGED StoreDoc /\ UNCHANGED StoreOutcome
  BY DEF StoreDoc, StoreOutcome, Latest
<1> QED BY <1>1 DEF Store!register, StoreDoc, StoreOutcome

LEMMA NextRefines ==
    ASSUME OneNode, IInv, IInv', [Next]_vars
    PROVE  Store!Next \/ UNCHANGED Store!register
<1>1. CASE UNCHANGED vars
  BY <1>1 DEF vars, Store!register, Latest
<1>2. CASE Next
  <2>1. TypeOK' /\ UNCHANGED edit
    BY <1>2, StepKinds DEF IInv
  <2>2. CASE /\ UNCHANGED <<history, written>>
             /\ \A e \in Editors : \/ written[e] > 0
                                   \/ reply'[e] \in {404, 409} <=> reply[e] \in {404, 409}
    BY <2>1, <2>2, QuietRefines
  <2>3. ASSUME NEW e \in Editors, UNCHANGED <<history, written>>,
               written[e] = 0, reply[e] = 0, reply'[e] \in {404, 409},
               \A q \in Editors \ {e} : reply'[q] = reply[q]
        PROVE  Store!Next
    <3>1. Store!Refuse(e)
      BY <2>1, <2>3, RefusalRefines
    <3> QED BY <3>1 DEF Store!Next
  <2>4. ASSUME NEW e \in Editors, pc[e] = "write", StoreEdit(e),
               \A q \in Editors \ {e} : reply'[q] = reply[q]
        PROVE  Store!Next
    <3>1. Store!Apply(e)
      BY <2>1, <2>4, EditRefines
    <3> QED BY <3>1 DEF Store!Next
  <2>5. ASSUME NEW s \in Servers, NEW o \in Orgs, UNCHANGED <<written, reply>>,
               \/ StoreInsert(o)
               \/ upsert[s][o].at = "write" /\ StoreUpsert(s, o)
        PROVE  Store!Next
    <3>1. Store!Create(o) \/ Store!Resubmit(o)
      BY <2>1, <2>5, UpsertRefines
    <3> QED BY <3>1 DEF Store!Next
  <2> QED BY <1>2, <2>2, <2>3, <2>4, <2>5, StepKinds
<1> QED BY <1>1, <1>2

\* When all reads come from one node (the primary, say, or a single secondary that
\* lags), find, merge and filtered write make one atomic update: every committed
\* step is a step of a register, and a PUT is applied once or not at all.
THEOREM Refinement == ASSUME OneNode PROVE Spec => ImplementsStore
<1>1. IInv /\ IInv' /\ [Next]_vars => [Store!Next]_Store!register
  BY NextRefines
<1> QED BY <1>1, InitRefines, InductiveInvariant, PTL DEF Spec, ImplementsStore, Store!Spec
--------------------------------------------------------------------------------
(* Frames *)

EditOk(e) ==
    /\ pc[e] \in {"get", "find", "write"} => written[e] = 0 /\ tries[e] = 0
    /\ pc[e] = "confirm" => written[e] > 0 /\ tries[e] < MaxRetries
    /\ pc[e] # "done" => reply[e] = 0
    /\ written[e] <= Len(history[OrgOf(e)])

\* PUTs are where they were while documents move on.
LEMMA PutsStay ==
    ASSUME TypeOK, PutsInOrder, UNCHANGED edit,
           \A o \in Orgs : Len(history[o]) <= Len(history'[o]) /\ Len(history'[o]) \in Nat,
           \A e \in Editors :
               \/ /\ pc'[e] = pc[e] /\ tries'[e] = tries[e]
                  /\ reply'[e] = reply[e] /\ written'[e] = written[e]
               \/ EditOk(e)'
    PROVE  PutsInOrder'
<1>1. \A e \in Editors : /\ OrgOf(e) \in Orgs /\ OrgOf(e)' = OrgOf(e)
                         /\ written[e] \in Nat /\ Len(history[OrgOf(e)]) \in Nat
  BY DEF TypeOK, OrgOf, Edits
<1>2. \A e \in Editors : written'[e] <= Len(history'[OrgOf(e)'])
  BY <1>1 DEF PutsInOrder, EditOk
<1> QED BY <1>2 DEF PutsInOrder, EditOk

\* Whatever writes no document.
LEMMA MemoryQuiet ==
    ASSUME MemoryInv, TypeOK', UNCHANGED <<history, edit, written>>,
           CopyLags', NothingIsHalfDone', OneMigrationAtATime',
           \A e \in Editors :
               \/ /\ pc'[e] = pc[e] /\ known'[e] = known[e] /\ tries'[e] = tries[e]
                  /\ reply'[e] = reply[e] /\ shown'[e] = shown[e]
               \/ EditOk(e)' /\ written[e] = 0 /\ reply'[e] # 200,
           repository' = repository
    PROVE  MemoryInv'
<1>1. TypeOK /\ PutsInOrder /\ StoredEditsStay
  BY DEF MemoryInv
<1>2. PutsInOrder'
  <2>1. \A o \in Orgs : Len(history[o]) <= Len(history'[o]) /\ Len(history'[o]) \in Nat
    BY <1>1 DEF TypeOK
  <2> QED BY <1>1, <2>1, PutsStay
<1>3. VersionsArePlaces' /\ StatusHistoryOnlyGrows'
  BY DEF MemoryInv, VersionsArePlaces, StatusHistoryOnlyGrows
<1>4. StoredEditsStay'
  <2>1. /\ \A e \in Editors : written[e] > 0 => known'[e] = known[e]
        /\ \A e \in Editors : reply'[e] = 200 => reply[e] = 200 /\ shown'[e] = shown[e]
    OBVIOUS
  <2> QED BY <1>1, <2>1, QuietKeepsEdits
<1>5. StoredPutsAreConfirmed => StoredPutsAreConfirmed'
  <2>1. \A e \in Editors : written[e] > 0 => reply'[e] = reply[e] /\ shown'[e] = shown[e]
    OBVIOUS
  <2> QED BY <2>1 DEF StoredPutsAreConfirmed
<1> QED BY <1>2, <1>3, <1>4, <1>5 DEF MemoryInv

\* Whatever writes a document.
LEMMA MemoryWrites ==
    ASSUME MemoryInv, TypeOK', UNCHANGED <<edit, known, tries, shown, phase, lock, repository>>,
           CopyLags', NothingIsHalfDone', NEW o \in Orgs, NEW doc \in Docs, Commit(o, doc),
           doc.version = Len(history[o]) + 1,
           history[o] # <<>> =>
               \A q \in Parts : IsPrefix(Latest(o).statuses[q], doc.statuses[q]),
           NEW p \in Parts, NEW w \in Editors \cup {Form},
           doc.content[p] = w,
           history[o] # <<>> => \A q \in Parts \ {p} : doc.content[q] = Latest(o).content[q],
           w = Form => p = Top,
           w \in Editors => /\ OrgOf(w) = o /\ edit[w].part = p
                           /\ pc[w] = "find" /\ pc'[w] = "confirm" /\ reply'[w] = reply[w]
                           /\ known[w] = Len(history[o])
                           /\ written'[w] = Len(history[o]) + 1,
           \A e \in Editors \ {w} :
               pc'[e] = pc[e] /\ reply'[e] = reply[e] /\ written'[e] = written[e]
    PROVE  MemoryInv'
<1>1. TypeOK /\ PutsInOrder /\ StoredEditsStay /\ VersionsArePlaces /\ StatusHistoryOnlyGrows
  BY DEF MemoryInv
<1>2. /\ Len(history[o]) \in Nat /\ Len(history'[o]) = Len(history[o]) + 1
      /\ \A q \in Orgs : Len(history[q]) \in Nat /\ Len(history[q]) <= Len(history'[q])
      /\ \A q \in Orgs : Len(history'[q]) \in Nat
  BY <1>1, CommitAppends DEF TypeOK
<1>3. w \in Editors => written[w] = 0 /\ tries[w] = 0 /\ reply[w] = 0 /\ OrgOf(w)' = o
  BY <1>1 DEF PutsInOrder, OrgOf
<1>4. w \in Editors => EditOk(w)'
  BY <1>2, <1>3, RetriesAssumption DEF EditOk
<1>5. PutsInOrder'
  BY <1>1, <1>2, <1>4, PutsStay
<1>6. VersionsArePlaces' /\ StatusHistoryOnlyGrows'
  BY <1>1, CommitKeeps
<1>7. \A e \in Editors : reply'[e] = reply[e] /\ shown'[e] = shown[e]
  OBVIOUS
<1>8. StoredEditsStay'
  BY <1>1, <1>3, <1>7, CommitKeepsEdits
<1>9. OneMigrationAtATime'
  BY DEF MemoryInv, OneMigrationAtATime, Migrating
<1>10. StoredPutsAreConfirmed => StoredPutsAreConfirmed'
  <2>1. \A e \in Editors : reply'[e] # 0 => written'[e] = written[e]
    BY <1>3, <1>7
  <2>2. \A e \in Editors : written'[e] = written[e] \/ reply'[e] = 0
    BY <2>1
  <2> QED BY <1>7, <2>2 DEF StoredPutsAreConfirmed
<1> QED BY <1>5, <1>6, <1>8, <1>9, <1>10 DEF MemoryInv
--------------------------------------------------------------------------------
(* One lemma per action *)

LEMMA MemoryFacts ==
    ASSUME MemoryInv, NEW e \in Editors
    PROVE  /\ TypeOK /\ OrgOf(e) \in Orgs /\ EditOk(e)
           /\ edit[e].part \in Parts /\ edit[e].status \in NewStatuses \cup {"none"}
           /\ Len(history[OrgOf(e)]) \in Nat
           /\ cached[OrgOf(e)] \in 0..Len(history[OrgOf(e)])
<1>1. TypeOK /\ PutsInOrder /\ CopyLags
  BY DEF MemoryInv
<1>2. /\ OrgOf(e) \in Orgs /\ Len(history[OrgOf(e)]) \in Nat
      /\ edit[e].part \in Parts /\ edit[e].status \in NewStatuses \cup {"none"}
  BY <1>1 DEF TypeOK, OrgOf, Edits
<1>3. cached[OrgOf(e)] \in 0..Len(history[OrgOf(e)])
  BY <1>1, <1>2 DEF CopyLags
<1> QED BY <1>1, <1>2, <1>3 DEF PutsInOrder, EditOk

LEMMA MemoryGetByIdKeeps ==
    ASSUME MemoryInv, NEW e \in Editors, MemoryGetById(e)
    PROVE  MemoryInv'
<1>1. /\ TypeOK /\ OrgOf(e) \in Orgs /\ EditOk(e) /\ Len(history[OrgOf(e)]) \in Nat
      /\ cached[OrgOf(e)] \in 1..Len(history[OrgOf(e)])
  BY MemoryFacts DEF MemoryGetById
<1>2. /\ pc[e] = "get" /\ pc' = [pc EXCEPT ![e] = "find"]
      /\ known' = [known EXCEPT ![e] = history[OrgOf(e)][cached[OrgOf(e)]].version]
      /\ UNCHANGED <<storage, edit, base, tries, reply, shown, written, migration, faults, memory>>
  BY DEF MemoryGetById
<1>3. history[OrgOf(e)][cached[OrgOf(e)]].version \in Nat
  BY <1>1, StateIsADoc DEF TypeOK, Docs
<1>4. TypeOK'
  BY <1>1, <1>2, <1>3 DEF TypeOK, PCs, storage, migration
<1>5. CopyLags'
  BY <1>2 DEF MemoryInv, CopyLags, storage, memory
<1>6. NothingIsHalfDone'
  <2>1. \A q \in Editors : pc'[q] # "write"
    BY <1>1, <1>2 DEF MemoryInv, NothingIsHalfDone, TypeOK
  <2> QED BY <1>2, <2>1 DEF MemoryInv, NothingIsHalfDone, migration
<1>7. OneMigrationAtATime'
  BY <1>2 DEF MemoryInv, OneMigrationAtATime, Migrating, migration
<1>8. pc'[e] = "find" /\ OrgOf(e)' = OrgOf(e) /\ written[e] = 0 /\ tries[e] = 0 /\ reply[e] = 0
  BY <1>1, <1>2 DEF EditOk, OrgOf, TypeOK
<1>9. EditOk(e)'
  BY <1>1, <1>2, <1>8 DEF EditOk, storage
<1>10. \A q \in Editors \ {e} : pc'[q] = pc[q] /\ known'[q] = known[q]
  BY <1>1, <1>2 DEF TypeOK
<1>11. /\ UNCHANGED <<history, edit, written>> /\ repository' = repository
       /\ UNCHANGED <<tries, reply, shown>>
  BY <1>2 DEF storage, memory
<1>12. EditOk(e)' /\ written[e] = 0 /\ reply'[e] # 200
  BY <1>8, <1>9, <1>11
<1> QED BY <1>4, <1>5, <1>6, <1>7, <1>10, <1>11, <1>12, MemoryQuiet

\* update() merges into the last state: what it compares is what it writes over.
LEMMA MemoryUpdateStores ==
    ASSUME MemoryInv, NEW o \in Orgs, history[o] # <<>>,
           NEW p \in Parts, NEW w \in Editors \cup {Form}, NEW status \in NewStatuses \cup {"none"},
           MemoryUpdate(o, p, w, status)
    PROVE  /\ Latest(o).version = Len(history[o])
           /\ history' \in [Orgs -> Seq(Docs)]
           /\ CopyLags'
           /\ \E doc \in Docs :
               /\ Commit(o, doc)
               /\ doc.version = Len(history[o]) + 1
               /\ doc.content[p] = w
               /\ \A q \in Parts \ {p} : doc.content[q] = Latest(o).content[q]
               /\ \A q \in Parts : IsPrefix(Latest(o).statuses[q], doc.statuses[q])
<1> SUFFICES ASSUME NEW doc, doc = Merged(Latest(o), p, w, status)
             PROVE  /\ Latest(o).version = Len(history[o])
                    /\ history' \in [Orgs -> Seq(Docs)]
                    /\ CopyLags'
                    /\ doc \in Docs
                    /\ Commit(o, doc)
                    /\ doc.version = Len(history[o]) + 1
                    /\ doc.content[p] = w
                    /\ \A q \in Parts \ {p} : doc.content[q] = Latest(o).content[q]
                    /\ \A q \in Parts : IsPrefix(Latest(o).statuses[q], doc.statuses[q])
  OBVIOUS
<1>1. TypeOK /\ VersionsArePlaces /\ CopyLags
  BY DEF MemoryInv
<1>2. Latest(o) \in Docs /\ Len(history[o]) \in 1..Len(history[o])
  BY <1>1, LatestIsDoc DEF TypeOK
<1>3. Latest(o).version = Len(history[o])
  BY <1>1, <1>2 DEF VersionsArePlaces, Latest
<1>4. /\ doc \in Docs /\ doc.version = Len(history[o]) + 1
      /\ doc.content = [Latest(o).content EXCEPT ![p] = w]
      /\ \A q \in Parts : IsPrefix(Latest(o).statuses[q], doc.statuses[q])
  BY <1>2, <1>3, MergedIsDoc
<1>5. Latest(o).content \in [Parts -> Editors \cup {Form, Nobody}]
  BY <1>2 DEF Docs
<1>6. doc.content[p] = w /\ \A q \in Parts \ {p} : doc.content[q] = Latest(o).content[q]
  BY <1>4, <1>5
<1>7. Commit(o, doc) /\ pending' = TRUE /\ cached' = cached
  BY DEF MemoryUpdate
<1>8. /\ history' \in [Orgs -> Seq(Docs)]
      /\ \A q \in Orgs : Len(history[q]) \in Nat /\ Len(history[q]) <= Len(history'[q])
      /\ \A q \in Orgs : Len(history'[q]) \in Nat
  BY <1>1, <1>4, <1>7, CommitAppends DEF TypeOK
<1>9. ASSUME NEW q \in Orgs PROVE cached[q] <= Len(history'[q])
  <2>1. cached[q] \in Nat /\ cached[q] <= Len(history[q])
    BY <1>1 DEF CopyLags
  <2> QED BY <1>8, <2>1
<1>10. CopyLags'
  BY <1>1, <1>7, <1>9 DEF CopyLags
<1> QED BY <1>3, <1>4, <1>6, <1>7, <1>8, <1>10

LEMMA MemoryPutKeeps ==
    ASSUME MemoryInv, NEW e \in Editors, MemoryPut(e)
    PROVE  MemoryInv'
<1>1. /\ TypeOK /\ OrgOf(e) \in Orgs /\ EditOk(e) /\ Len(history[OrgOf(e)]) \in Nat
      /\ edit[e].part \in Parts /\ edit[e].status \in NewStatuses \cup {"none"}
  BY MemoryFacts
<1>2. /\ pc[e] = "find"
      /\ UNCHANGED <<applied, edit, known, base, tries, shown, migration, faults, repository>>
      /\ written[e] = 0 /\ reply[e] = 0 /\ OrgOf(e)' = OrgOf(e)
  BY <1>1 DEF MemoryPut, EditOk, OrgOf
<1>3. CASE (Answer(e, 404) \/ Answer(e, 409)) /\ UNCHANGED <<history, written, cached, pending>>
  <2>1. PICK code \in {404, 409} :
            pc' = [pc EXCEPT ![e] = "done"] /\ reply' = [reply EXCEPT ![e] = code]
    BY <1>3 DEF Answer
  <2>2. /\ pc'[e] = "done" /\ reply'[e] # 200
        /\ \A q \in Editors \ {e} : pc'[q] = pc[q] /\ reply'[q] = reply[q]
    BY <1>1, <2>1 DEF TypeOK
  <2>3. pc' \in [Editors -> PCs] /\ reply' \in [Editors -> {-1, 0, 200, 404, 409, 500}]
    BY <1>1, <2>1 DEF TypeOK, PCs
  <2>4. TypeOK'
    BY <1>1, <1>2, <1>3, <2>3 DEF TypeOK, migration
  <2>5. CopyLags' /\ NothingIsHalfDone' /\ OneMigrationAtATime'
    <3>1. \A q \in Editors : pc'[q] # "write"
      BY <2>2 DEF MemoryInv, NothingIsHalfDone
    <3> QED BY <1>2, <1>3, <3>1 DEF MemoryInv, CopyLags, NothingIsHalfDone, OneMigrationAtATime,
               Migrating, migration
  <2>6. EditOk(e)' /\ written[e] = 0 /\ reply'[e] # 200
    BY <1>1, <1>2, <1>3, <2>2 DEF EditOk
  <2> QED BY <1>2, <1>3, <2>2, <2>4, <2>5, <2>6, MemoryQuiet
<1>4. CASE /\ history[OrgOf(e)] # <<>> /\ VersionMatches(OrgOf(e), known[e])
           /\ MemoryUpdate(OrgOf(e), edit[e].part, e, edit[e].status)
           /\ written' = [written EXCEPT ![e] = Len(history[OrgOf(e)]) + 1]
           /\ pc' = [pc EXCEPT ![e] = "confirm"]
           /\ UNCHANGED reply
  <2>1. PICK o \in Orgs, p \in Parts, status \in NewStatuses \cup {"none"} :
            o = OrgOf(e) /\ p = edit[e].part /\ status = edit[e].status
    BY <1>1
  <2>2. MemoryUpdate(o, p, e, status) /\ history[o] # <<>> /\ known[e] = Latest(o).version
    BY <1>4, <2>1 DEF MemoryUpdate, Commit, VersionMatches
  <2>3. /\ Latest(o).version = Len(history[o])
        /\ history' \in [Orgs -> Seq(Docs)]
        /\ CopyLags'
    BY <2>2, MemoryUpdateStores
  <2>4. PICK doc \in Docs :
               /\ Commit(o, doc)
               /\ doc.version = Len(history[o]) + 1
               /\ doc.content[p] = e
               /\ \A q \in Parts \ {p} : doc.content[q] = Latest(o).content[q]
               /\ \A q \in Parts : IsPrefix(Latest(o).statuses[q], doc.statuses[q])
    BY <2>2, MemoryUpdateStores
  <2>5. /\ written' \in [Editors -> Nat] /\ pc' \in [Editors -> PCs]
        /\ pc'[e] = "confirm" /\ written'[e] = Len(history[o]) + 1
        /\ \A q \in Editors \ {e} : pc'[q] = pc[q] /\ written'[q] = written[q]
    BY <1>1, <1>4, <2>1 DEF TypeOK, PCs
  <2>6. TypeOK'
    BY <1>1, <1>2, <1>4, <2>3, <2>5 DEF TypeOK, migration
  <2>7. NothingIsHalfDone'
    <3>1. \A q \in Editors : pc'[q] # "write"
      BY <2>5 DEF MemoryInv, NothingIsHalfDone
    <3> QED BY <1>2, <3>1 DEF MemoryInv, NothingIsHalfDone, migration
  <2>8. e \in Editors => /\ OrgOf(e) = o /\ edit[e].part = p
                         /\ pc[e] = "find" /\ pc'[e] = "confirm" /\ reply'[e] = reply[e]
                         /\ known[e] = Len(history[o])
                         /\ written'[e] = Len(history[o]) + 1
    BY <1>2, <1>4, <2>1, <2>2, <2>3, <2>5
  <2>9. /\ e # Form /\ e \in Editors \cup {Form}
        /\ UNCHANGED <<edit, known, tries, shown, phase, lock, repository>>
        /\ \A q \in Editors \ {e} :
            pc'[q] = pc[q] /\ reply'[q] = reply[q] /\ written'[q] = written[q]
    BY <1>2, <1>4, <2>5, WritersAssumption DEF migration
  <2> QED BY <2>3, <2>4, <2>6, <2>7, <2>8, <2>9, MemoryWrites
<1> QED BY <1>3, <1>4 DEF MemoryPut

LEMMA MemoryUpsertKeeps ==
    ASSUME MemoryInv, NEW s \in Servers, NEW o \in Orgs, MemoryUpsert(s, o)
    PROVE  MemoryInv'
<1>1. TypeOK /\ CopyLags /\ UNCHANGED <<applied, puts, phase, lock, faults, repository>>
  BY DEF MemoryInv, MemoryUpsert
<1>2. PICK outcome \in {"inserted", "unchanged", "updated"} :
        /\ Ends(s, o, outcome)
        /\ \/ history[o] = <<>> /\ MemoryInsert(o)
           \/ UNCHANGED <<history, cached, pending>>
           \/ history[o] # <<>> /\ MemoryUpdate(o, Top, Form, "none")
  BY DEF MemoryUpsert
<1>3. UpsertAt(outcome) \in Upserts /\ UpsertAt(outcome).at = outcome
  BY DEF UpsertAt, Upserts, UpsertEnds
<1>4. upsert' = [upsert EXCEPT ![s] = [upsert[s] EXCEPT ![o] = UpsertAt(outcome)]]
  BY <1>2 DEF Ends, Moves
<1>5. /\ upsert' \in [Servers -> [Orgs -> Upserts]]
      /\ \A t \in Servers, q \in Orgs :
          upsert'[t][q] = upsert[t][q] \/ upsert'[t][q] = UpsertAt(outcome)
  BY <1>1, <1>3, <1>4 DEF TypeOK
<1>6. NothingIsHalfDone'
  BY <1>1, <1>3, <1>5 DEF MemoryInv, NothingIsHalfDone, puts
<1>7. Form \notin Editors /\ Form \in Editors \cup {Form} /\ Top \in Parts
  BY WritersAssumption DEF Parts
<1>8. CASE UNCHANGED <<history, cached, pending>>
  <2>1. TypeOK'
    BY <1>1, <1>5, <1>8 DEF TypeOK, puts
  <2>2. CopyLags' /\ OneMigrationAtATime'
    BY <1>1, <1>8 DEF MemoryInv, CopyLags, OneMigrationAtATime, Migrating
  <2> QED BY <1>1, <1>6, <1>8, <2>1, <2>2, MemoryQuiet DEF puts
<1>9. CASE history[o] = <<>> /\ MemoryInsert(o)
  <2>1. Commit(o, InsertedDoc) /\ cached' = [cached EXCEPT ![o] = 1] /\ pending' = pending
    BY <1>9 DEF MemoryInsert
  <2>2. InsertedDoc \in Docs /\ InsertedDoc.version = 1 /\ InsertedDoc.content[Top] = Form
        /\ Len(history[o]) = 0
    BY <1>7, <1>9, InsertedIsDoc DEF InsertedDoc, FormContent
  <2>3. /\ history' \in [Orgs -> Seq(Docs)] /\ Len(history'[o]) = 1
        /\ \A q \in Orgs : q # o => history'[q] = history[q]
    <3>1. /\ history' \in [Orgs -> Seq(Docs)] /\ Len(history'[o]) = Len(history[o]) + 1
          /\ \A q \in Orgs : q # o => history'[q] = history[q]
      <4>1. PICK doc \in Docs : Commit(o, doc)
        BY <2>1, <2>2
      <4>2. history \in [Orgs -> Seq(Docs)]
        BY <1>1 DEF TypeOK
      <4> QED BY <4>1, <4>2, CommitAppends
    <3> QED BY <2>2, <3>1
  <2>4. TypeOK'
    BY <1>1, <1>5, <2>3 DEF TypeOK, puts
  <2>5. CopyLags'
    <3>1. cached'[o] = 1 /\ \A q \in Orgs : q # o => cached'[q] = cached[q]
      BY <1>1, <2>1 DEF CopyLags
    <3>2. cached' \in [Orgs -> Nat]
      BY <1>1, <2>1 DEF CopyLags
    <3>3. \A q \in Orgs : cached[q] <= Len(history[q])
      BY <1>1 DEF CopyLags
    <3>4. pending' \in BOOLEAN
      BY <1>1, <2>1 DEF CopyLags
    <3>5. \A q \in Orgs : cached'[q] <= Len(history'[q])
      <4> SUFFICES ASSUME NEW q \in Orgs PROVE cached'[q] <= Len(history'[q])
        OBVIOUS
      <4>1. cached'[o] = 1 /\ Len(history'[o]) = 1
        BY <2>3, <3>1, Zenon
      <4>2. cached'[o] <= Len(history'[o])
        BY <4>1
      <4>3. q # o => cached'[q] = cached[q] /\ history'[q] = history[q]
        BY <2>3, <3>1, Zenon
      <4>4. cached[q] <= Len(history[q])
        BY <3>3
      <4> QED BY <4>2, <4>3, <4>4
    <3>6. ~pending' => \A q \in Orgs : cached[q] = Len(history[q])
      BY <1>1, <2>1, Zenon DEF CopyLags
    <3>7. ~pending' => \A q \in Orgs : cached'[q] = Len(history'[q])
      <4> SUFFICES ASSUME \A q \in Orgs : cached[q] = Len(history[q])
                   PROVE  \A q \in Orgs : cached'[q] = Len(history'[q])
        BY <3>6, Zenon
      <4> SUFFICES ASSUME NEW q \in Orgs PROVE cached'[q] = Len(history'[q])
        OBVIOUS
      <4>1. CASE q = o
        BY <2>3, <3>1, <4>1
      <4>2. CASE q # o
        BY <2>3, <3>1, <4>2
      <4> QED BY <4>1, <4>2
    <3> QED BY <3>2, <3>4, <3>5, <3>7, Zenon DEF CopyLags
  <2>6. InsertedDoc.version = Len(history[o]) + 1 /\ UNCHANGED <<edit, known, tries, shown, phase, lock, repository, pc, reply, written>>
    BY <1>1, <2>2 DEF puts
  <2> QED BY <1>6, <1>7, <1>9, <2>1, <2>2, <2>4, <2>5, <2>6, MemoryWrites
<1>10. CASE history[o] # <<>> /\ MemoryUpdate(o, Top, Form, "none")
  <2>1. /\ history' \in [Orgs -> Seq(Docs)]
        /\ CopyLags'
    BY <1>7, <1>10, MemoryUpdateStores
  <2>2. PICK doc \in Docs :
               /\ Commit(o, doc)
               /\ doc.version = Len(history[o]) + 1
               /\ doc.content[Top] = Form
               /\ \A q \in Parts \ {Top} : doc.content[q] = Latest(o).content[q]
               /\ \A q \in Parts : IsPrefix(Latest(o).statuses[q], doc.statuses[q])
    BY <1>7, <1>10, MemoryUpdateStores
  <2>3. TypeOK'
    BY <1>1, <1>5, <2>1 DEF TypeOK, puts
  <2>4. UNCHANGED <<edit, known, tries, shown, phase, lock, repository, pc, reply, written>>
    BY <1>1 DEF puts
  <2> QED BY <1>6, <1>7, <2>1, <2>2, <2>3, <2>4, MemoryWrites
<1> QED BY <1>2, <1>8, <1>9, <1>10

\* The retries outlast the lag: when the second try comes the copy is up to date.
LEMMA MemoryConfirmKeeps ==
    ASSUME MemoryInv, NEW e \in Editors, MemoryConfirm(e)
    PROVE  MemoryInv'
<1> SUFFICES ASSUME NEW o, o = OrgOf(e) PROVE MemoryInv'
  OBVIOUS
<1>1. /\ TypeOK /\ o \in Orgs /\ EditOk(e) /\ Len(history[o]) \in Nat
      /\ cached[o] \in 0..Len(history[o])
  BY MemoryFacts
<1>2. /\ pc[e] = "confirm" /\ written[e] > 0 /\ tries[e] < MaxRetries /\ reply[e] = 0
      /\ UNCHANGED <<storage, edit, known, base, written, migration, faults, memory>>
      /\ OrgOf(e)' = o
  BY <1>1 DEF MemoryConfirm, EditOk, OrgOf
<1>3. /\ StoredEditsStay /\ VersionsArePlaces /\ PutsInOrder /\ CopyLags
      /\ written[e] = known[e] + 1 /\ written[e] \in 1..Len(history[o]) /\ tries[e] \in Nat
  <2>1. written[e] <= Len(history[o]) /\ written[e] \in Nat
    BY <1>1 DEF EditOk, TypeOK
  <2> QED BY <1>1, <1>2, <2>1 DEF MemoryInv, StoredEditsStay, TypeOK
<1>4. CopyLags' /\ OneMigrationAtATime'
  BY <1>2 DEF MemoryInv, CopyLags, OneMigrationAtATime, Migrating, migration, storage, memory
<1>5. VersionsArePlaces' /\ StatusHistoryOnlyGrows'
  BY <1>2 DEF MemoryInv, VersionsArePlaces, StatusHistoryOnlyGrows, storage
<1>6. \A q \in Orgs : Len(history[q]) <= Len(history'[q]) /\ Len(history'[q]) \in Nat
  BY <1>1, <1>2 DEF TypeOK, storage
<1>7. CASE /\ RecentEnough(o, cached[o], known[e] + 1)
           /\ shown' = [shown EXCEPT ![e] = cached[o]] /\ Answer(e, 200) /\ UNCHANGED tries
  <2>1. /\ pc' = [pc EXCEPT ![e] = "done"] /\ reply' = [reply EXCEPT ![e] = 200]
        /\ cached[o] \in Nat
    BY <1>1, <1>7 DEF Answer
  <2>2. /\ pc'[e] = "done" /\ reply'[e] = 200 /\ shown'[e] = cached[o]
        /\ \A q \in Editors \ {e} :
            pc'[q] = pc[q] /\ reply'[q] = reply[q] /\ shown'[q] = shown[q]
    BY <1>1, <1>7, <2>1 DEF TypeOK
  <2>3. TypeOK'
    BY <1>1, <1>2, <1>7, <2>1 DEF TypeOK, PCs, storage, migration
  <2>4. NothingIsHalfDone'
    <3>1. \A q \in Editors : pc'[q] # "write"
      BY <2>2 DEF MemoryInv, NothingIsHalfDone
    <3> QED BY <1>2, <3>1 DEF MemoryInv, NothingIsHalfDone, migration
  <2>5. cached[o] \in written[e]..Len(history[o])
    <3>1. cached[o] \in 1..Len(history[o]) /\ history[o][cached[o]].version >= known[e] + 1
      BY <1>1, <1>7 DEF RecentEnough
    <3>2. history[o][cached[o]].version = cached[o]
      BY <1>1, <1>3, <3>1 DEF VersionsArePlaces
    <3> QED BY <1>1, <1>3, <3>1, <3>2
  <2>6. EditOk(e)'
    BY <1>1, <1>2, <1>3, <2>2 DEF EditOk, storage
  <2>7. PutsInOrder'
    BY <1>1, <1>2, <1>3, <1>6, <1>7, <2>2, <2>6, PutsStay
  <2>8. StoredEditsStay'
    <3>1. \A q \in Editors : \A i : HasTheEdit(q, i)' <=> HasTheEdit(q, i)
      BY <1>2 DEF HasTheEdit, OrgOf, storage
    <3> SUFFICES ASSUME NEW q \in Editors
                 PROVE  /\ written[q] > 0 =>
                            /\ written[q] = known[q] + 1
                            /\ \A i \in written[q]..Len(history[OrgOf(q)]) : HasTheEdit(q, i)'
                        /\ reply'[q] = 200 =>
                            written[q] > 0 /\ shown'[q] \in written[q]..Len(history[OrgOf(q)])
      BY <1>2 DEF StoredEditsStay, OrgOf, storage
    <3>2. CASE q = e
      BY <1>2, <1>3, <2>2, <2>5, <3>1, <3>2 DEF StoredEditsStay
    <3>3. CASE q # e
      BY <1>3, <2>2, <3>1, <3>3 DEF StoredEditsStay
    <3> QED BY <3>2, <3>3
  <2>9. StoredPutsAreConfirmed => StoredPutsAreConfirmed'
    <3>1. cached[o] >= written[e]
      BY <1>3, <2>5
    <3> QED BY <1>2, <2>2, <3>1 DEF StoredPutsAreConfirmed, memory
  <2> QED BY <1>4, <1>5, <2>3, <2>4, <2>7, <2>8, <2>9 DEF MemoryInv
<1>8. ASSUME NEW code \in {404, 500}, ~RecentEnough(o, cached[o], known[e] + 1),
             UNCHANGED shown, tries' = [tries EXCEPT ![e] = tries[e] + 1],
             \/ tries[e] + 1 < MaxRetries /\ UNCHANGED <<pc, reply>>
             \/ ~(tries[e] + 1 < MaxRetries) /\ Answer(e, code)
      PROVE  MemoryInv'
  <2>1. tries[e] + 1 \in 0..MaxRetries
    BY <1>2, <1>3, RetriesAssumption
  <2>2. /\ tries'[e] = tries[e] + 1
        /\ tries' \in [Editors -> 0..MaxRetries]
        /\ \A q \in Editors \ {e} : tries'[q] = tries[q]
    BY <1>1, <1>8, <2>1 DEF TypeOK
  <2>3. \/ tries[e] + 1 < MaxRetries /\ pc' = pc /\ reply' = reply
        \/ /\ ~(tries[e] + 1 < MaxRetries)
           /\ pc' = [pc EXCEPT ![e] = "done"] /\ reply' = [reply EXCEPT ![e] = code]
    BY <1>8 DEF Answer
  <2>4. /\ pc' \in [Editors -> PCs] /\ reply' \in [Editors -> {-1, 0, 200, 404, 409, 500}]
        /\ \A q \in Editors \ {e} : pc'[q] = pc[q] /\ reply'[q] = reply[q]
        /\ reply'[e] # 200 /\ pc'[e] # "write"
        /\ \/ tries'[e] < MaxRetries /\ pc'[e] = "confirm" /\ reply'[e] = 0
           \/ ~(tries'[e] < MaxRetries) /\ pc'[e] = "done"
    <3>1. CASE tries[e] + 1 < MaxRetries /\ pc' = pc /\ reply' = reply
      BY <1>1, <1>2, <2>2, <3>1 DEF TypeOK
    <3>2. CASE /\ ~(tries[e] + 1 < MaxRetries)
               /\ pc' = [pc EXCEPT ![e] = "done"] /\ reply' = [reply EXCEPT ![e] = code]
      BY <1>1, <2>2, <3>2 DEF TypeOK, PCs
    <3> QED BY <2>3, <3>1, <3>2
  <2>5. TypeOK'
    BY <1>1, <1>2, <1>8, <2>2, <2>4 DEF TypeOK, storage, migration
  <2>6. NothingIsHalfDone'
    <3>1. \A q \in Editors : pc'[q] # "write"
      BY <2>4 DEF MemoryInv, NothingIsHalfDone
    <3> QED BY <1>2, <3>1 DEF MemoryInv, NothingIsHalfDone, migration
  <2>7. EditOk(e)'
    BY <1>1, <1>2, <1>3, <2>4 DEF EditOk, storage
  <2>8. PutsInOrder'
    BY <1>1, <1>2, <1>3, <1>6, <2>2, <2>4, <2>7, PutsStay
  <2>9. StoredEditsStay'
    <3>1. \A q \in Editors : reply'[q] = 200 => reply[q] = 200 /\ shown'[q] = shown[q]
      BY <1>8, <2>4
    <3> QED BY <1>1, <1>2, <1>3, <2>5, <3>1, QuietKeepsEdits DEF storage
  <2>10. MaxRetries > 1 => StoredPutsAreConfirmed'
    <3> SUFFICES ASSUME MaxRetries > 1 PROVE StoredPutsAreConfirmed'
      OBVIOUS
    <3>1. reply'[e] = 0
      <4>1. CASE tries[e] = 0
        BY <2>2, <2>4, <4>1, RetriesAssumption
      <4>2. CASE tries[e] > 0
        <5>1. cached[o] = Len(history[o])
          BY <1>1, <1>3, <4>2 DEF CopyLags, MemoryConfirm
        <5>2. cached[o] > 0 /\ history[o][cached[o]].version = cached[o]
          BY <1>1, <1>3, <5>1 DEF VersionsArePlaces
        <5>3. RecentEnough(o, cached[o], known[e] + 1)
          BY <1>1, <1>3, <5>1, <5>2 DEF RecentEnough
        <5> QED BY <1>8, <5>3
      <4> QED BY <1>3, <4>1, <4>2
    <3>2. StoredPutsAreConfirmed
      BY DEF MemoryInv
    <3> QED BY <1>2, <1>8, <2>4, <3>1, <3>2 DEF StoredPutsAreConfirmed, memory
  <2> QED BY <1>4, <1>5, <2>5, <2>6, <2>8, <2>9, <2>10 DEF MemoryInv
<1>9. \/ /\ RecentEnough(o, cached[o], known[e] + 1)
         /\ shown' = [shown EXCEPT ![e] = cached[o]] /\ Answer(e, 200) /\ UNCHANGED tries
      \/ \E code \in {404, 500} :
         /\ ~RecentEnough(o, cached[o], known[e] + 1)
         /\ UNCHANGED shown /\ tries' = [tries EXCEPT ![e] = tries[e] + 1]
         /\ \/ tries[e] + 1 < MaxRetries /\ UNCHANGED <<pc, reply>>
            \/ ~(tries[e] + 1 < MaxRetries) /\ Answer(e, code)
  BY DEF MemoryConfirm
<1> QED BY <1>7, <1>8, <1>9

LEMMA SyncKeeps ==
    ASSUME MemoryInv, Sync
    PROVE  MemoryInv'
<1>1. /\ TypeOK /\ cached' = [o \in Orgs |-> Len(history[o])] /\ pending' = FALSE
      /\ UNCHANGED <<storage, puts, migration, faults, repository>>
  BY DEF MemoryInv, Sync
<1>2. TypeOK'
  BY <1>1 DEF TypeOK, storage, puts, migration
<1>3. CopyLags'
  <2>1. \A o \in Orgs : cached'[o] = Len(history'[o]) /\ Len(history'[o]) \in Nat
    BY <1>1 DEF TypeOK, storage
  <2>2. \A o \in Orgs : Len(history[o]) \in Nat
    BY <1>1 DEF TypeOK
  <2>3. cached' \in [Orgs -> Nat]
    BY <1>1, <2>2
  <2>4. pending' \in BOOLEAN
    BY <1>1
  <2>5. \A o \in Orgs : cached'[o] <= Len(history'[o])
    BY <2>1
  <2> QED BY <2>1, <2>3, <2>4, <2>5, Zenon DEF CopyLags
<1>4. NothingIsHalfDone' /\ OneMigrationAtATime'
  BY <1>1 DEF MemoryInv, NothingIsHalfDone, OneMigrationAtATime, Migrating, puts, migration
<1> QED BY <1>1, <1>2, <1>3, <1>4, MemoryQuiet DEF storage, puts

\* What start-up does around its upserts: neither document nor PUT changes.
LEMMA AroundFacts ==
    ASSUME TypeOK, OneMigrationAtATime, NEW s \in Servers, Around(s)
    PROVE  /\ UNCHANGED <<storage, puts>>
           /\ TypeOK' /\ OneMigrationAtATime'
           /\ \A t \in Servers, o \in Orgs :
               upsert'[t][o] = upsert[t][o]
                 \/ upsert'[t][o].at \in {"notListed", "transformFailed", "find"}
<1>1. UNCHANGED <<storage, puts>>
  BY DEF Around, Lock, ListSubmissions, UpsertsEnd, Free
<1>2. CASE Lock(s)
  <2>1. /\ UNCHANGED <<upsert, faults>>
        /\ \/ lock = Nobody /\ lock' = s /\ phase' = [phase EXCEPT ![s] = "list"]
           \/ lock' = lock /\ phase' = [phase EXCEPT ![s] = "done"]
    BY <1>2 DEF Lock, Goto
  <2>2. TypeOK'
    <3>1. phase' \in [Servers -> Phases]
      <4>1. phase \in [Servers -> Phases] /\ "list" \in Phases /\ "done" \in Phases
        BY DEF TypeOK, Phases
      <4>2. [phase EXCEPT ![s] = "list"] \in [Servers -> Phases]
        BY <4>1
      <4>3. [phase EXCEPT ![s] = "done"] \in [Servers -> Phases]
        BY <4>1
      <4> QED BY <2>1, <4>2, <4>3, Zenon
    <3>2. lock' \in Servers \cup {Nobody}
      BY <2>1 DEF TypeOK
    <3> QED BY <1>1, <2>1, <3>1, <3>2 DEF TypeOK, storage, puts
  <2>3. OneMigrationAtATime'
    <3>1. CASE lock = Nobody /\ lock' = s /\ phase' = [phase EXCEPT ![s] = "list"]
      <4>1. \A t \in Servers : ~Migrating(t)
        BY <3>1, WritersAssumption DEF OneMigrationAtATime
      <4> QED BY <3>1, <4>1 DEF OneMigrationAtATime, Migrating, TypeOK
    <3>2. CASE lock' = lock /\ phase' = [phase EXCEPT ![s] = "done"]
      BY <3>2 DEF OneMigrationAtATime, Migrating, TypeOK
    <3> QED BY <2>1, <3>1, <3>2
  <2> QED BY <1>1, <2>1, <2>2, <2>3
<1>3. CASE ListSubmissions(s)
  <2>1. PICK listed \in SUBSET Orgs :
          upsert' = [upsert EXCEPT ![s] = [o \in Orgs |->
              UpsertAt(IF o \notin listed THEN "notListed"
                       ELSE IF o \in Malformed THEN "transformFailed" ELSE "find")]]
    BY <1>3 DEF ListSubmissions
  <2>2. phase[s] = "list" /\ phase' = [phase EXCEPT ![s] = "upserts"] /\ UNCHANGED <<lock, faults>>
    BY <1>3 DEF ListSubmissions, Goto
  <2>3. \A o \in Orgs : /\ upsert'[s][o] \in Upserts
                        /\ upsert'[s][o].at \in {"notListed", "transformFailed", "find"}
    BY <2>1 DEF TypeOK, UpsertAt, Upserts, UpsertEnds, UpsertSteps
  <2>4. \A t \in Servers \ {s} : upsert'[t] = upsert[t]
    BY <2>1 DEF TypeOK
  <2>5. upsert' \in [Servers -> [Orgs -> Upserts]]
    BY <2>1, <2>3 DEF TypeOK
  <2>6. TypeOK'
    BY <1>1, <2>2, <2>5 DEF TypeOK, Phases, storage, puts
  <2>7. OneMigrationAtATime'
    BY <2>2 DEF OneMigrationAtATime, Migrating, TypeOK
  <2> QED BY <1>1, <2>3, <2>4, <2>6, <2>7
<1>4. CASE UpsertsEnd(s)
  <2>1. phase[s] = "upserts" /\ phase' = [phase EXCEPT ![s] = "free"] /\ UNCHANGED <<upsert, lock, faults>>
    BY <1>4 DEF UpsertsEnd, Goto
  <2>2. TypeOK'
    BY <1>1, <2>1 DEF TypeOK, Phases, storage, puts
  <2>3. OneMigrationAtATime'
    BY <2>1 DEF OneMigrationAtATime, Migrating, TypeOK
  <2> QED BY <1>1, <2>1, <2>2, <2>3
<1>5. CASE Free(s)
  <2>1. /\ phase[s] = "free" /\ phase' = [phase EXCEPT ![s] = "done"] /\ UNCHANGED upsert
        /\ lock' \in {lock, Nobody} /\ faults' \in {faults, faults + 1}
    BY <1>5 DEF Free, Goto, Fail
  <2>2. faults' \in Nat /\ lock' \in Servers \cup {Nobody}
    BY <2>1 DEF TypeOK
  <2>3. TypeOK'
    BY <1>1, <2>1, <2>2 DEF TypeOK, Phases, storage, puts
  <2>4. lock = s /\ \A t \in Servers \ {s} : ~Migrating(t)
    BY <2>1 DEF OneMigrationAtATime, Migrating
  <2>5. OneMigrationAtATime'
    BY <2>1, <2>4 DEF OneMigrationAtATime, Migrating, TypeOK
  <2> QED BY <1>1, <2>1, <2>3, <2>5
<1> QED BY <1>2, <1>3, <1>4, <1>5 DEF Around

LEMMA AroundKeeps ==
    ASSUME MemoryInv, NEW s \in Servers, Around(s), UNCHANGED memory
    PROVE  MemoryInv'
<1>1. TypeOK /\ OneMigrationAtATime
  BY DEF MemoryInv
<1>2. /\ UNCHANGED <<storage, puts>> /\ TypeOK' /\ OneMigrationAtATime'
      /\ \A t \in Servers, o \in Orgs :
          upsert'[t][o] = upsert[t][o]
            \/ upsert'[t][o].at \in {"notListed", "transformFailed", "find"}
  BY <1>1, AroundFacts
<1>3. NothingIsHalfDone'
  BY <1>2 DEF MemoryInv, NothingIsHalfDone, puts
<1>4. CopyLags'
  BY <1>2 DEF MemoryInv, CopyLags, storage, memory
<1> QED BY <1>2, <1>3, <1>4, MemoryQuiet DEF storage, puts, memory
--------------------------------------------------------------------------------
(* Theorems *)

LEMMA InitiallyEitherInv == EitherInit => EitherInv
<1> SUFFICES ASSUME EitherInit PROVE EitherInv
  OBVIOUS
<1>1. IInv /\ Init
  BY InitiallyIInv DEF EitherInit
<1>2. TypeOK /\ PutsInOrder /\ OneMigrationAtATime
  BY <1>1 DEF IInv
<1>3. \A o \in Orgs : history[o] = <<>> /\ Len(history[o]) = 0 /\ cached[o] = 0
  <2>1. \A o \in Orgs : history[o] = <<>>
    BY <1>1 DEF Init
  <2>2. \A o \in Orgs : cached[o] = 0
    BY DEF EitherInit
  <2>3. Len(<<>>) = 0
    OBVIOUS
  <2> QED BY <2>1, <2>2, <2>3, Zenon
<1>4. \A e \in Editors : OrgOf(e) \in Orgs /\ written[e] = 0 /\ reply[e] = 0 /\ pc[e] = "get"
  BY <1>1, <1>2 DEF Init, TypeOK, OrgOf, Edits
<1>5. CopyLags
  <2>1. cached \in [Orgs -> Nat]
    BY DEF EitherInit
  <2>2. pending \in BOOLEAN
    BY DEF EitherInit
  <2>3. \A o \in Orgs : cached[o] <= Len(history[o]) /\ cached[o] = Len(history[o])
    <3> SUFFICES ASSUME NEW o \in Orgs
                 PROVE  cached[o] <= Len(history[o]) /\ cached[o] = Len(history[o])
      OBVIOUS
    <3>1. cached[o] = 0 /\ Len(history[o]) = 0
      BY <1>3, Zenon
    <3> QED BY <3>1
  <2> QED BY <2>1, <2>2, <2>3, Zenon DEF CopyLags
<1>6. NothingIsHalfDone
  BY <1>1, <1>4 DEF NothingIsHalfDone, Init, UpsertAt
<1>7. VersionsArePlaces /\ StatusHistoryOnlyGrows /\ StoredEditsStay /\ StoredPutsAreConfirmed
  BY <1>3, <1>4 DEF VersionsArePlaces, StatusHistoryOnlyGrows, StoredEditsStay, StoredPutsAreConfirmed
<1> QED BY <1>1, <1>2, <1>5, <1>6, <1>7 DEF EitherInv, MemoryInv, EitherInit

LEMMA EitherNextKeeps == EitherInv /\ [EitherNext]_<<vars, memory>> => EitherInv'
<1> SUFFICES ASSUME EitherInv, [EitherNext]_<<vars, memory>> PROVE EitherInv'
  OBVIOUS
<1>1. CASE UNCHANGED <<vars, memory>>
  <2>1. CASE repository = "inmemory"
    <3>1. MemoryInv /\ UNCHANGED <<storage, puts, migration, repository>>
      BY <1>1, <2>1 DEF EitherInv, vars, memory, storage, puts, migration
    <3>2. TypeOK'
      BY <1>1 DEF EitherInv, MemoryInv, IInv, TypeOK, vars
    <3>3. CopyLags' /\ NothingIsHalfDone' /\ OneMigrationAtATime'
      BY <1>1, <3>1 DEF MemoryInv, CopyLags, NothingIsHalfDone, OneMigrationAtATime, Migrating,
         vars, memory
    <3>4. MemoryInv'
      BY <1>1, <3>1, <3>2, <3>3, MemoryQuiet DEF storage, puts
    <3> QED BY <2>1, <3>1, <3>4 DEF EitherInv
  <2>2. CASE repository # "inmemory"
    <3>1. IInv /\ [Next]_vars /\ repository' = repository
      BY <1>1, <2>2 DEF EitherInv, memory
    <3> QED BY <2>2, <3>1, NextKeeps DEF EitherInv
  <2> QED BY <2>1, <2>2
<1>2. CASE EitherNext /\ repository = "mongodb"
  <2>1. Next /\ UNCHANGED memory
    BY <1>2 DEF EitherNext, OnMongo, InMemory, Next, Put, Migrate, Upsert
  <2>2. IInv /\ repository' = repository
    BY <1>2, <2>1 DEF EitherInv, memory
  <2>3. IInv'
    BY <2>1, <2>2, NextKeeps
  <2> QED BY <1>2, <2>2, <2>3 DEF EitherInv
<1>3. CASE EitherNext /\ repository = "inmemory"
  <2>1. MemoryInv
    BY <1>3 DEF EitherInv
  <2>2. \/ \E e \in Editors : MemoryGetById(e) \/ MemoryPut(e) \/ MemoryConfirm(e)
        \/ \E s \in Servers : Around(s) /\ UNCHANGED memory
        \/ \E s \in Servers, o \in Orgs : MemoryUpsert(s, o)
        \/ Sync
    BY <1>3 DEF EitherNext, OnMongo, InMemory
  <2>3. MemoryInv'
    BY <2>1, <2>2, MemoryGetByIdKeeps, MemoryPutKeeps, MemoryConfirmKeeps, AroundKeeps,
       MemoryUpsertKeeps, SyncKeeps
  <2>4. repository' = repository
    BY <2>2 DEF MemoryGetById, MemoryPut, MemoryConfirm, MemoryUpsert, Sync, memory
  <2> QED BY <1>3, <2>3, <2>4 DEF EitherInv
<1>4. repository \in {"mongodb", "inmemory"}
  BY RepositoriesAssumption DEF EitherInv
<1> QED BY <1>1, <1>2, <1>3, <1>4

\* Over either implementation of the repository the service keeps its invariant.
THEOREM EitherInductiveInvariant == EitherSpec => []EitherInv
<1> QED BY InitiallyEitherInv, EitherNextKeeps, PTL DEF EitherSpec

\* Over the in-memory repository a PUT whose update was stored is answered 200 with
\* a document that has it, if the service tries a read more than once: the callback
\* that refreshes the copy runs before the timer of the second try.
THEOREM StoredPutsConfirmed ==
    ASSUME MaxRetries > 1 PROVE EitherSpec => []StoredPutsAreConfirmed
<1>1. EitherInv => StoredPutsAreConfirmed
  BY DEF EitherInv, MemoryInv, StoredPutsAreConfirmed
<1> QED BY <1>1, EitherInductiveInvariant, PTL

\* The answer to a PUT shows its change over either implementation, and over the
\* in-memory one however many nodes the other would read.
THEOREM EitherAnswersShowEdits ==
    ASSUME OneNode \/ Repositories = {"inmemory"}
    PROVE  EitherSpec => []AnswerShowsTheEdit
<1>1. EitherInv => TypeOK /\ StoredEditsStay
  BY DEF EitherInv, MemoryInv, IInv
<1>2. TypeOK /\ StoredEditsStay => AnswerShowsTheEdit
  BY StoredEditsShow
<1> QED BY <1>1, <1>2, EitherInductiveInvariant, PTL
--------------------------------------------------------------------------------
(* Refinement: update() and upsert() are atomic steps, whatever the copy lags *)

LEMMA MemoryPutRefines ==
    ASSUME MemoryInv, NEW e \in Editors, MemoryPut(e)
    PROVE  Store!Apply(e) \/ Store!Refuse(e)
<1>1. /\ TypeOK /\ OrgOf(e) \in Orgs /\ UNCHANGED edit /\ pc[e] = "find"
      /\ written[e] = 0 /\ reply[e] = 0
  BY MemoryFacts DEF MemoryPut, EditOk
<1>2. CASE (Answer(e, 404) \/ Answer(e, 409)) /\ UNCHANGED <<history, written, cached, pending>>
  <2>1. reply'[e] \in {404, 409} /\ \A q \in Editors \ {e} : reply'[q] = reply[q]
    BY <1>1, <1>2 DEF Answer, TypeOK
  <2> QED BY <1>1, <1>2, <2>1, RefusalRefines
<1>3. CASE /\ history[OrgOf(e)] # <<>> /\ VersionMatches(OrgOf(e), known[e])
           /\ MemoryUpdate(OrgOf(e), edit[e].part, e, edit[e].status)
           /\ written' = [written EXCEPT ![e] = Len(history[OrgOf(e)]) + 1]
           /\ pc' = [pc EXCEPT ![e] = "confirm"]
           /\ UNCHANGED reply
  <2>1. PICK o \in Orgs : o = OrgOf(e)
    BY <1>1
  <2>2. /\ history[o] # <<>>
        /\ Commit(o, Merged(Latest(o), edit[e].part, e, edit[e].status))
        /\ written' = [written EXCEPT ![e] = Len(history[o]) + 1]
    BY <1>3, <2>1 DEF MemoryUpdate
  <2> QED BY <1>1, <1>3, <2>1, <2>2, StoredUpdateRefines
<1> QED BY <1>2, <1>3 DEF MemoryPut

LEMMA MemoryUpsertRefines ==
    ASSUME MemoryInv, NEW s \in Servers, NEW o \in Orgs, MemoryUpsert(s, o)
    PROVE  Store!Create(o) \/ Store!Resubmit(o) \/ UNCHANGED Store!register
<1>1. TypeOK /\ UNCHANGED <<edit, written, reply>>
  BY DEF MemoryInv, MemoryUpsert, puts
<1>2. \/ UNCHANGED history
      \/ history[o] = <<>> /\ Commit(o, InsertedDoc)
      \/ history[o] # <<>> /\ Commit(o, Merged(Latest(o), Top, Form, "none"))
  BY DEF MemoryUpsert, MemoryInsert, MemoryUpdate
<1>3. CASE UNCHANGED history
  BY <1>1, <1>3, QuietRefines
<1> QED BY <1>1, <1>2, <1>3, StoredFormRefines

LEMMA MemoryNextRefines ==
    ASSUME EitherInv, repository = "inmemory", EitherNext
    PROVE  Store!Next \/ UNCHANGED Store!register
<1>1. MemoryInv
  BY DEF EitherInv
<1>2. \/ \E e \in Editors : MemoryGetById(e) \/ MemoryPut(e) \/ MemoryConfirm(e)
      \/ \E s \in Servers : Around(s) /\ UNCHANGED memory
      \/ \E s \in Servers, o \in Orgs : MemoryUpsert(s, o)
      \/ Sync
  BY DEF EitherNext, OnMongo, InMemory
<1>3. ASSUME NEW e \in Editors, MemoryGetById(e) PROVE UNCHANGED Store!register
  <2>1. UNCHANGED <<history, written, edit, reply>>
    BY <1>3 DEF MemoryGetById, storage
  <2> QED BY <2>1, QuietRefines
<1>4. ASSUME NEW e \in Editors, MemoryPut(e) PROVE Store!Next
  <2>1. Store!Apply(e) \/ Store!Refuse(e)
    BY <1>1, <1>4, MemoryPutRefines
  <2> QED BY <2>1 DEF Store!Next
<1>5. ASSUME NEW e \in Editors, MemoryConfirm(e) PROVE UNCHANGED Store!register
  <2>1. UNCHANGED <<history, written, edit>> /\ pc[e] = "confirm"
    BY <1>5 DEF MemoryConfirm, storage
  <2>2. written[e] > 0 /\ TypeOK
    BY <1>1, <2>1 DEF MemoryInv, PutsInOrder
  <2>3. \A q \in Editors : q # e => reply'[q] = reply[q]
    BY <1>5, <2>2 DEF MemoryConfirm, Answer, TypeOK
  <2> QED BY <2>1, <2>2, <2>3, QuietRefines
<1>6. ASSUME NEW s \in Servers, Around(s) PROVE UNCHANGED Store!register
  <2>1. UNCHANGED <<storage, puts>>
    BY <1>6 DEF Around, Lock, ListSubmissions, UpsertsEnd, Free
  <2> QED BY <2>1, QuietRefines DEF storage, puts
<1>7. ASSUME NEW s \in Servers, NEW o \in Orgs, MemoryUpsert(s, o)
      PROVE  Store!Next \/ UNCHANGED Store!register
  <2>1. Store!Create(o) \/ Store!Resubmit(o) \/ UNCHANGED Store!register
    BY <1>1, <1>7, MemoryUpsertRefines
  <2> QED BY <2>1 DEF Store!Next
<1>8. ASSUME Sync PROVE UNCHANGED Store!register
  <2>1. UNCHANGED <<storage, puts>>
    BY <1>8 DEF Sync
  <2> QED BY <2>1, QuietRefines DEF storage, puts
<1> QED BY <1>2, <1>3, <1>4, <1>5, <1>6, <1>7, <1>8

\* Either implementation is a register for its callers: the in-memory one because it
\* never waits between a check and the write after it, the MongoDB one by its filter.
THEOREM EitherRefinement ==
    ASSUME OneNode \/ Repositories = {"inmemory"}
    PROVE  EitherSpec => ImplementsStore
<1>1. EitherInit => Store!Init
  BY InitRefines DEF EitherInit
<1>2. EitherInv /\ EitherInv' /\ [EitherNext]_<<vars, memory>> => [Store!Next]_Store!register
  <2> SUFFICES ASSUME EitherInv, EitherInv', [EitherNext]_<<vars, memory>>
               PROVE  Store!Next \/ UNCHANGED Store!register
    OBVIOUS
  <2>1. CASE UNCHANGED <<vars, memory>>
    BY <2>1, QuietRefines DEF vars
  <2>2. CASE EitherNext /\ repository = "inmemory"
    BY <2>2, MemoryNextRefines
  <2>3. CASE EitherNext /\ repository = "mongodb"
    <3>1. Next /\ UNCHANGED memory
      BY <2>3 DEF EitherNext, OnMongo, InMemory, Next, Put, Migrate, Upsert
    <3>2. OneNode /\ IInv /\ IInv'
      BY <2>3, <3>1 DEF EitherInv, memory
    <3> QED BY <3>1, <3>2, NextRefines
  <2>4. repository \in {"mongodb", "inmemory"}
    BY RepositoriesAssumption DEF EitherInv
  <2> QED BY <2>1, <2>2, <2>3, <2>4
<1> QED BY <1>1, <1>2, EitherInductiveInvariant, PTL DEF EitherSpec, ImplementsStore, Store!Spec
================================================================================
