--------------------------- MODULE LeadStoreProofs ---------------------------
(***************************************************************************)
(* Proofs about LeadStore.  Only the search that holds the lock on the     *)
(* tenant's row has rows of its own or works on records it has checked, so *)
(* what it sees, the committed rows and its own, keeps each company and    *)
(* contact once, and leads go on naming the same rows when others commit.  *)
(* That a record was not suppressed when its search began is carried by    *)
(* the types of the records kept and of the rows made from them.           *)
(***************************************************************************)
EXTENDS LeadStore, FiniteSetTheorems, SequenceTheorems, TLAPS

\* Records none of whose subjects is in b, and the rows made of them by a search
\* that began when b was suppressed.
Clean(b) == {r \in ProviderRecords : Candidates(r, r.contact) \cap b = {}}

CompanyRow(r, b) ==
  [name |-> r.name, domain |-> normalize_domain(r.domain), given |-> r.domain, after |-> b]

ContactRow(r, b, c) ==
  [company |-> c, person |-> r.contact.person, email |-> r.contact.email,
   title |-> r.contact.title, after |-> b]

CompanyRows == UNION {{CompanyRow(r, b) : r \in Clean(b)} : b \in SUBSET Subjects}

ContactRows ==
  UNION {{ContactRow(r, b, c) : r \in {q \in Clean(b) : q.contact # NoValue}, c \in Nat} :
           b \in SUBSET Subjects}

Lead(r, c, k) == [record |-> r, company |-> c, contact |-> k]

LeadRows == UNION {{Lead(r, c, k) : c \in Nat, k \in Nat} : r \in ProviderRecords}

Typed ==
  /\ pc \in [Searches -> {"idle", "answered", "failed"} \union Active]
  /\ lock \in Searches \union {NoSearch}
  /\ suppressions \subseteq Subjects
  /\ before \in [Searches -> SUBSET Subjects]
  /\ found \in [Searches -> Seq(ProviderRecords)]
  /\ kept \in [Searches -> Seq(ProviderRecords)]
  /\ newCompanies \in [Searches -> Seq(CompanyRows)]
  /\ newContacts \in [Searches -> Seq(ContactRows)]
  /\ leads \in [Searches -> Seq(LeadRows)]
  /\ companies \in Seq(CompanyRows) /\ contacts \in Seq(ContactRows)

\* What is kept was checked against more than what was suppressed before.
Checked ==
  \A s \in Searches : before[s] \subseteq suppressions /\ kept[s] \in Seq(Clean(before[s]))

\* Only the search with the lock filters and stores, and only a search that
\* stores has rows of its own.
Locked ==
  \A s \in Searches :
    /\ pc[s] \in {"idle", "lock"} => kept[s] = <<>>
    /\ pc[s] \in {"filter", "store"} => lock = s
    /\ pc[s] # "store" => newCompanies[s] = <<>> /\ newContacts[s] = <<>>
    /\ pc[s] \notin {"store", "answered"} => leads[s] = <<>>

\* Rows of companies and contacts that go together, each stored once.
RowsOK(cs, ks) ==
  /\ \A i \in DOMAIN ks : ks[i].company \in DOMAIN cs
  /\ \A i, j \in DOMAIN cs : cs[i].domain = cs[j].domain /\ cs[i].domain # NoValue => i = j
  /\ \A i, j \in DOMAIN ks : ks[i].company = ks[j].company /\ ks[i].title = ks[j].title => i = j

\* A lead and the rows it is answered from.
LeadOK(l, cs, ks) ==
  /\ l.company \in DOMAIN cs
  /\ l.contact \in DOMAIN ks \union {0}
  /\ cs[l.company].domain = normalize_domain(l.record.domain)
  /\ (l.contact = 0) <=> (l.record.contact = NoValue)
  /\ l.contact # 0 =>
       /\ ks[l.contact].company = l.company
       /\ ks[l.contact].title = l.record.contact.title

StoredOK == RowsOK(companies, contacts) /\ \A s \in Searches : RowsOK(Companies(s), Contacts(s))

LeadsOK == \A s \in Searches : \A i \in DOMAIN leads[s] : LeadOK(leads[s][i], Companies(s), Contacts(s))

IInv == Typed /\ Checked /\ Locked /\ StoredOK /\ LeadsOK

\* One sequence of rows goes on another.
Extends(S, a, b) == a \in Seq(S) /\ b \in Seq(S) /\ Len(a) <= Len(b) /\ \A i \in 1 .. Len(a) : b[i] = a[i]
----------------------------------------------------------------------------
(* Sequences of rows *)

\* Rows keep their place in a longer list.
LEMMA ExtendsKeeps ==
  ASSUME NEW S, NEW a, NEW b, Extends(S, a, b)
  PROVE  /\ DOMAIN a = 1 .. Len(a) /\ DOMAIN b = 1 .. Len(b)
         /\ DOMAIN a \subseteq DOMAIN b /\ \A i \in DOMAIN a : b[i] = a[i]
<1>1. Len(a) \in Nat /\ Len(b) \in Nat /\ DOMAIN a = 1 .. Len(a) /\ DOMAIN b = 1 .. Len(b)
  BY LenProperties DEF Extends
<1>2. 1 .. Len(a) \subseteq 1 .. Len(b)
  BY <1>1 DEF Extends
<1> QED BY <1>1, <1>2 DEF Extends

\* A list is the beginning of the list with a row appended.
LEMMA AppendExtends ==
  ASSUME NEW S, NEW a \in Seq(S), NEW e \in S
  PROVE  /\ Extends(S, a, Append(a, e)) /\ Len(a) \in Nat
         /\ DOMAIN Append(a, e) = DOMAIN a \union {Len(a) + 1} /\ Len(a) + 1 \notin DOMAIN a
         /\ Append(a, e)[Len(a) + 1] = e
<1>1. /\ Append(a, e) \in Seq(S) /\ Len(Append(a, e)) = Len(a) + 1 /\ Len(a) \in Nat
      /\ \A i \in 1 .. Len(a) : Append(a, e)[i] = a[i]
      /\ Append(a, e)[Len(a) + 1] = e
      /\ DOMAIN a = 1 .. Len(a) /\ DOMAIN Append(a, e) = 1 .. Len(a) + 1
  BY AppendProperties, LenProperties
<1>2. 1 .. Len(a) + 1 = 1 .. Len(a) \union {Len(a) + 1} /\ Len(a) + 1 \notin 1 .. Len(a)
  BY <1>1
<1> QED BY <1>1, <1>2 DEF Extends

\* A row appended to those of a transaction is appended to what it sees.
LEMMA AppendSeen ==
  ASSUME NEW S, NEW a \in Seq(S), NEW b \in Seq(S), NEW e \in S
  PROVE  a \o Append(b, e) = Append(a \o b, e) /\ a \o b \in Seq(S)
<1>1. <<e>> \in Seq(S)
  OBVIOUS
<1>2. Append(b, e) = b \o <<e>>
  BY AppendIsConcat
<1>3. a \o b \in Seq(S)
  BY ConcatProperties
<1>4. Append(a \o b, e) = (a \o b) \o <<e>>
  BY <1>3, AppendIsConcat
<1>5. (a \o b) \o <<e>> = a \o (b \o <<e>>)
  BY <1>1, ConcatAssociative
<1> QED BY <1>2, <1>3, <1>4, <1>5

\* A list is the beginning of itself.
LEMMA ReflexiveExtends ==
  ASSUME NEW S, NEW a \in Seq(S)
  PROVE  Extends(S, a, a)
  BY LenProperties DEF Extends

\* What is committed is the beginning of what a search sees.
LEMMA SeenExtends ==
  ASSUME NEW S, NEW a \in Seq(S), NEW b \in Seq(S)
  PROVE  Extends(S, a, a \o b) /\ a \o <<>> = a
<1>1. /\ a \o b \in Seq(S) /\ Len(a \o b) = Len(a) + Len(b) /\ Len(a) \in Nat /\ Len(b) \in Nat
      /\ \A i \in 1 .. Len(a) + Len(b) : (a \o b)[i] = IF i <= Len(a) THEN a[i] ELSE b[i - Len(a)]
  BY ConcatProperties, LenProperties
<1>2. \A i \in 1 .. Len(a) : i \in 1 .. Len(a) + Len(b) /\ i <= Len(a)
  BY <1>1
<1>3. a \o <<>> = a
  BY ConcatEmptySeq
<1> QED BY <1>1, <1>2, <1>3 DEF Extends

\* A lead goes on naming its rows when rows are added.
LEMMA LeadStays ==
  ASSUME NEW l, NEW cs, NEW ks, NEW cs2, NEW ks2, LeadOK(l, cs, ks),
         Extends(CompanyRows, cs, cs2), Extends(ContactRows, ks, ks2)
  PROVE  LeadOK(l, cs2, ks2)
<1>1. /\ DOMAIN cs \subseteq DOMAIN cs2 /\ \A i \in DOMAIN cs : cs2[i] = cs[i]
      /\ DOMAIN ks \subseteq DOMAIN ks2 /\ \A i \in DOMAIN ks : ks2[i] = ks[i]
  BY ExtendsKeeps
<1> QED BY <1>1 DEF LeadOK
----------------------------------------------------------------------------
(* The steps *)

\* What a search sees is made of committed rows and its own.
LEMMA Seen ==
  ASSUME Typed, NEW s \in Searches
  PROVE  /\ Companies(s) \in Seq(CompanyRows) /\ Contacts(s) \in Seq(ContactRows)
         /\ Extends(CompanyRows, companies, Companies(s)) /\ Extends(ContactRows, contacts, Contacts(s))
         /\ newCompanies[s] = <<>> => Companies(s) = companies
         /\ newContacts[s] = <<>> => Contacts(s) = contacts
<1>1. /\ newCompanies[s] \in Seq(CompanyRows) /\ newContacts[s] \in Seq(ContactRows)
      /\ companies \in Seq(CompanyRows) /\ contacts \in Seq(ContactRows)
  BY DEF Typed
<1>2. Companies(s) \in Seq(CompanyRows) /\ Contacts(s) \in Seq(ContactRows)
  BY <1>1, ConcatProperties DEF Companies, Contacts
<1>3. /\ Extends(CompanyRows, companies, Companies(s)) /\ companies \o <<>> = companies
      /\ Extends(ContactRows, contacts, Contacts(s)) /\ contacts \o <<>> = contacts
  BY <1>1, SeenExtends DEF Companies, Contacts
<1> QED BY <1>2, <1>3 DEF Companies, Contacts

\* The initial state: nothing is stored.
LEMMA InitInv == Init => IInv
<1> SUFFICES ASSUME Init PROVE IInv
  OBVIOUS
<1>1. Typed
  BY DEF Init, Typed
<1>2. Checked /\ Locked
  BY DEF Init, Checked, Locked
<1>3. \A s \in Searches : Companies(s) = <<>> /\ Contacts(s) = <<>>
  BY <1>1, Seen DEF Init
<1>4. StoredOK
  BY <1>3 DEF Init, StoredOK, RowsOK
<1>5. LeadsOK
  BY DEF Init, LeadsOK
<1> QED BY <1>1, <1>2, <1>4, <1>5 DEF IInv

\* A step that changes no row and no lead keeps both in order.
LEMMA RowsKept ==
  ASSUME IInv, UNCHANGED <<open, rows>>
  PROVE  StoredOK' /\ LeadsOK'
<1>1. \A s \in Searches : Companies(s)' = Companies(s) /\ Contacts(s)' = Contacts(s)
  BY DEF open, rows, Companies, Contacts
<1> QED BY <1>1 DEF IInv, StoredOK, LeadsOK, open, rows

\* The provider answers, and the search takes the lock.
LEMMA BeginStep ==
  ASSUME IInv, NEW s \in Searches, ProviderAnswers(s) \/ LockTenant(s)
  PROVE  IInv'
<1>0. Typed /\ Checked /\ Locked
  BY DEF IInv
<1>1. StoredOK' /\ LeadsOK'
  BY RowsKept DEF ProviderAnswers, LockTenant
<1>2. CASE ProviderAnswers(s)
  <2>1. /\ pc[s] = "idle" /\ pc' = [pc EXCEPT ![s] = "lock"]
        /\ before' = [before EXCEPT ![s] = suppressions]
        /\ UNCHANGED <<kept, open, lock, rows, suppressions>>
    BY <1>2 DEF ProviderAnswers, Goto
  <2>2. PICK n \in 0 .. MaxRecords, answer \in UNION {[1 .. m -> ProviderRecords] : m \in Nat} :
          found' = [found EXCEPT ![s] = answer]
    <3>1. PICK n \in 0 .. MaxRecords : \E answer \in [1 .. n -> ProviderRecords] :
            found' = [found EXCEPT ![s] = answer]
      BY <1>2 DEF ProviderAnswers
    <3>2. n \in Nat
      BY LeadStoreAssumption
    <3> QED BY <3>1, <3>2
  <2>3. answer \in Seq(ProviderRecords)
    BY SeqDef
  <2>4. Typed'
    BY <1>0, <2>1, <2>2, <2>3 DEF Typed, open, rows, Active
  <2>5. Checked'
    <3>1. kept[s] = <<>> /\ <<>> \in Seq(Clean(suppressions))
      BY <1>0, <2>1 DEF Locked
    <3> QED BY <1>0, <2>1, <3>1 DEF Checked, Typed
  <2>6. Locked'
    BY <1>0, <2>1 DEF Locked, Typed, open
  <2> QED BY <1>1, <2>4, <2>5, <2>6 DEF IInv
<1>3. CASE LockTenant(s)
  <2>1. /\ lock = NoSearch /\ lock' = s /\ pc[s] = "lock" /\ pc' = [pc EXCEPT ![s] = "filter"]
        /\ UNCHANGED <<before, found, kept, open, rows, suppressions>>
    BY <1>3 DEF LockTenant, Goto
  <2>2. Typed' /\ Checked'
    BY <1>0, <2>1 DEF Typed, Checked, open, rows, Active
  <2>3. \A v \in Searches : pc[v] \notin {"filter", "store"}
    BY <1>0, <2>1, LeadStoreAssumption DEF Locked
  <2>4. Locked'
    BY <1>0, <2>1, <2>3 DEF Locked, Typed, open
  <2> QED BY <1>1, <2>2, <2>4 DEF IInv
<1> QED BY <1>2, <1>3

\* A permutation of some of the records selects records.
LEMMA Selected ==
  ASSUME NEW S, NEW records \in Seq(S), NEW order \in SetToAllKPermutations(DOMAIN records)
  PROVE  [i \in DOMAIN order |-> records[order[i]]] \in Seq(S)
<1>1. PICK T \in SUBSET DOMAIN records : order \in SetToSeqs(T)
  BY DEF SetToAllKPermutations
<1>2. DOMAIN records = 1 .. Len(records) /\ Len(records) \in Nat
  BY LenProperties
<1>3. IsFiniteSet(T)
  <2>1. IsFiniteSet(1 .. Len(records))
    BY <1>2, FS_Interval
  <2> QED BY <1>1, <1>2, <2>1, FS_Subset
<1>4. Cardinality(T) \in Nat
  BY <1>3, FS_CardinalityType
<1>5. order \in [1 .. Cardinality(T) -> T]
  BY <1>1 DEF SetToSeqs
<1>6. \A i \in 1 .. Cardinality(T) : records[order[i]] \in S
  BY <1>1, <1>2, <1>5, ElementOfSeq
<1> QED BY <1>4, <1>5, <1>6

\* The records are checked, and some of them selected.
LEMMA FilterStep ==
  ASSUME IInv, NEW s \in Searches, CheckRecord(s) \/ SelectLeads(s)
  PROVE  IInv'
<1>0. Typed /\ Checked /\ Locked
  BY DEF IInv
<1>1. StoredOK' /\ LeadsOK'
  BY RowsKept DEF CheckRecord, SelectLeads
<1>2. ASSUME NEW records, records \in Seq(Clean(before[s])),
             kept' = [kept EXCEPT ![s] = records],
             NEW rest \in Seq(ProviderRecords), found' = [found EXCEPT ![s] = rest],
             pc[s] = "filter",
             NEW to \in {"filter", "store"}, pc' = [pc EXCEPT ![s] = to],
             UNCHANGED <<before, open, lock, rows, suppressions>>
      PROVE  IInv'
  <2>1. records \in Seq(ProviderRecords)
    <3>1. Clean(before[s]) \subseteq ProviderRecords
      BY DEF Clean
    <3> QED BY <1>2, <3>1, SeqMonotonic
  <2>2. Typed'
    BY <1>0, <1>2, <2>1 DEF Typed, open, rows, Active
  <2>3. Checked'
    BY <1>0, <1>2 DEF Checked, Typed
  <2>4. Locked'
    BY <1>0, <1>2 DEF Locked, Typed, open
  <2> QED BY <1>1, <2>2, <2>3, <2>4 DEF IInv
<1>3. kept[s] \in Seq(Clean(before[s])) /\ found[s] \in Seq(ProviderRecords) /\ before[s] \subseteq suppressions
  BY <1>0 DEF Checked, Typed
<1>4. CASE CheckRecord(s)
  <2>1. Tail(found[s]) \in Seq(ProviderRecords) /\ Head(found[s]) \in ProviderRecords
    BY <1>3, <1>4, HeadTailProperties DEF CheckRecord
  <2>2. /\ pc[s] = "filter" /\ pc' = [pc EXCEPT ![s] = "filter"]
        /\ found' = [found EXCEPT ![s] = Tail(found[s])]
        /\ UNCHANGED <<before, open, lock, rows, suppressions>>
    BY <1>0, <1>4 DEF CheckRecord, Typed
  <2>3. CASE IsSuppressed(Head(found[s]))
    <3>1. kept' = [kept EXCEPT ![s] = kept[s]]
      BY <1>0, <1>4, <2>3 DEF CheckRecord, Typed
    <3> QED BY <1>2, <1>3, <2>1, <2>2, <3>1
  <2>4. CASE ~IsSuppressed(Head(found[s]))
    <3>1. kept' = [kept EXCEPT ![s] = Append(kept[s], Head(found[s]))]
      BY <1>0, <1>4, <2>4 DEF CheckRecord, Typed
    <3>2. Head(found[s]) \in Clean(before[s])
      BY <1>3, <2>1, <2>4 DEF IsSuppressed, Clean
    <3>3. Append(kept[s], Head(found[s])) \in Seq(Clean(before[s]))
      BY <1>3, <3>2, AppendProperties
    <3> QED BY <1>2, <2>1, <2>2, <3>1, <3>3
  <2> QED BY <2>3, <2>4
<1>5. CASE SelectLeads(s)
  <2>1. PICK order \in SetToAllKPermutations(DOMAIN kept[s]) :
          kept' = [kept EXCEPT ![s] = [i \in DOMAIN order |-> kept[s][order[i]]]]
    BY <1>5 DEF SelectLeads
  <2>2. [i \in DOMAIN order |-> kept[s][order[i]]] \in Seq(Clean(before[s]))
    BY <1>3, Selected
  <2>3. /\ pc[s] = "filter" /\ pc' = [pc EXCEPT ![s] = "store"]
        /\ found' = [found EXCEPT ![s] = found[s]]
        /\ UNCHANGED <<before, open, lock, rows, suppressions>>
    BY <1>0, <1>5 DEF SelectLeads, Goto, Typed
  <2> QED BY <1>2, <1>3, <2>1, <2>2, <2>3
<1> QED BY <1>4, <1>5

\* The company of a lead: one with the record's domain, or a new row.
LEMMA CompanyMade ==
  ASSUME IInv, NEW s \in Searches, NEW r \in Clean(before[s]),
         NEW c \in 1 .. Len(Companies(s)) + 1, GetOrCreateCompany(s, r, c), UNCHANGED companies
  PROVE  /\ newCompanies' \in [Searches -> Seq(CompanyRows)]
         /\ \A v \in Searches \ {s} : newCompanies'[v] = newCompanies[v]
         /\ Extends(CompanyRows, Companies(s), Companies(s)')
         /\ c \in DOMAIN Companies(s)' /\ Companies(s)'[c].domain = normalize_domain(r.domain)
         /\ \A i, j \in DOMAIN Companies(s)' :
              Companies(s)'[i].domain = Companies(s)'[j].domain /\ Companies(s)'[i].domain # NoValue
                => i = j
<1>0. /\ Typed /\ RowsOK(Companies(s), Contacts(s))
      /\ companies \in Seq(CompanyRows) /\ newCompanies[s] \in Seq(CompanyRows)
      /\ Companies(s) \in Seq(CompanyRows)
  BY Seen DEF IInv, StoredOK, Typed
<1>1. CASE c \in FindCompany(s, r) /\ UNCHANGED newCompanies
  <2>1. Companies(s)' = Companies(s)
    BY <1>1 DEF Companies
  <2>2. Extends(CompanyRows, Companies(s), Companies(s)')
    BY <1>0, <2>1, ReflexiveExtends
  <2> QED BY <1>0, <1>1, <2>1, <2>2 DEF FindCompany, RowsOK, Typed
<1>2. CASE /\ FindCompany(s, r) = {} /\ c = Len(Companies(s)) + 1
           /\ newCompanies' = [newCompanies EXCEPT ![s] = Append(newCompanies[s], CompanyRow(r, before[s]))]
  <2> DEFINE row == CompanyRow(r, before[s])
             cs == Companies(s)
  <2>1. row \in CompanyRows /\ row.domain = normalize_domain(r.domain)
    <3>1. before[s] \in SUBSET Subjects
      BY <1>0 DEF Typed
    <3>2. row \in {CompanyRow(q, before[s]) : q \in Clean(before[s])}
      OBVIOUS
    <3>3. row \in CompanyRows
      BY <3>1, <3>2 DEF CompanyRows
    <3>4. row.domain = normalize_domain(r.domain)
      BY DEF CompanyRow
    <3> QED BY <3>3, <3>4
  <2> HIDE DEF row
  <2>2. Append(newCompanies[s], row) \in Seq(CompanyRows)
    BY <1>0, <2>1, AppendProperties
  <2>3. newCompanies'[s] = Append(newCompanies[s], row)
    BY <1>0, <1>2 DEF Typed, row
  <2>4. Companies(s)' = Append(cs, row)
    BY <1>0, <2>1, <2>3, AppendSeen DEF Companies
  <2> HIDE DEF cs
  <2>5. /\ Extends(CompanyRows, cs, Append(cs, row)) /\ c \notin DOMAIN cs
        /\ DOMAIN Append(cs, row) = DOMAIN cs \union {c} /\ Append(cs, row)[c] = row
    BY <1>0, <1>2, <2>1, AppendExtends DEF cs
  <2>6. \A i \in DOMAIN cs : Append(cs, row)[i] = cs[i]
    BY <2>5, ExtendsKeeps
  <2>7. r.domain # NoValue => \A i \in DOMAIN cs : cs[i].domain # row.domain
    BY <1>2, <2>1 DEF FindCompany, cs
  <2>8. r.domain = NoValue => row.domain = NoValue
    BY <2>1 DEF normalize_domain
  <2>9. ASSUME NEW i \in DOMAIN Append(cs, row), NEW j \in DOMAIN Append(cs, row),
               Append(cs, row)[i].domain = Append(cs, row)[j].domain,
               Append(cs, row)[i].domain # NoValue
        PROVE  i = j
    BY <1>0, <2>5, <2>6, <2>7, <2>8, <2>9 DEF RowsOK, cs
  <2>10. newCompanies' \in [Searches -> Seq(CompanyRows)]
    BY <1>0, <1>2, <2>2 DEF Typed, row
  <2>11. \A v \in Searches \ {s} : newCompanies'[v] = newCompanies[v]
    BY <1>0, <1>2 DEF Typed
  <2> QED BY <2>1, <2>4, <2>5, <2>9, <2>10, <2>11 DEF cs
<1> QED BY <1>0, <1>1, <1>2 DEF GetOrCreateCompany, CompanyRow, Typed

\* Its contact: none, one of that company with the record's job title, or a new
\* row.
LEMMA ContactMade ==
  ASSUME IInv, NEW s \in Searches, NEW r \in Clean(before[s]), NEW c \in Nat,
         NEW k \in 0 .. Len(Contacts(s)) + 1, GetOrCreateContact(s, r, c, k), UNCHANGED contacts
  PROVE  /\ newContacts' \in [Searches -> Seq(ContactRows)]
         /\ \A v \in Searches \ {s} : newContacts'[v] = newContacts[v]
         /\ Extends(ContactRows, Contacts(s), Contacts(s)')
         /\ k \in DOMAIN Contacts(s)' \union {0} /\ ((k = 0) <=> (r.contact = NoValue))
         /\ k # 0 => Contacts(s)'[k].company = c /\ Contacts(s)'[k].title = r.contact.title
         /\ \A i \in DOMAIN Contacts(s)' : i \in DOMAIN Contacts(s) \/ Contacts(s)'[i].company = c
         /\ \A i, j \in DOMAIN Contacts(s)' :
              /\ Contacts(s)'[i].company = Contacts(s)'[j].company
              /\ Contacts(s)'[i].title = Contacts(s)'[j].title
              => i = j
<1>0. /\ Typed /\ RowsOK(Companies(s), Contacts(s))
      /\ contacts \in Seq(ContactRows) /\ newContacts[s] \in Seq(ContactRows)
      /\ Contacts(s) \in Seq(ContactRows)
  BY Seen DEF IInv, StoredOK, Typed
<1>1. DOMAIN Contacts(s) = 1 .. Len(Contacts(s)) /\ Len(Contacts(s)) \in Nat
  BY <1>0, LenProperties
<1>2. CASE \/ r.contact = NoValue /\ k = 0 /\ UNCHANGED newContacts
           \/ r.contact # NoValue /\ k \in FindContact(s, r, c) /\ UNCHANGED newContacts
  <2>1. Contacts(s)' = Contacts(s) /\ UNCHANGED newContacts
    BY <1>2 DEF Contacts
  <2>2. Extends(ContactRows, Contacts(s), Contacts(s)')
    BY <1>0, <2>1, ReflexiveExtends
  <2>3. k \in DOMAIN Contacts(s) \union {0} /\ ((k = 0) <=> (r.contact = NoValue))
    BY <1>1, <1>2 DEF FindContact
  <2>4. k # 0 => Contacts(s)[k].company = c /\ Contacts(s)[k].title = r.contact.title
    BY <1>2 DEF FindContact
  <2> QED BY <1>0, <2>1, <2>2, <2>3, <2>4 DEF RowsOK, Typed
<1>3. CASE /\ r.contact # NoValue /\ FindContact(s, r, c) = {} /\ k = Len(Contacts(s)) + 1
           /\ newContacts' = [newContacts EXCEPT ![s] = Append(newContacts[s], ContactRow(r, before[s], c))]
  <2> DEFINE row == ContactRow(r, before[s], c)
             ks == Contacts(s)
  <2>1. row \in ContactRows /\ row.company = c /\ row.title = r.contact.title
    <3>1. before[s] \in SUBSET Subjects
      BY <1>0 DEF Typed
    <3>2. r \in {q \in Clean(before[s]) : q.contact # NoValue}
      BY <1>3
    <3>3. row \in {ContactRow(q, before[s], d) :
                    q \in {p \in Clean(before[s]) : p.contact # NoValue}, d \in Nat}
      BY <3>2
    <3>4. row \in ContactRows
      BY <3>1, <3>3 DEF ContactRows
    <3>5. row.company = c /\ row.title = r.contact.title
      BY DEF ContactRow
    <3> QED BY <3>4, <3>5
  <2> HIDE DEF row
  <2>2. Append(newContacts[s], row) \in Seq(ContactRows)
    BY <1>0, <2>1, AppendProperties
  <2>3. newContacts'[s] = Append(newContacts[s], row)
    BY <1>0, <1>3 DEF Typed, row
  <2>4. Contacts(s)' = Append(ks, row)
    BY <1>0, <2>1, <2>3, AppendSeen DEF Contacts
  <2> HIDE DEF ks
  <2>5. /\ Extends(ContactRows, ks, Append(ks, row)) /\ k \notin DOMAIN ks
        /\ DOMAIN Append(ks, row) = DOMAIN ks \union {k} /\ Append(ks, row)[k] = row
    BY <1>0, <1>3, <2>1, AppendExtends DEF ks
  <2>6. \A i \in DOMAIN ks : Append(ks, row)[i] = ks[i]
    BY <2>5, ExtendsKeeps
  <2>7. \A i \in DOMAIN ks : ~(ks[i].company = c /\ ks[i].title = r.contact.title)
    BY <1>3 DEF FindContact, ks
  <2>8. ASSUME NEW i \in DOMAIN Append(ks, row), NEW j \in DOMAIN Append(ks, row),
               Append(ks, row)[i].company = Append(ks, row)[j].company,
               Append(ks, row)[i].title = Append(ks, row)[j].title
        PROVE  i = j
    BY <1>0, <2>1, <2>5, <2>6, <2>7, <2>8 DEF RowsOK, ks
  <2>9. newContacts' \in [Searches -> Seq(ContactRows)]
    BY <1>0, <1>3, <2>2 DEF Typed, row
  <2>10. \A v \in Searches \ {s} : newContacts'[v] = newContacts[v]
    BY <1>0, <1>3 DEF Typed
  <2>11. k # 0
    BY <1>1, <1>3
  <2>12. Extends(ContactRows, Contacts(s), Contacts(s)')
    BY <2>4, <2>5 DEF ks
  <2>13. \A i \in DOMAIN Contacts(s)' : i \in DOMAIN Contacts(s) \/ Contacts(s)'[i].company = c
    BY <2>1, <2>4, <2>5 DEF ks
  <2>14. \A i, j \in DOMAIN Contacts(s)' :
           /\ Contacts(s)'[i].company = Contacts(s)'[j].company
           /\ Contacts(s)'[i].title = Contacts(s)'[j].title
           => i = j
    BY <2>4, <2>8
  <2> QED BY <1>3, <2>1, <2>4, <2>5, <2>9, <2>10, <2>11, <2>12, <2>13, <2>14
<1> QED BY <1>0, <1>2, <1>3 DEF GetOrCreateContact, ContactRow, Typed

\* One record is stored and answered.
LEMMA StoreStep ==
  ASSUME IInv, NEW s \in Searches, StoreLead(s)
  PROVE  IInv'
<1> DEFINE r == Head(kept[s])
<1>0. Typed /\ Checked /\ Locked /\ StoredOK /\ LeadsOK
  BY DEF IInv
<1>1. /\ kept' = [kept EXCEPT ![s] = Tail(kept[s])] /\ kept[s] # <<>> /\ pc[s] = "store"
      /\ UNCHANGED <<pc, before, found, lock, companies, contacts, suppressions>>
  BY <1>0 DEF StoreLead, Typed, rows
<1>2. /\ r \in Clean(before[s]) /\ Tail(kept[s]) \in Seq(Clean(before[s]))
      /\ Clean(before[s]) \subseteq ProviderRecords
  BY <1>0, <1>1, HeadTailProperties DEF Checked, Clean
<1>3. Tail(kept[s]) \in Seq(ProviderRecords)
  BY <1>2, SeqMonotonic
<1>4. PICK c \in 1 .. Len(Companies(s)) + 1, k \in 0 .. Len(Contacts(s)) + 1 :
        /\ GetOrCreateCompany(s, r, c) /\ GetOrCreateContact(s, r, c, k)
        /\ leads' = [leads EXCEPT ![s] = Append(leads[s], Lead(r, c, k))]
  BY <1>0 DEF StoreLead, Lead, Typed
<1>5. c \in Nat /\ k \in Nat
  <2>1. Len(Companies(s)) \in Nat /\ Len(Contacts(s)) \in Nat
    BY <1>0, Seen, LenProperties
  <2> QED BY <1>4, <2>1
<1> HIDE DEF r
<1>6. /\ newCompanies' \in [Searches -> Seq(CompanyRows)]
      /\ \A v \in Searches \ {s} : newCompanies'[v] = newCompanies[v]
      /\ Extends(CompanyRows, Companies(s), Companies(s)')
      /\ c \in DOMAIN Companies(s)' /\ Companies(s)'[c].domain = normalize_domain(r.domain)
      /\ \A i, j \in DOMAIN Companies(s)' :
           Companies(s)'[i].domain = Companies(s)'[j].domain /\ Companies(s)'[i].domain # NoValue
             => i = j
  BY <1>1, <1>2, <1>4, CompanyMade
<1>7. /\ newContacts' \in [Searches -> Seq(ContactRows)]
      /\ \A v \in Searches \ {s} : newContacts'[v] = newContacts[v]
      /\ Extends(ContactRows, Contacts(s), Contacts(s)')
      /\ k \in DOMAIN Contacts(s)' \union {0} /\ ((k = 0) <=> (r.contact = NoValue))
      /\ k # 0 => Contacts(s)'[k].company = c /\ Contacts(s)'[k].title = r.contact.title
      /\ \A i \in DOMAIN Contacts(s)' : i \in DOMAIN Contacts(s) \/ Contacts(s)'[i].company = c
      /\ \A i, j \in DOMAIN Contacts(s)' :
           /\ Contacts(s)'[i].company = Contacts(s)'[j].company
           /\ Contacts(s)'[i].title = Contacts(s)'[j].title
           => i = j
  BY <1>1, <1>2, <1>4, <1>5, ContactMade
<1>8. Lead(r, c, k) \in LeadRows /\ leads[s] \in Seq(LeadRows)
  <2>1. r \in ProviderRecords
    BY <1>2
  <2>2. Lead(r, c, k) \in {Lead(r, d, m) : d \in Nat, m \in Nat}
    BY <1>5
  <2>3. Lead(r, c, k) \in LeadRows
    BY <2>1, <2>2 DEF LeadRows
  <2> QED BY <1>0, <2>3 DEF Typed
<1>9. Append(leads[s], Lead(r, c, k)) \in Seq(LeadRows)
  BY <1>8, AppendProperties
<1>10. Typed'
  BY <1>0, <1>1, <1>3, <1>4, <1>6, <1>7, <1>9 DEF Typed
<1>11. Checked'
  BY <1>0, <1>1, <1>2 DEF Checked, Typed
<1>12. Locked'
  BY <1>0, <1>1, <1>4, <1>6, <1>7 DEF Locked, Typed
<1>13. \A v \in Searches \ {s} : Companies(v)' = Companies(v) /\ Contacts(v)' = Contacts(v)
  BY <1>1, <1>6, <1>7 DEF Companies, Contacts
<1>14. RowsOK(Companies(s)', Contacts(s)')
  <2>1. ASSUME NEW i \in DOMAIN Contacts(s)' PROVE Contacts(s)'[i].company \in DOMAIN Companies(s)'
    <3>1. CASE i \in DOMAIN Contacts(s)
      <4>1. Contacts(s)'[i] = Contacts(s)[i] /\ Contacts(s)[i].company \in DOMAIN Companies(s)
        BY <1>0, <1>7, <3>1, ExtendsKeeps DEF StoredOK, RowsOK
      <4> QED BY <1>6, <4>1, ExtendsKeeps
    <3>2. CASE Contacts(s)'[i].company = c
      BY <1>6, <3>2
    <3> QED BY <1>7, <3>1, <3>2
  <2> QED BY <1>6, <1>7, <2>1 DEF RowsOK
<1>15. StoredOK'
  BY <1>0, <1>1, <1>13, <1>14 DEF StoredOK
<1>16. LeadsOK'
  <2>1. ASSUME NEW i \in DOMAIN leads[s]' PROVE LeadOK(leads[s]'[i], Companies(s)', Contacts(s)')
    <3>1. leads[s]' = Append(leads[s], Lead(r, c, k))
      BY <1>0, <1>4 DEF Typed
    <3>2. CASE i \in DOMAIN leads[s]
      <4>1. leads[s]'[i] = leads[s][i]
        BY <1>8, <3>1, <3>2, AppendExtends, ExtendsKeeps
      <4>2. LeadOK(leads[s][i], Companies(s), Contacts(s))
        BY <1>0, <3>2 DEF LeadsOK
      <4> QED BY <1>6, <1>7, <4>1, <4>2, LeadStays
    <3>3. CASE i = Len(leads[s]) + 1
      <4>1. leads[s]'[i] = Lead(r, c, k)
        BY <1>8, <3>1, <3>3, AppendExtends
      <4>2. Lead(r, c, k).record = r /\ Lead(r, c, k).company = c /\ Lead(r, c, k).contact = k
        BY DEF Lead
      <4> QED BY <1>6, <1>7, <4>1, <4>2 DEF LeadOK
    <3> QED BY <1>8, <2>1, <3>1, <3>2, <3>3, AppendExtends
  <2>2. ASSUME NEW v \in Searches \ {s} PROVE leads[v]' = leads[v]
    BY <1>0, <1>4 DEF Typed
  <2> QED BY <1>0, <1>13, <2>1, <2>2 DEF LeadsOK
<1> QED BY <1>10, <1>11, <1>12, <1>15, <1>16 DEF IInv

\* The transaction commits what it saw: what others see begins with it.
LEMMA CommitStep ==
  ASSUME IInv, NEW s \in Searches, Commit(s)
  PROVE  IInv'
<1>0. Typed /\ Checked /\ Locked /\ StoredOK /\ LeadsOK
  BY DEF IInv
<1>1. /\ pc[s] = "store" /\ pc' = [pc EXCEPT ![s] = "answered"]
      /\ companies' = Companies(s) /\ contacts' = Contacts(s)
      /\ newCompanies' = [newCompanies EXCEPT ![s] = <<>>]
      /\ newContacts' = [newContacts EXCEPT ![s] = <<>>]
      /\ lock' = IF lock = s THEN NoSearch ELSE lock
      /\ UNCHANGED <<before, found, kept, leads, suppressions>>
  BY DEF Commit, Goto, Release
<1>2. /\ Companies(s) \in Seq(CompanyRows) /\ Contacts(s) \in Seq(ContactRows)
      /\ Extends(CompanyRows, companies, companies') /\ Extends(ContactRows, contacts, contacts')
  BY <1>0, <1>1, Seen
<1>3. Typed'
  BY <1>0, <1>1, <1>2 DEF Typed, Active
<1>4. Checked'
  BY <1>0, <1>1 DEF Checked
<1>5. \A v \in Searches \ {s} : pc[v] \notin {"filter", "store"} /\ lock = s
  BY <1>0, <1>1 DEF Locked
<1>6. Locked'
  BY <1>0, <1>1, <1>5 DEF Locked, Typed
<1>7. ASSUME NEW v \in Searches
      PROVE  /\ Companies(v)' = Companies(s) /\ Contacts(v)' = Contacts(s)
             /\ Extends(CompanyRows, Companies(v), Companies(v)')
             /\ Extends(ContactRows, Contacts(v), Contacts(v)')
  <2>1. newCompanies'[v] = <<>> /\ newContacts'[v] = <<>>
    BY <1>0, <1>1, <1>5 DEF Typed, Locked
  <2>2. Companies(v)' = Companies(s) /\ Contacts(v)' = Contacts(s)
    BY <1>1, <1>2, <2>1, ConcatEmptySeq DEF Companies, Contacts
  <2>3. CASE v = s
    BY <1>2, <2>2, <2>3, ReflexiveExtends
  <2>4. CASE v # s
    <3>1. Companies(v) = companies /\ Contacts(v) = contacts
      BY <1>0, <1>5, <2>4, Seen DEF Locked
    <3> QED BY <1>1, <1>2, <2>2, <3>1
  <2> QED BY <2>2, <2>3, <2>4
<1>8. StoredOK'
  BY <1>0, <1>1, <1>7 DEF StoredOK
<1>9. LeadsOK'
  BY <1>0, <1>1, <1>7, LeadStays DEF LeadsOK
<1> QED BY <1>3, <1>4, <1>6, <1>8, <1>9 DEF IInv

\* The transaction is rolled back: what it saw of the others' rows is left.
LEMMA FailStep ==
  ASSUME IInv, NEW s \in Searches, Fail(s)
  PROVE  IInv'
<1>0. Typed /\ Checked /\ Locked /\ StoredOK /\ LeadsOK
  BY DEF IInv
<1>1. /\ pc[s] \in Active /\ pc' = [pc EXCEPT ![s] = "failed"]
      /\ found' = [found EXCEPT ![s] = <<>>] /\ kept' = [kept EXCEPT ![s] = <<>>]
      /\ newCompanies' = [newCompanies EXCEPT ![s] = <<>>]
      /\ newContacts' = [newContacts EXCEPT ![s] = <<>>]
      /\ leads' = [leads EXCEPT ![s] = <<>>]
      /\ lock' = IF lock = s THEN NoSearch ELSE lock
      /\ UNCHANGED <<before, companies, contacts, suppressions>>
  BY DEF Fail, Goto, Release, rows
<1>2. Typed'
  BY <1>0, <1>1 DEF Typed
<1>3. Checked' /\ Locked'
  BY <1>0, <1>1 DEF Checked, Locked, Typed
<1>4. companies \in Seq(CompanyRows) /\ contacts \in Seq(ContactRows)
  BY <1>0 DEF Typed
<1>5. newCompanies'[s] = <<>> /\ newContacts'[s] = <<>> /\ leads'[s] = <<>>
  BY <1>0, <1>1 DEF Typed
<1>6. Companies(s)' = companies /\ Contacts(s)' = contacts
  BY <1>1, <1>4, <1>5, ConcatEmptySeq DEF Companies, Contacts
<1>7. \A v \in Searches \ {s} :
        Companies(v)' = Companies(v) /\ Contacts(v)' = Contacts(v) /\ leads'[v] = leads[v]
  BY <1>0, <1>1 DEF Typed, Companies, Contacts
<1>8. StoredOK'
  BY <1>0, <1>1, <1>6, <1>7 DEF StoredOK
<1>9. LeadsOK'
  BY <1>0, <1>5, <1>7 DEF LeadsOK
<1> QED BY <1>2, <1>3, <1>8, <1>9 DEF IInv

\* A suppression is created.
LEMMA SuppressionStep ==
  ASSUME IInv, NEW x \in Subjects, CreateSuppression(x)
  PROVE  IInv'
<1>1. StoredOK' /\ LeadsOK'
  BY RowsKept DEF CreateSuppression
<1>2. Typed' /\ Checked' /\ Locked'
  BY DEF IInv, CreateSuppression, Typed, Checked, Locked, open, rows
<1> QED BY <1>1, <1>2 DEF IInv

\* Every step keeps the invariant.
LEMMA InvStep == IInv /\ [Next]_vars => IInv'
<1> SUFFICES ASSUME IInv, [Next]_vars PROVE IInv'
  OBVIOUS
<1>1. CASE UNCHANGED vars
  <2>1. StoredOK' /\ LeadsOK'
    BY <1>1, RowsKept DEF vars
  <2>2. Typed' /\ Checked' /\ Locked'
    BY <1>1 DEF IInv, vars, Typed, Checked, Locked, open, rows
  <2> QED BY <2>1, <2>2 DEF IInv
<1>2. CASE Next
  BY <1>2, BeginStep, FilterStep, StoreStep, CommitStep, FailStep, SuppressionStep DEF Next
<1> QED BY <1>1, <1>2
----------------------------------------------------------------------------
(* The theorems *)

\* Every reachable state of the tenant's rows and searches satisfies it.
THEOREM Invariance == Spec => []IInv
  BY InitInv, InvStep, PTL DEF Spec

\* The ids in contacts and leads are those of rows.
THEOREM TypeCorrect == Spec => []TypeOK
<1>1. IInv => TypeOK
  BY DEF IInv, Typed, StoredOK, RowsOK, LeadsOK, LeadOK, TypeOK
<1> QED BY <1>1, Invariance, PTL

\* The lock on the tenant's row keeps each domain at one company and each job
\* title of a company at one contact (_get_or_create_company, _contact).
THEOREM RowsStoredOnce == Spec => []StoredOnce
<1>1. IInv => StoredOnce
  BY DEF IInv, StoredOK, RowsOK, StoredOnce
<1> QED BY <1>1, Invariance, PTL

\* A lead's contact belongs to its company and both to the record that was
\* scored, however the transactions of other searches interleave.
THEOREM LeadsBelongTogether == Spec => []LeadsConsistent
<1>1. IInv => LeadsConsistent
  BY DEF IInv, LeadsOK, LeadOK, LeadsConsistent
<1> QED BY <1>1, Invariance, PTL

\* The rows of an answer do not name a subject that was suppressed when the
\* search that stored them began, but for a domain given as a URL.
LEMMA CleanRows ==
  /\ \A row \in CompanyRows :
       /\ <<"company", row.name>> \in row.after => row.name = NoValue
       /\ <<"domain", row.domain>> \in row.after /\ row.domain # NoValue => row.given.url
  /\ \A row \in ContactRows :
       /\ <<"email", row.email>> \in row.after => row.email = NoValue
       /\ <<"contact", row.person>> \in row.after => row.person = NoValue
<1>1. ASSUME NEW row \in CompanyRows
      PROVE  /\ <<"company", row.name>> \in row.after => row.name = NoValue
             /\ <<"domain", row.domain>> \in row.after /\ row.domain # NoValue => row.given.url
  <2>1. PICK b \in SUBSET Subjects : \E q \in Clean(b) : row = CompanyRow(q, b)
    BY DEF CompanyRows
  <2>2. PICK r \in Clean(b) : row = CompanyRow(r, b)
    BY <2>1
  <2>3. row.name = r.name /\ row.domain = normalize_domain(r.domain) /\ row.given = r.domain /\ row.after = b
    BY <2>2 DEF CompanyRow
  <2>4. /\ r \in ProviderRecords
        /\ \A x \in {<<"domain", r.domain>>, <<"company", r.name>>} : x[2] # NoValue => x \notin b
    BY DEF Clean, Candidates
  <2>5. <<"company", r.name>> \in b => r.name = NoValue
    BY <2>4
  <2>6. ASSUME <<"domain", row.domain>> \in b, row.domain # NoValue, ~r.domain.url PROVE FALSE
    <3>1. r.domain # NoValue /\ row.domain = [host |-> r.domain.host, url |-> FALSE]
      BY <2>3, <2>6 DEF normalize_domain
    <3>2. r.domain = [host |-> r.domain.host, url |-> r.domain.url] /\ r.domain.url = FALSE
      BY <2>4, <2>6, <3>1, DomainAssumption
    <3>3. row.domain = r.domain
      BY <3>1, <3>2
    <3> QED BY <2>4, <2>6, <3>1, <3>3
  <2> QED BY <2>3, <2>5, <2>6
<1>2. ASSUME NEW row \in ContactRows
      PROVE  /\ <<"email", row.email>> \in row.after => row.email = NoValue
             /\ <<"contact", row.person>> \in row.after => row.person = NoValue
  <2>1. PICK b \in SUBSET Subjects :
          \E q \in {p \in Clean(b) : p.contact # NoValue}, c \in Nat : row = ContactRow(q, b, c)
    BY DEF ContactRows
  <2>2. PICK r \in Clean(b), c \in Nat : r.contact # NoValue /\ row = ContactRow(r, b, c)
    BY <2>1
  <2>3. row.person = r.contact.person /\ row.email = r.contact.email /\ row.after = b
    BY <2>2 DEF ContactRow
  <2>4. \A x \in {<<"email", r.contact.email>>, <<"contact", r.contact.person>>} :
          x[2] # NoValue => x \notin b
    BY <2>2 DEF Clean, Candidates
  <2> QED BY <2>3, <2>4
<1> QED BY <1>1, <1>2

\* A suppressed subject comes back only from a row stored by a search that
\* began before the suppression, or as the domain of a company the provider
\* gave as a URL (is_suppressed hashes it as given).
THEOREM SuppressionLeaks == Spec => []LeaksExplained
<1>1. IInv => LeaksExplained
  <2> SUFFICES ASSUME IInv, NEW s \in Searches, pc[s] = "answered", NEW i \in DOMAIN leads[s],
                      NEW x \in Leaked(s, leads[s][i])
               PROVE  LET l == leads[s][i] IN
                      IF x[1] \in {"domain", "company"}
                        THEN x \notin CompanyOf(l).after \/ (x[1] = "domain" /\ CompanyOf(l).given.url)
                        ELSE x \notin ContactOf(l).after
    BY DEF LeaksExplained
  <2> DEFINE l == leads[s][i]
             company == companies[l.company]
             contact == contacts[l.contact]
  <2>1. /\ Typed /\ Companies(s) = companies /\ Contacts(s) = contacts
        /\ LeadOK(l, companies, contacts)
    BY Seen DEF IInv, Locked, LeadsOK
  <2>2. /\ company \in CompanyRows
        /\ l.contact # 0 => contact \in ContactRows
    BY <2>1, ElementOfSeq, LenProperties DEF LeadOK, Typed
  <2>3. /\ CompanyOf(l) = company
        /\ ContactOf(l) = IF l.contact = 0 THEN NoValue ELSE contact
    BY DEF CompanyOf, ContactOf
  <2>4. x \in Candidates(CompanyOf(l), ContactOf(l))
    BY DEF Leaked
  <2> HIDE DEF l
  <2>5. CASE x \in {<<"domain", company.domain>>, <<"company", company.name>>}
    <3>1. x[2] # NoValue
      BY <2>4 DEF Candidates
    <3>2. /\ <<"company", company.name>> \in company.after => company.name = NoValue
          /\ <<"domain", company.domain>> \in company.after /\ company.domain # NoValue
               => company.given.url
      BY <2>2, CleanRows
    <3>3. x \notin company.after \/ (x[1] = "domain" /\ company.given.url)
      BY <2>5, <3>1, <3>2
    <3>4. x[1] \in {"domain", "company"}
      BY <2>5
    <3> QED BY <2>3, <3>3, <3>4 DEF l
  <2>6. CASE /\ l.contact # 0 /\ ContactOf(l) # NoValue
             /\ x \in {<<"email", contact.email>>, <<"contact", contact.person>>}
    <3>1. x[2] # NoValue
      BY <2>4 DEF Candidates
    <3>2. /\ <<"email", contact.email>> \in contact.after => contact.email = NoValue
          /\ <<"contact", contact.person>> \in contact.after => contact.person = NoValue
      BY <2>2, <2>6, CleanRows
    <3>3. x \notin contact.after
      BY <2>6, <3>1, <3>2
    <3>4. x[1] \notin {"domain", "company"}
      BY <2>6
    <3>5. ContactOf(l) = contact
      BY <2>3, <2>6
    <3> QED BY <3>3, <3>4, <3>5 DEF l
  <2> QED BY <2>3, <2>4, <2>5, <2>6 DEF Candidates
<1> QED BY <1>1, Invariance, PTL
=============================================================================
