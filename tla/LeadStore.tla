----------------------------- MODULE LeadStore -----------------------------
(***************************************************************************)
(* What a search of one tenant returns and stores: _persist_lead_search    *)
(* (app/search_service.py) with is_suppressed, score_provider_lead and     *)
(* _get_or_create_company / _contact, while suppressions are created       *)
(* (app/main.py, create_suppression).  Every query of this code is         *)
(* restricted to the caller's tenant, so an instance of the module is one  *)
(* tenant; module CreditTransactions has the credits of the transaction.   *)
(*                                                                         *)
(* Provider records are suppressed by the subjects they name, but a lead   *)
(* is answered from the stored rows: the company with the record's domain  *)
(* and that company's contact with the record's job title, which keep the  *)
(* values of the record they were first created from.                      *)
(***************************************************************************)
EXTENDS Naturals, FiniteSets, Sequences, SequencesExt

CONSTANTS
  Searches,        \* search calls of the tenant, each with its own transaction
  ProviderRecords, \* records the provider may return
  NoValue,         \* a field that is missing
  NoSearch,
  MaxRecords,      \* bound: records in a provider's answer
  MaxSuppressions  \* bound: suppressions the tenant creates

ASSUME LeadStoreAssumption ==
  /\ IsFiniteSet(Searches) /\ NoSearch \notin Searches
  /\ MaxRecords \in Nat /\ MaxSuppressions \in Nat

\* A domain is missing, a host, or a host inside a URL.
ASSUME DomainAssumption ==
  \A r \in ProviderRecords : r.domain # NoValue =>
    r.domain = [host |-> r.domain.host, url |-> r.domain.url] /\ r.domain.url \in BOOLEAN

VARIABLES
  pc,           \* where each search stands
  before,       \* history: the subjects suppressed when it began
  found,        \* records of the provider's answer still to be checked
  kept,         \* records that are not suppressed, then those to be stored
  newCompanies, \* rows its open transaction has inserted
  newContacts,
  leads,        \* its leads: the record, and the rows it is answered from
  lock,         \* the search that holds the lock on the tenant's row
  companies,    \* committed rows, each with its index as id
  contacts,
  suppressions  \* <<subject_type, subject>> of the rows of suppressions

rows == <<companies, contacts>>
open == <<newCompanies, newContacts, leads>>
vars == <<pc, before, found, kept, open, lock, rows, suppressions>>

\* Stages of a search that has begun and is not answered.
Active == {"lock", "filter", "store"}

Init ==
  /\ pc = [s \in Searches |-> "idle"]
  /\ before = [s \in Searches |-> {}]
  /\ found = [s \in Searches |-> <<>>]
  /\ kept = [s \in Searches |-> <<>>]
  /\ newCompanies = [s \in Searches |-> <<>>]
  /\ newContacts = [s \in Searches |-> <<>>]
  /\ leads = [s \in Searches |-> <<>>]
  /\ lock = NoSearch
  /\ companies = <<>> /\ contacts = <<>>
  /\ suppressions = {}

Goto(s, from, to) == pc[s] = from /\ pc' = [pc EXCEPT ![s] = to]

----------------------------------------------------------------------------
(* Subjects *)

\* A domain is a host, as such or inside a URL; the website prefix and the path
\* are what normalize_domain removes.
normalize_domain(d) == IF d = NoValue THEN NoValue ELSE [host |-> d.host, url |-> FALSE]

\* The candidates of is_suppressed.  Names and addresses are taken up to case
\* and spacing, which hash_subject removes; a domain is hashed as it is given.
Candidates(company, contact) ==
  LET fields == {<<"domain", company.domain>>, <<"company", company.name>>}
                \union IF contact = NoValue THEN {}
                       ELSE {<<"email", contact.email>>, <<"contact", contact.person>>}
  IN {c \in fields : c[2] # NoValue}

Subjects == UNION {Candidates(r, r.contact) : r \in ProviderRecords}
            \union {<<"domain", normalize_domain(r.domain)>> :
                      r \in {q \in ProviderRecords : q.domain # NoValue}}

\* Mutant: the fields of the contact are not looked up.
IsSuppressedCompany(r) == Candidates(r, NoValue) \cap suppressions # {}

IsSuppressed(r) == Candidates(r, r.contact) \cap suppressions # {}

\* create_suppression: an existing entry is returned, a new one inserted; the
\* unique constraint keeps a racing insert out.  It takes no lock.
CreateSuppression(x) ==
  /\ Cardinality(suppressions) < MaxSuppressions
  /\ suppressions' = suppressions \union {x}
  /\ UNCHANGED <<pc, before, found, kept, open, lock, rows>>

----------------------------------------------------------------------------
(* The search *)

\* The provider answers the search.
ProviderAnswers(s) ==
  /\ Goto(s, "idle", "lock")
  /\ before' = [before EXCEPT ![s] = suppressions]
  /\ \E n \in 0 .. MaxRecords : \E answer \in [1 .. n -> ProviderRecords] :
       found' = [found EXCEPT ![s] = answer]
  /\ UNCHANGED <<kept, open, lock, rows, suppressions>>

\* Mutant: SELECT without FOR UPDATE.
ReadTenant(s) ==
  /\ Goto(s, "lock", "filter")
  /\ UNCHANGED <<before, found, kept, open, lock, rows, suppressions>>

LockTenant(s) ==
  /\ lock = NoSearch
  /\ Goto(s, "lock", "filter")
  /\ lock' = s
  /\ UNCHANGED <<before, found, kept, open, rows, suppressions>>

\* The SELECTs of is_suppressed for the next record; other transactions commit
\* suppressions between one record and the next.
CheckRecord(s) ==
  /\ pc[s] = "filter" /\ found[s] # <<>>
  /\ found' = [found EXCEPT ![s] = Tail(@)]
  /\ kept' = [kept EXCEPT ![s] = IF IsSuppressed(Head(found[s])) THEN @
                                 ELSE Append(@, Head(found[s]))]
  /\ UNCHANGED <<pc, before, open, lock, rows, suppressions>>

\* Minimal score, sort and limit: some of the records, in some order.
SelectLeads(s) ==
  /\ found[s] = <<>>
  /\ Goto(s, "filter", "store")
  /\ \E order \in SetToAllKPermutations(DOMAIN kept[s]) :
       kept' = [kept EXCEPT ![s] = [i \in DOMAIN order |-> kept[s][order[i]]]]
  /\ UNCHANGED <<before, found, open, lock, rows, suppressions>>

\* What the transaction sees: the committed rows and its own.
Companies(s) == companies \o newCompanies[s]
Contacts(s) == contacts \o newContacts[s]

FindCompany(s, r) ==
  {i \in DOMAIN Companies(s) :
     r.domain # NoValue /\ Companies(s)[i].domain = normalize_domain(r.domain)}

\* c is the id of the company found, or of the one inserted.  A row remembers
\* (history) which suppressions its search began under.
GetOrCreateCompany(s, r, c) ==
  \/ /\ c \in FindCompany(s, r)
     /\ UNCHANGED newCompanies
  \/ /\ FindCompany(s, r) = {}
     /\ c = Len(Companies(s)) + 1
     /\ newCompanies' = [newCompanies EXCEPT ![s] =
          Append(@, [name |-> r.name, domain |-> normalize_domain(r.domain),
                     given |-> r.domain, after |-> before[s]])]

\* Mutant: the contact is looked up by job title alone.
FindContactByTitle(s, r, c) ==
  {i \in DOMAIN Contacts(s) : Contacts(s)[i].title = r.contact.title}

FindContact(s, r, c) ==
  {i \in DOMAIN Contacts(s) :
     Contacts(s)[i].company = c /\ Contacts(s)[i].title = r.contact.title}

\* k is the id of the contact, 0 when the record has none.
GetOrCreateContact(s, r, c, k) ==
  \/ r.contact = NoValue /\ k = 0 /\ UNCHANGED newContacts
  \/ /\ r.contact # NoValue
     /\ k \in FindContact(s, r, c)
     /\ UNCHANGED newContacts
  \/ /\ r.contact # NoValue
     /\ FindContact(s, r, c) = {}
     /\ k = Len(Contacts(s)) + 1
     /\ newContacts' = [newContacts EXCEPT ![s] =
          Append(@, [company |-> c, person |-> r.contact.person, email |-> r.contact.email,
                     title |-> r.contact.title, after |-> before[s]])]

\* One turn of the loop over the scored records.
StoreLead(s) ==
  LET r == Head(kept[s]) IN
  /\ pc[s] = "store" /\ kept[s] # <<>>
  /\ kept' = [kept EXCEPT ![s] = Tail(@)]
  /\ \E c \in 1 .. Len(Companies(s)) + 1, k \in 0 .. Len(Contacts(s)) + 1 :
       /\ GetOrCreateCompany(s, r, c)
       /\ GetOrCreateContact(s, r, c, k)
       /\ leads' = [leads EXCEPT ![s] = Append(@, [record |-> r, company |-> c, contact |-> k])]
  /\ UNCHANGED <<pc, before, found, lock, rows, suppressions>>

Release(s) == lock' = IF lock = s THEN NoSearch ELSE lock

\* Mutant: the contacts were never added to the session.
CommitCompanies(s) ==
  /\ kept[s] = <<>>
  /\ Goto(s, "store", "answered")
  /\ companies' = Companies(s)
  /\ newCompanies' = [newCompanies EXCEPT ![s] = <<>>]
  /\ newContacts' = [newContacts EXCEPT ![s] = <<>>]
  /\ Release(s)
  /\ UNCHANGED <<before, found, kept, leads, contacts, suppressions>>

Commit(s) ==
  /\ kept[s] = <<>>
  /\ Goto(s, "store", "answered")
  /\ companies' = Companies(s)
  /\ contacts' = Contacts(s)
  /\ newCompanies' = [newCompanies EXCEPT ![s] = <<>>]
  /\ newContacts' = [newContacts EXCEPT ![s] = <<>>]
  /\ Release(s)
  /\ UNCHANGED <<before, found, kept, leads, suppressions>>

\* Inactive tenant, too few credits, an incomplete record, a database error:
\* the transaction is rolled back and the search answered with an error.
Fail(s) ==
  /\ pc[s] \in Active
  /\ Goto(s, pc[s], "failed")
  /\ found' = [found EXCEPT ![s] = <<>>]
  /\ kept' = [kept EXCEPT ![s] = <<>>]
  /\ newCompanies' = [newCompanies EXCEPT ![s] = <<>>]
  /\ newContacts' = [newContacts EXCEPT ![s] = <<>>]
  /\ leads' = [leads EXCEPT ![s] = <<>>]
  /\ Release(s)
  /\ UNCHANGED <<before, rows, suppressions>>

----------------------------------------------------------------------------

Next ==
  \/ \E s \in Searches :
       \/ ProviderAnswers(s) \/ LockTenant(s) \/ CheckRecord(s) \/ SelectLeads(s)
       \/ StoreLead(s) \/ Commit(s) \/ Fail(s)
  \/ \E x \in Subjects : CreateSuppression(x)

Spec == Init /\ [][Next]_vars

----------------------------------------------------------------------------
(* Properties *)

\* The type invariant: the ids in contacts and leads are those of rows.
TypeOK ==
  /\ pc \in [Searches -> {"idle", "answered", "failed"} \union Active]
  /\ lock \in Searches \union {NoSearch}
  /\ suppressions \subseteq Subjects
  /\ \A s \in Searches :
       /\ before[s] \subseteq Subjects
       /\ found[s] \in Seq(ProviderRecords) /\ kept[s] \in Seq(ProviderRecords)
       /\ \A i \in DOMAIN Contacts(s) : Contacts(s)[i].company \in DOMAIN Companies(s)
       /\ \A i \in DOMAIN leads[s] :
            /\ leads[s][i].company \in DOMAIN Companies(s)
            /\ leads[s][i].contact \in DOMAIN Contacts(s) \union {0}

\* No domain has two companies and no job title of a company two contacts.
\* Nothing but the lock on the tenant's row keeps two searches from inserting
\* the same contact (_get_or_create_contact: contacts has no unique
\* constraint), and a second company row would fail the search.
StoredOnce ==
  /\ \A i, j \in DOMAIN companies :
       companies[i].domain = companies[j].domain /\ companies[i].domain # NoValue => i = j
  /\ \A i, j \in DOMAIN contacts :
       contacts[i].company = contacts[j].company /\ contacts[i].title = contacts[j].title
         => i = j

\* A lead combines rows that belong together: its contact is one of its company
\* and has the job title that was scored, its company the scored domain
\* (_persist_lead_search answers with the scores of the record and the rest
\* from the rows).
LeadsConsistent ==
  \A s \in Searches : \A i \in DOMAIN leads[s] :
    LET l == leads[s][i] IN
    /\ Companies(s)[l.company].domain = normalize_domain(l.record.domain)
    /\ (l.contact = 0) <=> (l.record.contact = NoValue)
    /\ l.contact # 0 =>
         /\ Contacts(s)[l.contact].company = l.company
         /\ Contacts(s)[l.contact].title = l.record.contact.title

CompanyOf(l) == companies[l.company]

ContactOf(l) == IF l.contact = 0 THEN NoValue ELSE contacts[l.contact]

\* The subjects a client finds in an answer although they were suppressed
\* before its search began.
Leaked(s, l) == Candidates(CompanyOf(l), ContactOf(l)) \cap before[s]

\* A suppressed subject is returned in two cases only: its row was stored by a
\* search that began before the suppression, or it is the domain of a company
\* the provider gave as a URL, which is hashed as given and stored as a host.
LeaksExplained ==
  \A s \in Searches : pc[s] = "answered" => \A i \in DOMAIN leads[s] :
    LET l == leads[s][i] IN
    \A x \in Leaked(s, l) :
      IF x[1] \in {"domain", "company"}
        THEN x \notin CompanyOf(l).after \/ (x[1] = "domain" /\ CompanyOf(l).given.url)
        ELSE x \notin ContactOf(l).after

\* tests/test_hardening.py, test_suppression_prevents_provider_record_from_returning:
\* after a domain is suppressed, no lead of a later search shows it.  Here the
\* same is asked of each kind of subject.
SuppressedNeverReturned ==
  \A s \in Searches : pc[s] = "answered" =>
    \A i \in DOMAIN leads[s] : Leaked(s, leads[s][i]) = {}
=============================================================================
