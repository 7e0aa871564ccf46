--------------------------- MODULE AccountsProofs ---------------------------
(***************************************************************************)
(* Proofs about Accounts for any registrants, calls and keys.  RevokedEnds *)
(* is inductive with the types of the key tables; LoginExplained needs to  *)
(* know whose email a tenant's user has (EmailInv) and how many tenants a  *)
(* registrant has (OneTenant).                                             *)
(***************************************************************************)
EXTENDS Accounts, TLAPS

\* The user of a tenant has the email its registrant typed, normalised.
EmailInv ==
  \A t \in tenants :
    IF t.owner = Zyla THEN t.email = Zyla
    ELSE t.owner \in Registrants /\ \E e \in Spellings[t.owner] : t.email = Normal[e]

\* As long as no answer to register is lost, a registrant has a tenant if and
\* only if an answer said so, and only one.
OneTenant ==
  \A r \in Registrants : lost[r] = 0 =>
    /\ reg[r] # "registered" => ~Owns(r)
    /\ reg[r] = "registered" => \E t \in tenants : \A u \in tenants : u.owner = r <=> u = t

History == admitted \in [Keys -> SUBSET SUBSET Calls]

\* The inductive invariant.
IInv == TypeOK /\ History /\ EmailInv /\ OneTenant /\ RevokedEnds

----------------------------------------------------------------------------
(* Types *)

\* Every table starts in order.
LEMMA InitTyped == Init => TypeOK /\ History
<1> SUFFICES ASSUME Init PROVE TypeOK /\ History
  OBVIOUS
<1>1. TenantsOK
  BY AccountsAssumption DEF Init, TenantsOK, ZylaRow, Fits, Plain
<1> QED BY <1>1, AccountsAssumption DEF Init, TypeOK, History, NoKeyCall

\* A row whose slug the database accepts leaves the table in order.
LEMMA RowInserted ==
  ASSUME TenantsOK, NEW row, tenants' = tenants \cup {row},
         row.owner \in Registrants \cup {Zyla}, Insertable(row.slug),
         row.owner = Zyla => row.slug = Plain(ZylaSlug) /\ ~Provisioned
  PROVE  TenantsOK' /\ tenants \subseteq tenants' /\ row \in tenants'
  BY DEF TenantsOK, Insertable, Taken, Fits, Plain, Provisioned

\* The tables of tenants, and what was answered about them.
LEMMA TenantsStep == TypeOK /\ [Next]_vars => TenantsOK' /\ tenants \subseteq tenants'
<1> SUFFICES ASSUME TypeOK, [Next]_vars PROVE TenantsOK' /\ tenants \subseteq tenants'
  OBVIOUS
<1>1. ASSUME NEW r \in Registrants, RegisterCommit(r) \/ RegisterReplyLost(r)
      PROVE  TenantsOK' /\ tenants \subseteq tenants'
  <2>1. PICK email \in Spellings[r] :
          Insertable(SlugOf(r)) /\ tenants' = tenants \cup {Account(r, email)}
    BY <1>1 DEF RegisterCommit, RegisterReplyLost
  <2>2. Account(r, email).owner = r /\ Account(r, email).slug = SlugOf(r) /\ r # Zyla
    BY AccountsAssumption DEF Account
  <2> QED BY <2>1, <2>2, RowInserted DEF TypeOK
<1>2. ASSUME NEW c \in MarketCalls, ZylaInsert(c) PROVE TenantsOK' /\ tenants \subseteq tenants'
  <2>1. CASE tenants' = tenants
    BY <2>1 DEF TypeOK, TenantsOK, Fits
  <2>2. CASE tenants' # tenants
    <3> DEFINE row == ZylaRow(ZylaSlug)
    <3>1. /\ row.owner = Zyla /\ row.slug = Plain(ZylaSlug) /\ ~Provisioned
          /\ Insertable(row.slug) /\ tenants' = tenants \cup {row}
      BY <1>2, <2>2, AccountsAssumption DEF ZylaInsert, ZylaRow, Insertable, Fits, Plain
    <3> QED BY <3>1, RowInserted DEF TypeOK
  <2> QED BY <2>1, <2>2
<1>3. CASE UNCHANGED tenants
  BY <1>3 DEF TypeOK, TenantsOK, Fits
<1> QED
  BY <1>1, <1>2, <1>3
  DEF Next, Register, Market, RegisterLookup, RegisterRefused, RegisterFails, ZylaLookup,
      ZylaCheckSlug, MarketFails, SetZylaStatus, CreateKey, Revoke, LoadKey, TouchKey, EndCall,
      accounts, vars

\* A commit leaves the registrant with a tenant.
LEMMA Committed ==
  ASSUME NEW r, RegisterCommit(r) PROVE \E t \in tenants' : t.owner = r
<1>1. PICK email \in Spellings[r] : tenants' = tenants \cup {Account(r, email)}
  BY DEF RegisterCommit
<1>2. Account(r, email).owner = r
  BY DEF Account
<1> QED BY <1>1, <1>2

\* ensure_zyla_tenant inserts its tenant, or fails.
LEMMA Inserted ==
  ASSUME NEW c, ZylaInsert(c)
  PROVE  \/ Step(c, "free", "idle") /\ UNCHANGED tenants
         \/ /\ Step(c, "free", "served") /\ ~Provisioned
            /\ tenants' = tenants \cup {ZylaRow(ZylaSlug)}
  BY DEF ZylaInsert

\* The marketplace has a tenant, under the configured slug.
Served(rows) ==
  (\E t \in rows : t.owner = Zyla) /\ ~\E t \in rows : t.owner = Zyla /\ t.slug # Plain(ZylaSlug)

\* What TypeOK says of a call that was served.
LEMMA ServedMeans ==
  /\ Served(tenants) <=> Provisioned /\ ~Misassigned
  /\ Served(tenants') <=> (Provisioned /\ ~Misassigned)'
  BY DEF Served, Provisioned, Misassigned

\* It keeps it, whoever registers.
LEMMA ServedStep ==
  ASSUME TypeOK, [Next]_vars, Served(tenants) PROVE Served(tenants')
<1>1. ASSUME NEW r \in Registrants, RegisterCommit(r) \/ RegisterReplyLost(r)
      PROVE  Served(tenants')
  <2>1. PICK email \in Spellings[r] : tenants' = tenants \cup {Account(r, email)}
    BY <1>1 DEF RegisterCommit, RegisterReplyLost
  <2>2. Account(r, email).owner # Zyla
    BY AccountsAssumption DEF Account
  <2> QED BY <2>1, <2>2 DEF Served
<1>2. ASSUME NEW c \in MarketCalls, ZylaInsert(c) PROVE Served(tenants')
  BY <1>2, Inserted DEF Served, Provisioned
<1>3. CASE UNCHANGED tenants
  BY <1>3
<1> QED
  BY <1>1, <1>2, <1>3
  DEF Next, Register, Market, RegisterLookup, RegisterRefused, RegisterFails, ZylaLookup,
      ZylaCheckSlug, MarketFails, SetZylaStatus, CreateKey, Revoke, LoadKey, TouchKey, EndCall,
      accounts, vars

\* Every step keeps the types.
LEMMA StepTyped == TypeOK /\ History /\ [Next]_vars => TypeOK' /\ History'
<1> SUFFICES ASSUME TypeOK, History, [Next]_vars PROVE TypeOK' /\ History'
  OBVIOUS
<1>0. /\ TenantsOK' /\ tenants \subseteq tenants'
      /\ Served(tenants) => Served(tenants')
  BY TenantsStep, ServedStep
<1> USE AccountsAssumption, ServedMeans, <1>0 DEF TypeOK, History, Owns
<1>1. ASSUME NEW r \in Registrants, Register(r) PROVE TypeOK' /\ History'
  <2> DEFINE Stages == {"idle", "plain", "suffixed", "registered"}
  <2>1. /\ \E to \in Stages : reg' = [reg EXCEPT ![r] = to]
        /\ reg'[r] = "registered" => \E t \in tenants' : t.owner = r
    <3>1. CASE RegisterLookup(r)
      BY <3>1 DEF RegisterLookup
    <3>2. CASE RegisterCommit(r)
      BY <3>2, Committed DEF RegisterCommit
    <3>3. CASE RegisterReplyLost(r) \/ RegisterRefused(r) \/ RegisterFails(r)
      BY <3>3 DEF RegisterReplyLost, RegisterRefused, RegisterFails
    <3> QED BY <1>1, <3>1, <3>2, <3>3 DEF Register
  <2>2. lost' \in [Registrants -> 0..MaxLost]
    BY <1>1 DEF Register, RegisterLookup, RegisterCommit, RegisterReplyLost,
                RegisterRefused, RegisterFails
  <2>3. UNCHANGED <<market, zylaStatus, keys, calls, admitted>>
    BY <1>1 DEF Register, RegisterLookup, RegisterCommit, RegisterReplyLost,
                RegisterRefused, RegisterFails, marketVars, keyVars
  <2>4. reg' \in [Registrants -> Stages]
    BY <2>1
  <2>5. \A o \in Registrants : reg'[o] = "registered" => \E t \in tenants' : t.owner = o
    BY <2>1
  <2> QED BY <2>2, <2>3, <2>4, <2>5
<1>2. ASSUME NEW c \in MarketCalls, Market(c) PROVE TypeOK' /\ History'
  <2>1. /\ \E to \in {"idle", "absent", "free", "served"} : market' = [market EXCEPT ![c] = to]
        /\ market'[c] = "served" => Served(tenants')
    <3>1. CASE ZylaLookup(c)
      BY <3>1 DEF ZylaLookup, Step
    <3>2. CASE ZylaCheckSlug(c) \/ MarketFails(c)
      BY <3>2 DEF ZylaCheckSlug, MarketFails, Step
    <3>3. CASE ZylaInsert(c)
      <4>1. CASE Step(c, "free", "idle")
        BY <4>1 DEF Step
      <4>2. CASE Step(c, "free", "served") /\ ~Provisioned /\ tenants' = tenants \cup {ZylaRow(ZylaSlug)}
        <5>1. Served(tenants')
          <6>1. ZylaRow(ZylaSlug).owner = Zyla /\ ZylaRow(ZylaSlug).slug = Plain(ZylaSlug)
            BY DEF ZylaRow
          <6>2. \A t \in tenants : t.owner # Zyla
            BY <4>2 DEF Provisioned
          <6> QED BY <4>2, <6>1, <6>2 DEF Served
        <5> QED BY <4>2, <5>1 DEF Step
      <4> QED BY <3>3, <4>1, <4>2, Inserted
    <3> QED BY <1>2, <3>1, <3>2, <3>3 DEF Market
  <2>2. UNCHANGED <<reg, lost, zylaStatus, keys, calls, admitted>>
    BY <1>2 DEF Market, ZylaLookup, ZylaCheckSlug, ZylaInsert, MarketFails, Step, keyVars
  <2> QED BY <2>1, <2>2
<1>3. ASSUME NEW k \in Keys, CreateKey(k) \/ Revoke(k) PROVE TypeOK' /\ History'
  BY <1>3 DEF CreateKey, Revoke, accounts
<1>4. ASSUME NEW c \in Calls, NEW k \in Keys, LoadKey(c, k) \/ TouchKey(c, k) PROVE TypeOK' /\ History'
  BY <1>4 DEF LoadKey, TouchKey, Take, accounts
<1>5. ASSUME NEW c \in Calls, EndCall(c) PROVE TypeOK' /\ History'
  BY <1>5 DEF EndCall, NoKeyCall, accounts
<1>6. CASE SetZylaStatus
  BY <1>6 DEF SetZylaStatus, keyVars
<1>7. CASE UNCHANGED vars
  BY <1>7 DEF vars, accounts, keyVars
<1> QED BY <1>1, <1>2, <1>3, <1>4, <1>5, <1>6, <1>7 DEF Next

----------------------------------------------------------------------------
(* Keys *)

\* No call writes the status of a key, and none loads a key that is revoked.
LEMMA RevokedStep == TypeOK /\ History /\ RevokedEnds /\ [Next]_vars => RevokedEnds'
<1> SUFFICES ASSUME TypeOK, History, RevokedEnds, [Next]_vars PROVE RevokedEnds'
  OBVIOUS
<1>0. /\ keys \in [Keys -> {"absent", "ACTIVE", "REVOKED"}]
      /\ calls \in [Calls -> [key : Keys, at : {"loaded", "serving"}] \cup {NoKeyCall}]
      /\ admitted \in [Keys -> SUBSET SUBSET Calls]
  BY DEF TypeOK, History
<1> USE <1>0 DEF RevokedEnds
<1>1. ASSUME NEW k \in Keys, CreateKey(k) PROVE RevokedEnds'
  BY <1>1 DEF CreateKey
<1>2. ASSUME NEW k \in Keys, Revoke(k) PROVE RevokedEnds'
  BY <1>2 DEF Revoke
<1>3. ASSUME NEW c \in Calls, NEW k \in Keys, LoadKey(c, k) PROVE RevokedEnds'
  BY <1>3 DEF LoadKey, Take
<1>4. ASSUME NEW c \in Calls, NEW k \in Keys, TouchKey(c, k) PROVE RevokedEnds'
  BY <1>4 DEF TouchKey, Take, Holds
<1>5. ASSUME NEW c \in Calls, EndCall(c) PROVE RevokedEnds'
  BY <1>5, AccountsAssumption DEF EndCall, NoKeyCall
<1>6. CASE UNCHANGED keyVars
  BY <1>6 DEF keyVars
<1> QED
  BY <1>1, <1>2, <1>3, <1>4, <1>5, <1>6
  DEF Next, Register, Market, RegisterLookup, RegisterCommit, RegisterReplyLost,
      RegisterRefused, RegisterFails, ZylaLookup, ZylaCheckSlug, ZylaInsert, MarketFails,
      Step, SetZylaStatus, keyVars, vars

----------------------------------------------------------------------------
(* Login *)

\* Rows are only added, each with the normalised email of its owner.
LEMMA EmailStep == EmailInv /\ [Next]_vars => EmailInv'
<1> SUFFICES ASSUME EmailInv, [Next]_vars PROVE EmailInv'
  OBVIOUS
<1>1. ASSUME NEW r \in Registrants, RegisterCommit(r) \/ RegisterReplyLost(r) PROVE EmailInv'
  <2>1. PICK email \in Spellings[r] : tenants' = tenants \cup {Account(r, email)}
    BY <1>1 DEF RegisterCommit, RegisterReplyLost
  <2>2. Account(r, email).owner = r /\ Account(r, email).email = Normal[email] /\ r # Zyla
    BY AccountsAssumption DEF Account, Typed
  <2> QED BY <2>1, <2>2 DEF EmailInv
<1>2. ASSUME NEW c \in MarketCalls, ZylaInsert(c) PROVE EmailInv'
  BY <1>2 DEF ZylaInsert, ZylaRow, EmailInv
<1>3. CASE UNCHANGED tenants
  BY <1>3 DEF EmailInv
<1> QED
  BY <1>1, <1>2, <1>3
  DEF Next, Register, Market, RegisterLookup, RegisterRefused, RegisterFails, ZylaLookup,
      ZylaCheckSlug, MarketFails, SetZylaStatus, CreateKey, Revoke, LoadKey, TouchKey, EndCall,
      accounts, vars

\* OneTenant for one registrant and a table of tenants.
Counted(r, stage, n, rows) ==
  n = 0 =>
    /\ stage # "registered" => \A t \in rows : t.owner # r
    /\ stage = "registered" => \E t \in rows : \A u \in rows : u.owner = r <=> u = t

\* OneTenant, in these terms.
LEMMA OneTenantCounted ==
  /\ OneTenant <=> \A r \in Registrants : Counted(r, reg[r], lost[r], tenants)
  /\ OneTenant' <=> \A r \in Registrants : Counted(r, reg'[r], lost'[r], tenants')
  BY DEF OneTenant, Owns, Counted

\* Another's row changes nothing for r.
LEMMA OthersRow ==
  ASSUME NEW r, NEW stage, NEW n, NEW rows, NEW row, Counted(r, stage, n, rows), row.owner # r
  PROVE  Counted(r, stage, n, rows \cup {row})
  BY DEF Counted

\* The row of a commit is the first one of r.
LEMMA FirstRow ==
  ASSUME NEW r, NEW stage, NEW n, NEW rows, NEW row, Counted(r, stage, n, rows),
         stage # "registered", row.owner = r
  PROVE  Counted(r, "registered", n, rows \cup {row})
  BY DEF Counted

\* A registrant commits once, unless an answer is lost.
LEMMA OneTenantStep == TypeOK /\ OneTenant /\ [Next]_vars => OneTenant'
<1> SUFFICES ASSUME TypeOK, OneTenant, [Next]_vars, NEW o \in Registrants
             PROVE  Counted(o, reg'[o], lost'[o], tenants')
  BY OneTenantCounted
<1>0. Counted(o, reg[o], lost[o], tenants)
  BY OneTenantCounted
<1>1. /\ reg \in [Registrants -> {"idle", "plain", "suffixed", "registered"}]
      /\ lost \in [Registrants -> 0..MaxLost]
      /\ o # Zyla /\ MaxLost \in Nat
  BY AccountsAssumption DEF TypeOK
<1>2. ASSUME NEW r \in Registrants, RegisterCommit(r)
      PROVE  Counted(o, reg'[o], lost'[o], tenants')
  <2>1. PICK email \in Spellings[r] : tenants' = tenants \cup {Account(r, email)}
    BY <1>2 DEF RegisterCommit
  <2>2. Account(r, email).owner = r
    BY DEF Account
  <2>3. reg[r] # "registered" /\ reg' = [reg EXCEPT ![r] = "registered"] /\ lost' = lost
    BY <1>2 DEF RegisterCommit
  <2>4. CASE o = r
    BY <1>0, <1>1, <2>1, <2>2, <2>3, <2>4, FirstRow
  <2>5. CASE o # r
    <3>1. reg'[o] = reg[o] /\ lost'[o] = lost[o]
      BY <1>1, <2>3, <2>5
    <3> QED BY <1>0, <2>1, <2>2, <2>5, <3>1, OthersRow
  <2> QED BY <2>4, <2>5
<1>3. ASSUME NEW r \in Registrants, RegisterReplyLost(r)
      PROVE  Counted(o, reg'[o], lost'[o], tenants')
  <2>1. PICK email \in Spellings[r] : tenants' = tenants \cup {Account(r, email)}
    BY <1>3 DEF RegisterReplyLost
  <2>2. Account(r, email).owner = r
    BY DEF Account
  <2>3. reg' = [reg EXCEPT ![r] = "idle"] /\ lost' = [lost EXCEPT ![r] = @ + 1]
    BY <1>3 DEF RegisterReplyLost
  <2>4. CASE o = r
    <3>1. lost'[o] # 0
      BY <1>1, <2>3, <2>4
    <3> QED BY <3>1 DEF Counted
  <2>5. CASE o # r
    <3>1. reg'[o] = reg[o] /\ lost'[o] = lost[o]
      BY <1>1, <2>3, <2>5
    <3> QED BY <1>0, <2>1, <2>2, <2>5, <3>1, OthersRow
  <2> QED BY <2>4, <2>5
<1>4. ASSUME NEW r \in Registrants, RegisterLookup(r) \/ RegisterRefused(r) \/ RegisterFails(r)
      PROVE  Counted(o, reg'[o], lost'[o], tenants')
  <2>1. /\ reg[r] # "registered" /\ UNCHANGED <<lost, tenants>>
        /\ \E to \in {"idle", "plain", "suffixed"} : reg' = [reg EXCEPT ![r] = to]
    BY <1>4 DEF RegisterLookup, RegisterRefused, RegisterFails
  <2>2. reg'[o] = reg[o] \/ (reg[o] # "registered" /\ reg'[o] # "registered")
    BY <1>1, <2>1
  <2> QED BY <1>0, <2>1, <2>2 DEF Counted
<1>5. ASSUME NEW c \in MarketCalls, ZylaInsert(c)
      PROVE  Counted(o, reg'[o], lost'[o], tenants')
  <2>1. /\ UNCHANGED <<reg, lost>>
        /\ UNCHANGED tenants \/ tenants' = tenants \cup {ZylaRow(ZylaSlug)}
    BY <1>5 DEF ZylaInsert, Step
  <2>2. ZylaRow(ZylaSlug).owner # o
    BY <1>1 DEF ZylaRow
  <2> QED BY <1>0, <2>1, <2>2, OthersRow
<1>6. CASE UNCHANGED <<reg, lost, tenants>>
  BY <1>0, <1>6
<1> QED
  BY <1>2, <1>3, <1>4, <1>5, <1>6
  DEF Next, Register, Market, ZylaLookup, ZylaCheckSlug, MarketFails, Step,
      SetZylaStatus, CreateKey, Revoke, LoadKey, TouchKey, EndCall, accounts, vars

\* What a login finds follows from whose email and how many tenants there are.
LEMMA LoginFollows == TypeOK /\ EmailInv /\ OneTenant => LoginExplained
<1> SUFFICES ASSUME TypeOK, EmailInv, OneTenant,
                    NEW r \in Registrants, NEW email \in Spellings[r], reg[r] = "registered"
             PROVE  /\ \E t \in LoginRows(email) : VerifyPassword(r, t)
                    /\ ~SharesEmail(r, email) =>
                         /\ \A t \in LoginRows(email) : VerifyPassword(r, t)
                         /\ lost[r] = 0 => \E t \in tenants : LoginRows(email) = {t}
  BY DEF LoginExplained
<1>1. r # Zyla
  BY AccountsAssumption
<1>2. ASSUME NEW t \in tenants, t.owner = r PROVE t \in LoginRows(email)
  <2>1. PICK e \in Spellings[r] : t.email = Normal[e]
    BY <1>1, <1>2 DEF EmailInv
  <2> QED BY <2>1, SpellingsAssumption DEF LoginRows, Typed
<1>3. \E t \in LoginRows(email) : VerifyPassword(r, t)
  <2>1. PICK t \in tenants : t.owner = r
    BY DEF TypeOK, Owns
  <2> QED BY <1>2, <2>1 DEF VerifyPassword
<1>4. ASSUME ~SharesEmail(r, email), NEW t \in LoginRows(email) PROVE t.owner = r
  <2>1. t \in tenants /\ t.email = Normal[email]
    BY DEF LoginRows, Typed
  <2>2. t.owner # Zyla
    BY <2>1, SpellingsAssumption DEF EmailInv
  <2>3. t.owner \in Registrants /\ \E e \in Spellings[t.owner] : t.email = Normal[e]
    BY <2>1, <2>2 DEF EmailInv
  <2> QED BY <1>4, <2>1, <2>3 DEF SharesEmail, Owns
<1>5. ASSUME ~SharesEmail(r, email), lost[r] = 0 PROVE \E t \in tenants : LoginRows(email) = {t}
  <2>1. PICK t \in tenants : \A u \in tenants : u.owner = r <=> u = t
    BY <1>5 DEF OneTenant
  <2>2. t \in LoginRows(email)
    BY <1>2, <2>1
  <2>3. ASSUME NEW u \in LoginRows(email) PROVE u = t
    BY <1>4, <1>5, <2>1 DEF LoginRows
  <2> QED BY <2>2, <2>3
<1> QED BY <1>3, <1>4, <1>5 DEF VerifyPassword

----------------------------------------------------------------------------
(* Theorems *)

\* The invariant holds of any registrants, calls and keys.
THEOREM Invariance == Spec => []IInv
<1>1. Init => IInv
  <2> SUFFICES ASSUME Init PROVE IInv
    OBVIOUS
  <2>1. \A t \in tenants : t.owner = Zyla /\ t.email = Zyla
    BY DEF Init, ZylaRow
  <2>2. EmailInv
    BY <2>1 DEF EmailInv
  <2>3. OneTenant
    BY <2>1, AccountsAssumption DEF Init, OneTenant, Owns
  <2>4. RevokedEnds
    BY DEF Init, RevokedEnds
  <2> QED BY <2>2, <2>3, <2>4, InitTyped DEF IInv
<1>2. IInv /\ [Next]_vars => IInv'
  BY StepTyped, RevokedStep, EmailStep, OneTenantStep DEF IInv
<1> QED BY <1>1, <1>2, PTL DEF Spec

\* The type invariant, the uniqueness of slugs included: concurrent
\* registrations of one name leave one tenant under each slug (main.py,
\* register), and the marketplace has one (zyla.py, ensure_zyla_tenant).
THEOREM TypeCorrect == Spec => []TypeOK
<1>1. IInv => TypeOK
  BY DEF IInv
<1> QED BY <1>1, Invariance, PTL

\* A revoked key stays revoked and serves only the calls that had loaded it
\* before (main.py, revoke_key; security.py, get_auth_context).
THEOREM RevocationHolds == Spec => []RevokedEnds
<1>1. IInv => RevokedEnds
  BY DEF IInv
<1> QED BY <1>1, Invariance, PTL

\* Who was told of a registration finds a row of theirs however the email is
\* spelt; who shares the email with nobody is never refused, and logs in to
\* that tenant if no earlier answer was lost (main.py, register, login).
THEOREM LoginsExplained == Spec => []LoginExplained
<1>1. IInv => LoginExplained
  BY LoginFollows DEF IInv
<1> QED BY <1>1, Invariance, PTL
=============================================================================
