------------------------------ MODULE Accounts ------------------------------
(***************************************************************************)
(* Tenants, their users and their API keys (app/main.py, app/security.py,   *)
(* app/zyla.py) in PostgreSQL under READ COMMITTED: a request reads in one   *)
(* statement and writes in a later one, and others commit in between.       *)
(* Clients repeat a registration or a marketplace search that failed.       *)
(* Credits are in CreditTransactions.                                       *)
(***************************************************************************)
EXTENDS Naturals, FiniteSets

CONSTANTS
  Registrants,   \* people who register a tenant
  Zyla,          \* the marketplace adapter, which provisions its own
  MarketCalls,   \* requests to the marketplace endpoints
  Keys, Calls,   \* API keys and the requests that use them
  NoKey,         \* what an idle call holds
  NameSlug,      \* the slug of a registrant's tenant_name, before any suffix
  ZylaSlug,      \* ZYLA_TENANT_SLUG
  EarlierSlugs,  \* what ZYLA_TENANT_SLUG may have been in an earlier deployment
  Tight,         \* slugs of 112 to 120 characters, which leave no room for a suffix
  TooLong,       \* slugs that String(120) does not take
  Spellings,     \* the spellings of an email its owner may type
  Normal,        \* strip().lower(), for each spelling
  KeyOwner,      \* the registrant that creates and revokes each key
  MaxLost        \* bound on the answers to register that are lost

ASSUME AccountsAssumption ==
  /\ Zyla \notin Registrants
  /\ KeyOwner \in [Keys -> Registrants]
  /\ MaxLost \in Nat
  /\ NoKey \notin Keys
  /\ ({ZylaSlug} \cup EarlierSlugs) \cap TooLong = {}   \* settings.validate

\* What a registrant types are spellings of one email.  The marketplace
\* tenant has no user; Zyla stands for the email it does not have.
ASSUME SpellingsAssumption ==
  \A r \in Registrants : \A a, b \in Spellings[r] :
    Normal[a] = Normal[b] /\ Normal[a] # Zyla

VARIABLES
  tenants,   \* rows: owner, slug, and the email of the user that came with it
  reg,       \* each registrant's request: idle, plain, suffixed, registered
  lost,      \* answers to register that were lost, for each registrant
  market,    \* each marketplace call: idle, absent, free, served
  zylaStatus,  \* status in the row of the marketplace tenant, once there is one
  keys,      \* status of each key's row, or absent
  calls,     \* what each call holds: a key it has loaded, or serves under
  admitted   \* history: {} before a key's revocation, then the set of the calls it then had, in a set

vars == <<tenants, reg, lost, market, zylaStatus, keys, calls, admitted>>
accounts == <<tenants, reg, lost, market, zylaStatus>>
marketVars == <<market, zylaStatus>>
keyVars == <<keys, calls, admitted>>

\* A suffix is uuid4().hex[:8]: never drawn twice.
Plain(base) == [base |-> base, suffix |-> <<>>]
Suffixed(base, r, n) == [base |-> base, suffix |-> <<r, n>>]

Taken(slug) == \E t \in tenants : t.slug = slug
Fits(slug) ==
  slug.base \notin TooLong /\ (slug.suffix # <<>> => slug.base \notin Tight)

NoKeyCall == [key |-> NoKey, at |-> "idle"]

\* The row under ZYLA_TENANT_ID.
ZylaRow(slug) == [owner |-> Zyla, slug |-> Plain(slug), email |-> Zyla]

\* A deployment starts without a marketplace tenant or with an earlier one's.
Init ==
  /\ tenants \in {{}} \cup {{ZylaRow(slug)} : slug \in EarlierSlugs}
  /\ zylaStatus = "ACTIVE"
  /\ reg = [r \in Registrants |-> "idle"]
  /\ lost = [r \in Registrants |-> 0]
  /\ market = [c \in MarketCalls |-> "idle"]
  /\ keys = [k \in Keys |-> "absent"]
  /\ calls = [c \in Calls |-> NoKeyCall]
  /\ admitted = [k \in Keys |-> {}]

(***************************************************************************)
(* Registration and login                                                  *)
(***************************************************************************)
\* Mutant: the slug is never given a suffix.
RegisterLookupPlain(r) ==
  /\ reg[r] = "idle" /\ reg' = [reg EXCEPT ![r] = "plain"]
  /\ UNCHANGED <<tenants, lost, marketVars, keyVars>>

RegisterLookup(r) ==
  /\ reg[r] = "idle"
  /\ reg' = [reg EXCEPT ![r] = IF Taken(Plain(NameSlug[r])) THEN "suffixed" ELSE "plain"]
  /\ UNCHANGED <<tenants, lost, marketVars, keyVars>>

SlugOf(r) ==
  IF reg[r] = "plain" THEN Plain(NameSlug[r]) ELSE Suffixed(NameSlug[r], r, lost[r])

\* Mutant: the column of the slug is not unique.
InsertableTwice(slug) == Fits(slug)
Insertable(slug) == ~Taken(slug) /\ Fits(slug)

Typed(email) == Normal[email]

Account(r, email) == [owner |-> r, slug |-> SlugOf(r), email |-> Typed(email)]

\* The tenant, its user and the grant are one transaction.
RegisterCommit(r) ==
  /\ reg[r] \in {"plain", "suffixed"} /\ Insertable(SlugOf(r))
  /\ \E email \in Spellings[r] : tenants' = tenants \cup {Account(r, email)}
  /\ reg' = [reg EXCEPT ![r] = "registered"]
  /\ UNCHANGED <<lost, marketVars, keyVars>>

\* The client never gets its token, and registers again.
RegisterReplyLost(r) ==
  /\ reg[r] \in {"plain", "suffixed"} /\ Insertable(SlugOf(r)) /\ lost[r] < MaxLost
  /\ \E email \in Spellings[r] : tenants' = tenants \cup {Account(r, email)}
  /\ reg' = [reg EXCEPT ![r] = "idle"]
  /\ lost' = [lost EXCEPT ![r] = @ + 1]
  /\ UNCHANGED <<marketVars, keyVars>>

\* IntegrityError or DataError at the flush, uncaught: 500, nothing stored.
RegisterRefused(r) ==
  /\ reg[r] \in {"plain", "suffixed"} /\ ~Insertable(SlugOf(r))
  /\ reg' = [reg EXCEPT ![r] = "idle"]
  /\ UNCHANGED <<tenants, lost, marketVars, keyVars>>

\* The transaction fails for another reason, or its process dies.
RegisterFails(r) ==
  /\ reg[r] \in {"plain", "suffixed"}
  /\ reg' = [reg EXCEPT ![r] = "idle"]
  /\ UNCHANGED <<tenants, lost, marketVars, keyVars>>

\* login reads one user by email, any of the rows there are, and writes nothing.
\* Mutant: the email is looked up as it was typed.
LoginRowsAsTyped(email) == {t \in tenants : t.email = email}
LoginRows(email) == {t \in tenants : t.email = Typed(email)}

\* Each registrant has a password of their own.
VerifyPassword(r, t) == t.owner = r

(***************************************************************************)
(* ensure_zyla_tenant                                                      *)
(***************************************************************************)
Step(c, from, to) ==
  /\ market[c] = from /\ market' = [market EXCEPT ![c] = to]
  /\ UNCHANGED <<reg, lost, zylaStatus, keyVars>>

Provisioned == \E t \in tenants : t.owner = Zyla

\* ZYLA_TENANT_ID has a row under another slug; its tenant is not ACTIVE.
Misassigned == \E t \in tenants : t.owner = Zyla /\ t.slug # Plain(ZylaSlug)
Suspended == zylaStatus # "ACTIVE"

\* Mutant: the tenant is only looked for by its slug.
ZylaLookupNever(c) == Step(c, "idle", "absent") /\ UNCHANGED tenants

\* CONFIGURATION_ERROR over the slug, then TENANT_SUSPENDED.
ZylaLookup(c) ==
  /\ Step(c, "idle", IF ~Provisioned THEN "absent"
                     ELSE IF Misassigned \/ Suspended THEN "idle" ELSE "served")
  /\ UNCHANGED tenants

\* CONFIGURATION_ERROR, also when another call has just provisioned it.
ZylaCheckSlug(c) ==
  /\ Step(c, "absent", IF Taken(Plain(ZylaSlug)) THEN "idle" ELSE "free")
  /\ UNCHANGED tenants

ZylaInsert(c) ==
  IF Provisioned \/ Taken(Plain(ZylaSlug))
  THEN Step(c, "free", "idle") /\ UNCHANGED tenants
  ELSE /\ Step(c, "free", "served")
       /\ tenants' = tenants \cup {ZylaRow(ZylaSlug)}

MarketFails(c) ==
  /\ market[c] \in {"absent", "free"}
  /\ market' = [market EXCEPT ![c] = "idle"]
  /\ UNCHANGED <<tenants, reg, lost, zylaStatus, keyVars>>

\* An operator suspends the tenant or puts it back: no endpoint does.
SetZylaStatus ==
  /\ Provisioned /\ zylaStatus' = IF Suspended THEN "ACTIVE" ELSE "SUSPENDED"
  /\ UNCHANGED <<tenants, reg, lost, market, keyVars>>

(***************************************************************************)
(* API keys                                                                *)
(***************************************************************************)
CreateKey(k) ==
  /\ keys[k] = "absent" /\ \E t \in tenants : t.owner = KeyOwner[k]
  /\ keys' = [keys EXCEPT ![k] = "ACTIVE"]
  /\ UNCHANGED <<calls, admitted, accounts>>

Holds(c, k, at) == calls[c] = [key |-> k, at |-> at]
Take(c, k, at) == calls' = [calls EXCEPT ![c] = [key |-> k, at |-> at]]

\* Mutant: the status of the key is not looked at.
LoadAnyKey(c, k) ==
  /\ calls[c] = NoKeyCall /\ keys[k] # "absent" /\ Take(c, k, "loaded")
  /\ UNCHANGED <<keys, admitted, accounts>>

LoadKey(c, k) ==
  /\ calls[c] = NoKeyCall /\ keys[k] = "ACTIVE" /\ Take(c, k, "loaded")
  /\ UNCHANGED <<keys, admitted, accounts>>

\* The UPDATE of last_used_at names no other column of the row.
\* Mutant: it writes the row back as it was loaded.
TouchRow(c, k) ==
  /\ Holds(c, k, "loaded") /\ Take(c, k, "serving")
  /\ keys' = [keys EXCEPT ![k] = "ACTIVE"]
  /\ UNCHANGED <<admitted, accounts>>

TouchKey(c, k) ==
  /\ Holds(c, k, "loaded") /\ Take(c, k, "serving")
  /\ UNCHANGED <<keys, admitted, accounts>>

\* The request ends, or its authentication fails in the database.
EndCall(c) ==
  /\ calls[c] # NoKeyCall /\ calls' = [calls EXCEPT ![c] = NoKeyCall]
  /\ UNCHANGED <<keys, admitted, accounts>>

Revoke(k) ==
  /\ keys[k] = "ACTIVE"
  /\ keys' = [keys EXCEPT ![k] = "REVOKED"]
  /\ admitted' = [admitted EXCEPT ![k] = {{c \in Calls : calls[c].key = k}}]
  /\ UNCHANGED <<calls, accounts>>

(***************************************************************************)
(* Specification                                                           *)
(***************************************************************************)
Register(r) ==
  \/ RegisterLookup(r) \/ RegisterCommit(r) \/ RegisterReplyLost(r)
  \/ RegisterRefused(r) \/ RegisterFails(r)
Market(c) == ZylaLookup(c) \/ ZylaCheckSlug(c) \/ ZylaInsert(c) \/ MarketFails(c)

Next ==
  \/ \E r \in Registrants : Register(r)
  \/ \E c \in MarketCalls : Market(c)
  \/ SetZylaStatus
  \/ \E k \in Keys : CreateKey(k) \/ Revoke(k)
  \/ \E c \in Calls, k \in Keys : LoadKey(c, k) \/ TouchKey(c, k)
  \/ \E c \in Calls : EndCall(c)

\* Clients try again and requests go on; a step that keeps being possible
\* does not fail each time.
Fairness ==
  /\ \A r \in Registrants :
       WF_vars(RegisterLookup(r)) /\ WF_vars(RegisterRefused(r)) /\ SF_vars(RegisterCommit(r))
  /\ \A c \in MarketCalls :
       WF_vars(ZylaLookup(c)) /\ SF_vars(ZylaCheckSlug(c)) /\ SF_vars(ZylaInsert(c))

Spec == Init /\ [][Next]_vars /\ Fairness

(***************************************************************************)
(* Properties                                                              *)
(***************************************************************************)
Owns(r) == \E t \in tenants : t.owner = r

\* The rows of tenants: each slug fits its column and is unique, and the
\* marketplace has one, under the configured slug or an earlier one.
TenantsOK ==
  /\ \A t \in tenants :
       /\ t.owner \in Registrants \cup {Zyla} /\ Fits(t.slug)
       /\ t.owner = Zyla => t.slug \in {Plain(s) : s \in {ZylaSlug} \cup EarlierSlugs}
  /\ \A t, u \in tenants : t.slug = u.slug \/ (t.owner = Zyla /\ u.owner = Zyla) => t = u

\* The type invariant.  A client that was told it is registered, and a
\* marketplace call that was served, have their tenant, the latter under the
\* configured slug.
TypeOK ==
  /\ TenantsOK
  /\ reg \in [Registrants -> {"idle", "plain", "suffixed", "registered"}]
  /\ \A r \in Registrants : reg[r] = "registered" => Owns(r)
  /\ lost \in [Registrants -> 0..MaxLost]
  /\ market \in [MarketCalls -> {"idle", "absent", "free", "served"}]
  /\ \A c \in MarketCalls : market[c] = "served" => Provisioned /\ ~Misassigned
  /\ zylaStatus \in {"ACTIVE", "SUSPENDED"}
  /\ keys \in [Keys -> {"absent", "ACTIVE", "REVOKED"}]
  /\ calls \in [Calls -> [key : Keys, at : {"loaded", "serving"}] \cup {NoKeyCall}]

\* Whoever got an answer to register has a row that login may find under any
\* spelling of the email.  The right password is refused only if another
\* registrant gave the same email: login then picks one of both's rows.  It
\* leads to a tenant other than the one that was answered only in that case,
\* or if an earlier answer was lost whose tenant is there too.
SharesEmail(r, email) ==
  \E o \in Registrants \ {r} :
    Owns(o) /\ \E other \in Spellings[o] : Normal[other] = Normal[email]

LoginExplained ==
  \A r \in Registrants : \A email \in Spellings[r] :
    reg[r] = "registered" =>
      /\ \E t \in LoginRows(email) : VerifyPassword(r, t)
      /\ ~SharesEmail(r, email) =>
           /\ \A t \in LoginRows(email) : VerifyPassword(r, t)
           /\ lost[r] = 0 => \E t \in tenants : LoginRows(email) = {t}

\* Once DELETE has answered, the key stays revoked, though calls that were
\* loaded before still write its row, and serves those calls only.
RevokedEnds ==
  \A k \in Keys : \A before \in admitted[k] :
    /\ keys[k] = "REVOKED"
    /\ \A c \in Calls : calls[c].key = k => c \in before

\* Who keeps trying is registered in the end, whoever else takes the name,
\* but for names whose slug the column cannot take: too long, or taken and
\* too long with a suffix, be it by the lost answer of the same client.
Hopeless(r) ==
  NameSlug[r] \in TooLong \/ (NameSlug[r] \in Tight /\ Taken(Plain(NameSlug[r])))
EveryoneRegisters == \A r \in Registrants : <>(reg[r] = "registered" \/ Hopeless(r))

\* Every marketplace call that is repeated is served in the end, also when
\* several provision the tenant at once, with three exceptions.  Somebody
\* registered a tenant under the marketplace slug first, or ZYLA_TENANT_ID has
\* the row of a deployment with another slug: then none ever is.  Or the
\* tenant is suspended, for good or again and again.
SlugBlocked == \E t \in tenants : t.owner # Zyla /\ t.slug = Plain(ZylaSlug)
MarketServed ==
  \A c \in MarketCalls :
    <>(market[c] = "served" \/ SlugBlocked \/ Misassigned) \/ []<>Suspended
=============================================================================
