----------------------------- MODULE MCAccounts -----------------------------
(* Accounts for TLC: two registrants share a name and an email, one takes the
   marketplace's name, whose slug leaves no room for a suffix, and one has a
   name that is too long.  An earlier deployment, if there was one, called the
   marketplace tenant what two registrants call theirs. *)
EXTENDS Accounts

CONSTANTS ann, bob, zoe, lea

MCNameSlug == [r \in Registrants |->
  IF r = zoe THEN "zyla" ELSE IF r = lea THEN "long" ELSE "acme"]
MCSpellings == [r \in Registrants |->
  IF r \in {ann, bob} THEN {"Info@acme", "info@acme"} ELSE {"me@here"}]
MCNormal == [e \in {"Info@acme", "info@acme", "me@here"} |->
  IF e = "Info@acme" THEN "info@acme" ELSE e]
MCKeyOwner == [k \in Keys |-> ann]
=============================================================================
