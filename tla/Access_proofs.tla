---------------------------- MODULE Access_proofs ---------------------------
(***************************************************************************)
(* Proofs about what clients meet at the door: the refresh tokens of       *)
(* module Sessions, for every set of browsers, accounts and refreshes in   *)
(* flight, any life of a token and any number of restarts; the token       *)
(* bucket of module RateLimit, for every rate, burst and sweep that        *)
(* refills what it drops; and the paged lists of module Listing, for any   *)
(* rows, limits and changes between two pages.                             *)
(*                                                                         *)
(* What carries the first is that a token issued once has one owner: the   *)
(* store, one jar, or the one refresh whose answer will bring it (Issued,  *)
(* OneJar, OnlyHere); the second, that a bucket holds what the tightest    *)
(* window of its client has left (RateInv); the third, that the cursor, or *)
(* the number of rows shown, divides the list (CursorInv, NumberInv).      *)
(***************************************************************************)
EXTENDS Sessions, RateLimit, Listing, FiniteSetTheorems, TLAPS

-----------------------------------------------------------------------------
\* Tokens and refreshes.

\* The fields of a refresh.
LEMMA RefreshFields ==
    ASSUME NEW x \in Refreshes
    PROVE  /\ x.jar \in Browsers /\ x.old \in RefreshTokens /\ x.new \in RefreshTokens
           /\ x.stage \in {"validated", "stored", "deleted"} /\ x # None
  BY SessionsAssumption DEF Refreshes

\* The sets of the history records.
LEMMA Histories ==
    ASSUME SessionsTypeOK
    PROVE  /\ minted.once \subseteq RefreshTokens /\ minted.again \subseteq RefreshTokens
           /\ excused.twice \subseteq RefreshTokens /\ excused.stale \subseteq RefreshTokens
  BY DEF SessionsTypeOK

\* A token of this second is one.
LEMMA Generated ==
    ASSUME SessionsTypeOK, NEW u \in Users
    PROVE  generateRefreshToken(u) \in RefreshTokens /\ generateRefreshToken(u) # None
  <1>1. generateRefreshToken(u) \in RefreshTokens
    BY DEF SessionsTypeOK, generateRefreshToken, RefreshTokens
  <1>2. QED
    BY <1>1, SessionsAssumption

\* Issuing a token: whatever was issued before and is not issued again is
\* another one.
LEMMA Minted ==
    ASSUME SessionsTypeOK, NEW tk \in RefreshTokens, Mint(tk)
    PROVE  /\ minted' \in [once : SUBSET RefreshTokens, again : SUBSET RefreshTokens]
           /\ minted'.once = minted.once \cup {tk} /\ minted.again \subseteq minted'.again
           /\ tk \in minted.once => tk \in minted'.again
  <1>1. minted.once \subseteq RefreshTokens /\ minted.again \subseteq RefreshTokens
    BY Histories
  <1>2. PICK once \in SUBSET RefreshTokens : once = minted.once \cup {tk}
    BY <1>1
  <1>3. PICK again \in SUBSET RefreshTokens : again = minted.again \cup ({tk} \cap minted.once)
    BY <1>1
  <1>4. minted' = [once |-> once, again |-> again]
    BY <1>2, <1>3 DEF Mint
  <1>5. QED
    BY <1>2, <1>3, <1>4

\* A refresh that goes one stage on is the refresh it was.
LEMMA NextStage ==
    ASSUME SessionsTypeOK, NEW r \in RefreshCalls, refresh[r] # None,
           NEW stage \in {"validated", "stored", "deleted"},
           refresh' = [refresh EXCEPT ![r].stage = stage]
    PROVE  /\ refresh' \in [RefreshCalls -> Refreshes \cup {None}]
           /\ refresh[r] \in Refreshes /\ refresh'[r] \in Refreshes
           /\ refresh'[r].jar = refresh[r].jar /\ refresh'[r].old = refresh[r].old
           /\ refresh'[r].new = refresh[r].new /\ refresh'[r].stage = stage
           /\ \A q \in RefreshCalls \ {r} : refresh'[q] = refresh[q]
           /\ \A q \in RefreshCalls : refresh'[q] # None <=> refresh[q] # None
           /\ \A q \in RefreshCalls : refresh[q] # None =>
                 /\ refresh'[q].jar = refresh[q].jar /\ refresh'[q].old = refresh[q].old
                 /\ refresh'[q].new = refresh[q].new
           /\ \A tk : {q \in RefreshCalls : refresh'[q] # None /\ refresh'[q].old = tk} = Refreshing(tk)
  <1>1. refresh \in [RefreshCalls -> Refreshes \cup {None}]
    BY DEF SessionsTypeOK
  <1>2. PICK x \in Refreshes : x = refresh[r]
    BY <1>1
  <1>3. [x EXCEPT !.stage = stage] \in Refreshes
    BY DEF Refreshes
  <1>4. PICK y \in Refreshes : y = [x EXCEPT !.stage = stage]
    BY <1>3
  <1>5. y.jar = x.jar /\ y.old = x.old /\ y.new = x.new /\ y.stage = stage
    BY <1>4 DEF Refreshes
  <1>6. refresh' = [refresh EXCEPT ![r] = y]
    BY <1>1, <1>2, <1>4
  <1>7. /\ refresh' \in [RefreshCalls -> Refreshes \cup {None}] /\ refresh'[r] = y
        /\ \A q \in RefreshCalls \ {r} : refresh'[q] = refresh[q]
    BY <1>1, <1>6
  <1>8. \A q \in RefreshCalls : refresh'[q] # None <=> refresh[q] # None
    BY <1>7, RefreshFields
  <1>9. \A q \in RefreshCalls : refresh[q] # None =>
           /\ refresh'[q].jar = refresh[q].jar /\ refresh'[q].old = refresh[q].old
           /\ refresh'[q].new = refresh[q].new
    BY <1>2, <1>5, <1>7
  <1>10. \A tk : {q \in RefreshCalls : refresh'[q] # None /\ refresh'[q].old = tk} = Refreshing(tk)
    BY <1>8, <1>9 DEF Refreshing
  <1>11. QED
    BY <1>2, <1>5, <1>7, <1>8, <1>9, <1>10

-----------------------------------------------------------------------------
\* One lemma per step.

LEMMA LoginStep ==
    ASSUME SessionsInv, NEW b \in Browsers, NEW u \in Users, LoginHandler(b, u)
    PROVE  SessionsInv'
  <1>1. SessionsTypeOK
    BY DEF SessionsInv
  <1>2. PICK tk \in RefreshTokens : tk = generateRefreshToken(u) /\ tk # None
    BY <1>1, Generated
  <1>3. /\ minted' \in [once : SUBSET RefreshTokens, again : SUBSET RefreshTokens]
        /\ minted'.once = minted.once \cup {tk} /\ minted.again \subseteq minted'.again
        /\ tk \in minted.once => tk \in minted'.again
    BY <1>1, <1>2, Minted DEF LoginHandler, Login
  <1>4. /\ tokens' = tokens \cup {tk} /\ cookie' = [cookie EXCEPT ![b] = tk]
        /\ UNCHANGED <<second, leaving, refresh, crashes, spent, excused>>
    BY <1>2 DEF LoginHandler, Login, TokensSet
  <1>5. /\ cookie' \in [Browsers -> RefreshTokens \cup {None}] /\ cookie'[b] = tk
        /\ \A d \in Browsers \ {b} : cookie'[d] = cookie[d]
    BY <1>1, <1>4 DEF SessionsTypeOK
  <1>6. \A x \in RefreshTokens : Refreshing(x)' = Refreshing(x)
    BY <1>4 DEF Refreshing
  <1>7. Issued /\ OneJar /\ DeadOnceDeleted /\ CookieGood /\ TokenSpentOnce
    BY DEF SessionsInv
  <1>8. SessionsTypeOK'
    BY <1>1, <1>3, <1>4, <1>5 DEF SessionsTypeOK
  <1>9. Issued'
    BY <1>3, <1>4, <1>5, <1>7 DEF Issued
  <1>10. OneJar'
    <2>1. ASSUME NEW c \in Browsers, NEW d \in Browsers, c # d, cookie'[c] # None, cookie'[c] = cookie'[d]
          PROVE  cookie'[c] \in minted'.again
      BY <1>3, <1>5, <1>7, <2>1 DEF OneJar, Issued
    <2>2. ASSUME NEW r \in RefreshCalls, NEW d \in Browsers, refresh[r] # None, d # refresh[r].jar,
                 cookie'[d] = refresh[r].old
          PROVE  refresh[r].old \in minted'.again
      BY <1>3, <1>5, <1>7, <2>2 DEF OneJar, Issued
    <2>3. QED
      BY <1>4, <2>1, <2>2 DEF OneJar
  <1>11. DeadOnceDeleted'
    BY <1>3, <1>4, <1>7 DEF DeadOnceDeleted, Issued, RefreshAt
  <1>12. CookieGood'
    BY <1>3, <1>4, <1>5, <1>7 DEF CookieGood, Refreshing, RefreshAt
  <1>13. TokenSpentOnce'
    BY <1>3, <1>4, <1>7 DEF TokenSpentOnce, Issued, Refreshing
  <1>14. ASSUME NEW r \in RefreshCalls PROVE OnlyHere(r)'
    <2>1. OnlyHere(r)
      BY DEF SessionsInv
    <2>2. QED
      BY <1>3, <1>4, <1>5, <1>7, <2>1 DEF OnlyHere, Issued, Refreshing
  <1>15. ASSUME NEW r \in RefreshCalls PROVE Rotation(r)'
    <2>1. Rotation(r)
      BY DEF SessionsInv
    <2>2. QED
      BY <1>3, <1>4, <2>1 DEF Rotation, Refreshing
  <1>16. QED
    BY <1>8, <1>9, <1>10, <1>11, <1>12, <1>13, <1>14, <1>15 DEF SessionsInv

LEMMA RefreshHandlerStep ==
    ASSUME SessionsInv, NEW r \in RefreshCalls, NEW b \in Browsers, RefreshHandler(r, b)
    PROVE  SessionsInv'
  <1>1. SessionsTypeOK
    BY DEF SessionsInv
  <1>2. PICK old \in RefreshTokens : old = cookie[b] /\ old \in tokens
    BY <1>1 DEF SessionsTypeOK, RefreshHandler, RefreshValidate, ValidateRefreshToken
  <1>3. PICK new \in RefreshTokens : new = generateRefreshToken(old.user)
    <2>1. old.user \in Users
      BY DEF RefreshTokens
    <2>2. QED
      BY <1>1, <2>1, Generated
  <1>4. PICK x \in Refreshes : /\ x = [jar |-> b, old |-> old, new |-> new, stage |-> "validated"]
                               /\ x.jar = b /\ x.old = old /\ x.new = new /\ x.stage = "validated"
    <2>1. [jar |-> b, old |-> old, new |-> new, stage |-> "validated"] \in Refreshes
      BY DEF Refreshes
    <2>2. QED
      BY <2>1
  <1>5. /\ minted' \in [once : SUBSET RefreshTokens, again : SUBSET RefreshTokens]
        /\ minted'.once = minted.once \cup {new} /\ minted.again \subseteq minted'.again
        /\ new \in minted.once => new \in minted'.again
    BY <1>1, <1>2, <1>3, Minted DEF RefreshHandler, RefreshValidate
  <1>6. /\ refresh[r] = None /\ refresh' = [refresh EXCEPT ![r] = x]
        /\ UNCHANGED <<second, tokens, cookie, leaving, crashes, spent>>
    BY <1>2, <1>3, <1>4 DEF RefreshHandler, RefreshValidate
  <1>7. /\ refresh' \in [RefreshCalls -> Refreshes \cup {None}] /\ refresh'[r] = x /\ x # None
        /\ \A q \in RefreshCalls \ {r} : refresh'[q] = refresh[q]
    BY <1>1, <1>6, RefreshFields DEF SessionsTypeOK
  <1>8. /\ excused' \in [twice : SUBSET RefreshTokens, stale : SUBSET RefreshTokens]
        /\ excused'.stale = excused.stale /\ excused.twice \subseteq excused'.twice
        /\ Refreshing(old) # {} => old \in excused'.twice
    <2>1. excused \in [twice : SUBSET RefreshTokens, stale : SUBSET RefreshTokens]
      BY <1>1 DEF SessionsTypeOK
    <2>2. CASE Refreshing(old) = {}
      BY <1>2, <2>1, <2>2 DEF RefreshHandler, RefreshValidate
    <2>3. CASE Refreshing(old) # {}
      <3>1. excused' = [excused EXCEPT !.twice = @ \cup {old}]
        BY <1>2, <2>3 DEF RefreshHandler, RefreshValidate
      <3>2. QED
        BY <2>1, <3>1
    <2>4. QED
      BY <2>2, <2>3
  <1>9. Issued /\ OneJar /\ DeadOnceDeleted /\ CookieGood /\ TokenSpentOnce
    BY DEF SessionsInv
  <1>10. /\ old \in minted.once
         /\ \A tk : Refreshing(tk) \subseteq {q \in RefreshCalls : refresh'[q] # None /\ refresh'[q].old = tk}
         /\ \A tk : {q \in RefreshCalls : refresh'[q] # None /\ refresh'[q].old = tk} \subseteq Refreshing(tk) \cup {r}
    BY <1>2, <1>6, <1>7, <1>9 DEF Issued, Refreshing
  <1>11. SessionsTypeOK'
    BY <1>1, <1>5, <1>6, <1>7, <1>8 DEF SessionsTypeOK
  <1>12. Issued'
    BY <1>4, <1>5, <1>6, <1>7, <1>9, <1>10 DEF Issued
  <1>13. OneJar'
    <2>1. ASSUME NEW q \in RefreshCalls, NEW d \in Browsers, refresh'[q] # None, d # refresh'[q].jar,
                 cookie[d] = refresh'[q].old
          PROVE  refresh'[q].old \in minted'.again
      <3>1. CASE q = r
        BY <1>2, <1>4, <1>5, <1>7, <1>9, <2>1, <3>1, SessionsAssumption DEF OneJar
      <3>2. CASE q # r
        BY <1>5, <1>7, <1>9, <2>1, <3>2 DEF OneJar
      <3>3. QED
        BY <3>1, <3>2
    <2>2. QED
      BY <1>5, <1>6, <1>9, <2>1 DEF OneJar
  <1>14. DeadOnceDeleted'
    BY <1>4, <1>5, <1>6, <1>7, <1>9 DEF DeadOnceDeleted, RefreshAt
  <1>15. CookieGood'
    <2>1. SUFFICES ASSUME NEW d \in Browsers, cookie[d] # None, cookie[d] \notin excused.stale \cup minted.again
                   PROVE  \/ cookie[d] \in tokens
                          \/ \E q \in RefreshCalls :
                                /\ refresh'[q] # None /\ refresh'[q].old = cookie[d]
                                /\ refresh'[q].jar = d /\ refresh'[q].stage = "deleted"
      BY <1>5, <1>6, <1>8 DEF CookieGood, Refreshing, RefreshAt
    <2>2. \/ cookie[d] \in tokens
          \/ \E q \in RefreshCalls : /\ refresh[q] # None /\ refresh[q].old = cookie[d]
                                     /\ refresh[q].jar = d /\ refresh[q].stage = "deleted"
      BY <1>9, <2>1 DEF CookieGood, Refreshing, RefreshAt
    <2>3. QED
      BY <1>6, <1>7, <2>2
  <1>16. TokenSpentOnce'
    <2>1. ASSUME NEW p \in spent, NEW q \in spent, p[1] = q[1], p[1] \notin excused.twice \cup minted.again
          PROVE  p = q /\ (p[1] \in tokens => Refreshing(p[1]) # {})
      BY <1>9, <2>1 DEF TokenSpentOnce
    <2>2. QED
      BY <1>5, <1>6, <1>8, <1>10, <2>1 DEF TokenSpentOnce, Refreshing
  <1>17. ASSUME NEW q \in RefreshCalls PROVE OnlyHere(q)'
    <2>1. CASE q = r
      <3>1. SUFFICES ASSUME new \notin minted.once
                     PROVE  /\ \A d \in Browsers : cookie[d] # new
                            /\ {s \in RefreshCalls : refresh'[s] # None /\ refresh'[s].old = new} = {}
                            /\ \A s \in RefreshCalls \ {r} : refresh'[s] # None => refresh'[s].new # new
                            /\ \A p \in spent : p[1] # new
        BY <1>4, <1>5, <1>6, <1>7, <2>1 DEF OnlyHere, Refreshing
      <3>2. \A d \in Browsers : cookie[d] # new
        BY <1>3, <1>9, <3>1, SessionsAssumption DEF Issued
      <3>3. \A s \in RefreshCalls \ {r} : refresh'[s] # None => refresh'[s].new # new /\ refresh'[s].old # new
        BY <1>7, <1>9, <3>1 DEF Issued
      <3>4. refresh'[r].old # new
        BY <1>4, <1>7, <1>10, <3>1
      <3>5. \A p \in spent : p[1] # new
        BY <1>9, <3>1 DEF Issued
      <3>6. QED
        BY <3>2, <3>3, <3>4, <3>5
    <2>2. CASE q # r
      <3>1. OnlyHere(q) /\ refresh'[q] = refresh[q]
        BY <1>7, <2>2 DEF SessionsInv
      <3>2. SUFFICES ASSUME refresh[q] # None, refresh[q].new \notin minted'.again
                     PROVE  /\ \A d \in Browsers : cookie[d] # refresh[q].new
                            /\ {s \in RefreshCalls : refresh'[s] # None /\ refresh'[s].old = refresh[q].new} = {}
                            /\ \A s \in RefreshCalls \ {q} : refresh'[s] # None => refresh'[s].new # refresh[q].new
                            /\ \A p \in spent : p[1] # refresh[q].new
                            /\ refresh[q].stage # "validated" => refresh[q].new \in tokens \cup excused.stale
        BY <1>6, <1>8, <3>1 DEF OnlyHere, Refreshing
      <3>3. /\ \A d \in Browsers : cookie[d] # refresh[q].new
            /\ Refreshing(refresh[q].new) = {}
            /\ \A s \in RefreshCalls \ {q} : refresh[s] # None => refresh[s].new # refresh[q].new
            /\ \A p \in spent : p[1] # refresh[q].new
            /\ refresh[q].stage # "validated" => refresh[q].new \in tokens \cup excused.stale
        BY <1>5, <3>1, <3>2 DEF OnlyHere
      <3>4. refresh[q].new \in minted.once /\ refresh[q].new # new
        BY <1>5, <1>9, <3>2 DEF Issued
      <3>5. old # refresh[q].new
        BY <1>2, <3>3
      <3>6. {s \in RefreshCalls : refresh'[s] # None /\ refresh'[s].old = refresh[q].new} = {}
        BY <1>4, <1>7, <3>3, <3>5 DEF Refreshing
      <3>7. \A s \in RefreshCalls \ {q} : refresh'[s] # None => refresh'[s].new # refresh[q].new
        BY <1>4, <1>7, <3>3, <3>4
      <3>8. QED
        BY <3>3, <3>6, <3>7
    <2>3. QED
      BY <2>1, <2>2
  <1>18. ASSUME NEW q \in RefreshCalls PROVE Rotation(q)'
    <2>1. SUFFICES ASSUME refresh'[q] # None, refresh'[q].old \notin excused'.twice \cup minted'.again
                   PROVE  /\ {s \in RefreshCalls : refresh'[s] # None /\ refresh'[s].old = refresh'[q].old} = {q}
                          /\ \A p \in spent : p[1] = refresh'[q].old =>
                                refresh'[q].stage # "validated" /\ p = <<refresh'[q].old, refresh'[q].new>>
      BY <1>6 DEF Rotation, Refreshing
    <2>2. CASE q = r
      <3>1. Refreshing(old) = {} /\ old \notin excused.twice \cup minted.again
        BY <1>4, <1>5, <1>7, <1>8, <2>1, <2>2
      <3>2. \A p \in spent : p[1] # old
        BY <1>2, <1>9, <3>1 DEF TokenSpentOnce
      <3>3. {s \in RefreshCalls : refresh'[s] # None /\ refresh'[s].old = old} = {r}
        BY <1>4, <1>7, <3>1 DEF Refreshing
      <3>4. QED
        BY <1>4, <1>7, <2>2, <3>2, <3>3
    <2>3. CASE q # r
      <3>1. Rotation(q) /\ refresh'[q] = refresh[q]
        BY <1>7, <2>3 DEF SessionsInv
      <3>2. /\ Refreshing(refresh[q].old) = {q}
            /\ \A p \in spent : p[1] = refresh[q].old =>
                  refresh[q].stage # "validated" /\ p = <<refresh[q].old, refresh[q].new>>
        BY <1>5, <1>8, <2>1, <3>1 DEF Rotation
      <3>3. refresh[q].old # old
        BY <1>8, <2>1, <3>1, <3>2
      <3>4. {s \in RefreshCalls : refresh'[s] # None /\ refresh'[s].old = refresh[q].old} = {q}
        BY <1>4, <1>7, <2>3, <3>2, <3>3 DEF Refreshing
      <3>5. QED
        BY <3>1, <3>2, <3>4
    <2>4. QED
      BY <2>2, <2>3
  <1>19. QED
    BY <1>11, <1>12, <1>13, <1>14, <1>15, <1>16, <1>17, <1>18 DEF SessionsInv

LEMMA RefreshSetStep ==
    ASSUME SessionsInv, NEW r \in RefreshCalls, RefreshSet(r)
    PROVE  SessionsInv'
  <1>1. SessionsTypeOK /\ Issued /\ OneJar /\ DeadOnceDeleted /\ CookieGood /\ TokenSpentOnce
    BY DEF SessionsInv
  <1>2. PICK x \in Refreshes : x = refresh[r] /\ x.stage = "validated" /\ x # None
    BY <1>1 DEF SessionsTypeOK, RefreshSet, RefreshAt
  <1>3. /\ refresh' = [refresh EXCEPT ![r].stage = "stored"] /\ tokens' = tokens \cup {x.new}
        /\ spent' = spent \cup {<<x.old, x.new>>}
        /\ UNCHANGED <<second, cookie, leaving, crashes, minted, excused>>
    BY <1>2 DEF RefreshSet, TokensSet
  <1>4. /\ refresh' \in [RefreshCalls -> Refreshes \cup {None}] /\ refresh'[r].stage = "stored"
        /\ \A q \in RefreshCalls \ {r} : refresh'[q] = refresh[q]
        /\ \A q \in RefreshCalls : refresh'[q] # None <=> refresh[q] # None
        /\ \A q \in RefreshCalls : refresh[q] # None =>
              /\ refresh'[q].jar = refresh[q].jar /\ refresh'[q].old = refresh[q].old
              /\ refresh'[q].new = refresh[q].new
        /\ \A tk : {q \in RefreshCalls : refresh'[q] # None /\ refresh'[q].old = tk} = Refreshing(tk)
    BY <1>1, <1>2, <1>3, NextStage
  <1>5. OnlyHere(r) /\ Rotation(r)
    BY DEF SessionsInv
  <1>6. x.new \notin minted.again =>
           /\ \A b \in Browsers : cookie[b] # x.new
           /\ Refreshing(x.new) = {}
           /\ \A q \in RefreshCalls \ {r} : refresh[q] # None => refresh[q].new # x.new
           /\ \A p \in spent : p[1] # x.new
    BY <1>2, <1>5 DEF OnlyHere
  <1>7. /\ x.old \in RefreshTokens /\ x.new \in RefreshTokens /\ r \in Refreshing(x.old)
    BY <1>2, RefreshFields DEF Refreshing
  <1>8. SessionsTypeOK'
    BY <1>1, <1>3, <1>4, <1>7 DEF SessionsTypeOK
  <1>9. x.old \in minted.once /\ x.new \in minted.once
    BY <1>1, <1>2 DEF Issued
  <1>10. Issued'
    BY <1>1, <1>3, <1>4, <1>9 DEF Issued
  <1>11. OneJar'
    BY <1>1, <1>3, <1>4 DEF OneJar
  <1>12. DeadOnceDeleted'
    <2>1. ASSUME NEW q \in RefreshCalls, refresh'[q] # None, refresh'[q].stage = "deleted",
                 refresh'[q].old \notin minted.again
          PROVE  refresh'[q].old \notin tokens'
      <3>1. q # r /\ refresh'[q] = refresh[q]
        BY <1>4, <2>1
      <3>2. refresh[q].old \notin tokens
        BY <1>1, <2>1, <3>1 DEF DeadOnceDeleted, RefreshAt
      <3>3. refresh[q].old # x.new
        BY <1>6, <2>1, <3>1 DEF Refreshing
      <3>4. QED
        BY <1>3, <3>1, <3>2, <3>3
    <2>2. QED
      BY <1>3, <2>1 DEF DeadOnceDeleted, RefreshAt
  <1>13. CookieGood'
    <2>1. SUFFICES ASSUME NEW d \in Browsers, cookie[d] # None, cookie[d] \notin excused.stale \cup minted.again
                   PROVE  \/ cookie[d] \in tokens'
                          \/ \E q \in RefreshCalls :
                                /\ refresh'[q] # None /\ refresh'[q].old = cookie[d]
                                /\ refresh'[q].jar = d /\ refresh'[q].stage = "deleted"
      BY <1>3 DEF CookieGood, Refreshing, RefreshAt
    <2>2. \/ cookie[d] \in tokens
          \/ \E q \in RefreshCalls : /\ refresh[q] # None /\ refresh[q].old = cookie[d]
                                     /\ refresh[q].jar = d /\ refresh[q].stage = "deleted"
      BY <1>1, <2>1 DEF CookieGood, Refreshing, RefreshAt
    <2>3. QED
      BY <1>2, <1>3, <1>4, <2>2
  <1>14. TokenSpentOnce'
    <2>1. SUFFICES ASSUME NEW p \in spent', NEW q \in spent', p[1] = q[1],
                          p[1] \notin excused.twice \cup minted.again
                   PROVE  p = q /\ (p[1] \in tokens' => Refreshing(p[1]) # {})
      BY <1>3, <1>4 DEF TokenSpentOnce, Refreshing
    <2>2. CASE p[1] = x.old
      <3>1. \A s \in spent : s[1] # x.old
        BY <1>2, <1>5, <2>1, <2>2 DEF Rotation
      <3>2. p = <<x.old, x.new>> /\ q = <<x.old, x.new>>
        BY <1>3, <2>1, <2>2, <3>1
      <3>3. QED
        BY <1>7, <2>2, <3>2
    <2>3. CASE p[1] # x.old
      <3>1. p \in spent /\ q \in spent
        BY <1>3, <2>1, <2>3
      <3>2. p[1] # x.new
        BY <1>6, <2>1, <3>1
      <3>3. QED
        BY <1>1, <1>3, <2>1, <3>1, <3>2 DEF TokenSpentOnce
    <2>4. QED
      BY <2>2, <2>3
  <1>15. ASSUME NEW q \in RefreshCalls PROVE OnlyHere(q)'
    <2>1. OnlyHere(q)
      BY DEF SessionsInv
    <2>2. SUFFICES ASSUME refresh[q] # None, refresh[q].new \notin minted.again
                   PROVE  /\ \A d \in Browsers : cookie[d] # refresh[q].new
                          /\ Refreshing(refresh[q].new) = {}
                          /\ \A s \in RefreshCalls \ {q} : refresh'[s] # None => refresh'[s].new # refresh[q].new
                          /\ \A p \in spent' : p[1] # refresh[q].new
                          /\ refresh'[q].stage # "validated" => refresh[q].new \in tokens' \cup excused.stale
      BY <1>3, <1>4 DEF OnlyHere, Refreshing
    <2>3. /\ \A d \in Browsers : cookie[d] # refresh[q].new
          /\ Refreshing(refresh[q].new) = {}
          /\ \A s \in RefreshCalls \ {q} : refresh[s] # None => refresh[s].new # refresh[q].new
          /\ \A p \in spent : p[1] # refresh[q].new
          /\ refresh[q].stage # "validated" => refresh[q].new \in tokens \cup excused.stale
      BY <2>1, <2>2 DEF OnlyHere
    <2>4. x.old # refresh[q].new
      BY <1>7, <2>3
    <2>5. \A p \in spent' : p[1] # refresh[q].new
      BY <1>3, <2>3, <2>4
    <2>6. refresh'[q].stage # "validated" => refresh[q].new \in tokens' \cup excused.stale
      BY <1>2, <1>3, <1>4, <2>3
    <2>7. QED
      BY <1>4, <2>3, <2>5, <2>6
  <1>16. ASSUME NEW q \in RefreshCalls PROVE Rotation(q)'
    <2>1. Rotation(q)
      BY DEF SessionsInv
    <2>2. SUFFICES ASSUME refresh[q] # None, refresh[q].old \notin excused.twice \cup minted.again
                   PROVE  /\ Refreshing(refresh[q].old) = {q}
                          /\ \A p \in spent' : p[1] = refresh[q].old =>
                                refresh'[q].stage # "validated" /\ p = <<refresh[q].old, refresh[q].new>>
      BY <1>3, <1>4 DEF Rotation, Refreshing
    <2>3. /\ Refreshing(refresh[q].old) = {q}
          /\ \A p \in spent : p[1] = refresh[q].old =>
                refresh[q].stage # "validated" /\ p = <<refresh[q].old, refresh[q].new>>
      BY <2>1, <2>2 DEF Rotation
    <2>4. CASE q = r
      BY <1>2, <1>3, <1>4, <2>3, <2>4
    <2>5. CASE q # r
      <3>1. x.old # refresh[q].old
        BY <1>7, <2>3, <2>5
      <3>2. QED
        BY <1>3, <1>4, <2>3, <2>5, <3>1
    <2>6. QED
      BY <2>4, <2>5
  <1>17. QED
    BY <1>8, <1>10, <1>11, <1>12, <1>13, <1>14, <1>15, <1>16 DEF SessionsInv

LEMMA RefreshDeleteStep ==
    ASSUME SessionsInv, NEW r \in RefreshCalls, RefreshDelete(r)
    PROVE  SessionsInv'
  <1>1. SessionsTypeOK /\ Issued /\ OneJar /\ DeadOnceDeleted /\ CookieGood /\ TokenSpentOnce
    BY DEF SessionsInv
  <1>2. PICK x \in Refreshes : x = refresh[r] /\ x.stage = "stored" /\ x # None
    BY <1>1 DEF SessionsTypeOK, RefreshDelete, RefreshAt
  <1>3. /\ refresh' = [refresh EXCEPT ![r].stage = "deleted"] /\ tokens' = tokens \ {x.old}
        /\ UNCHANGED <<second, cookie, leaving, crashes, minted, spent, excused>>
    BY <1>2 DEF RefreshDelete, TokensDelete
  <1>4. /\ refresh' \in [RefreshCalls -> Refreshes \cup {None}] /\ refresh'[r].stage = "deleted"
        /\ \A q \in RefreshCalls \ {r} : refresh'[q] = refresh[q]
        /\ \A q \in RefreshCalls : refresh'[q] # None <=> refresh[q] # None
        /\ \A q \in RefreshCalls : refresh[q] # None =>
              /\ refresh'[q].jar = refresh[q].jar /\ refresh'[q].old = refresh[q].old
              /\ refresh'[q].new = refresh[q].new
        /\ \A tk : {q \in RefreshCalls : refresh'[q] # None /\ refresh'[q].old = tk} = Refreshing(tk)
    BY <1>1, <1>2, <1>3, NextStage
  <1>5. r \in Refreshing(x.old)
    BY <1>2 DEF Refreshing
  <1>6. SessionsTypeOK' /\ Issued' /\ OneJar'
    BY <1>1, <1>3, <1>4 DEF SessionsTypeOK, Issued, OneJar
  <1>7. DeadOnceDeleted'
    BY <1>1, <1>2, <1>3, <1>4 DEF DeadOnceDeleted, RefreshAt
  <1>8. CookieGood'
    <2>1. SUFFICES ASSUME NEW d \in Browsers, cookie[d] # None, cookie[d] \notin excused.stale \cup minted.again
                   PROVE  \/ cookie[d] \in tokens'
                          \/ \E q \in RefreshCalls :
                                /\ refresh'[q] # None /\ refresh'[q].old = cookie[d]
                                /\ refresh'[q].jar = d /\ refresh'[q].stage = "deleted"
      BY <1>3 DEF CookieGood, Refreshing, RefreshAt
    <2>2. \/ cookie[d] \in tokens
          \/ \E q \in RefreshCalls : /\ refresh[q] # None /\ refresh[q].old = cookie[d]
                                     /\ refresh[q].jar = d /\ refresh[q].stage = "deleted"
      BY <1>1, <2>1 DEF CookieGood, Refreshing, RefreshAt
    <2>3. CASE cookie[d] = x.old
      <3>1. d = x.jar
        BY <1>1, <1>2, <2>1, <2>3 DEF OneJar
      <3>2. QED
        BY <1>2, <1>4, <2>3, <3>1
    <2>4. CASE cookie[d] # x.old
      BY <1>2, <1>3, <1>4, <2>2, <2>4
    <2>5. QED
      BY <2>3, <2>4
  <1>9. TokenSpentOnce'
    BY <1>1, <1>3, <1>4 DEF TokenSpentOnce, Refreshing
  <1>10. ASSUME NEW q \in RefreshCalls PROVE OnlyHere(q)'
    <2>1. OnlyHere(q)
      BY DEF SessionsInv
    <2>2. SUFFICES ASSUME refresh[q] # None, refresh[q].new \notin minted.again
                   PROVE  /\ \A d \in Browsers : cookie[d] # refresh[q].new
                          /\ Refreshing(refresh[q].new) = {}
                          /\ \A s \in RefreshCalls \ {q} : refresh'[s] # None => refresh'[s].new # refresh[q].new
                          /\ \A p \in spent : p[1] # refresh[q].new
                          /\ refresh'[q].stage # "validated" => refresh[q].new \in tokens' \cup excused.stale
      BY <1>3, <1>4 DEF OnlyHere, Refreshing
    <2>3. /\ \A d \in Browsers : cookie[d] # refresh[q].new
          /\ Refreshing(refresh[q].new) = {}
          /\ \A s \in RefreshCalls \ {q} : refresh[s] # None => refresh[s].new # refresh[q].new
          /\ \A p \in spent : p[1] # refresh[q].new
          /\ refresh[q].stage # "validated" => refresh[q].new \in tokens \cup excused.stale
      BY <2>1, <2>2 DEF OnlyHere
    <2>4. x.old # refresh[q].new
      BY <1>5, <2>3
    <2>5. refresh'[q].stage # "validated" => refresh[q].new \in tokens' \cup excused.stale
      BY <1>2, <1>3, <1>4, <2>3, <2>4
    <2>6. QED
      BY <1>4, <2>3, <2>5
  <1>11. ASSUME NEW q \in RefreshCalls PROVE Rotation(q)'
    <2>1. Rotation(q)
      BY DEF SessionsInv
    <2>2. SUFFICES ASSUME refresh[q] # None, refresh[q].old \notin excused.twice \cup minted.again
                   PROVE  /\ Refreshing(refresh[q].old) = {q}
                          /\ \A p \in spent : p[1] = refresh[q].old =>
                                refresh'[q].stage # "validated" /\ p = <<refresh[q].old, refresh[q].new>>
      BY <1>3, <1>4 DEF Rotation, Refreshing
    <2>3. QED
      BY <1>4, <2>1, <2>2 DEF Rotation
  <1>12. QED
    BY <1>6, <1>7, <1>8, <1>9, <1>10, <1>11 DEF SessionsInv

LEMMA RefreshAnswerStep ==
    ASSUME SessionsInv, NEW r \in RefreshCalls, NEW arrives \in BOOLEAN, RefreshAnswer(r, arrives)
    PROVE  SessionsInv'
  <1>1. SessionsTypeOK /\ Issued /\ OneJar /\ DeadOnceDeleted /\ CookieGood /\ TokenSpentOnce
    BY DEF SessionsInv
  <1>2. PICK x \in Refreshes : x = refresh[r] /\ x.stage = "deleted" /\ x # None
    BY <1>1 DEF SessionsTypeOK, RefreshAnswer, RefreshAt
  <1>3. /\ refresh' = [refresh EXCEPT ![r] = None]
        /\ UNCHANGED <<second, tokens, leaving, crashes, minted, spent>>
    BY DEF RefreshAnswer
  <1>4. x.jar \in Browsers /\ x.old \in RefreshTokens /\ x.new \in RefreshTokens
    BY RefreshFields
  <1>5. /\ refresh' \in [RefreshCalls -> Refreshes \cup {None}] /\ refresh'[r] = None
        /\ \A q \in RefreshCalls \ {r} : refresh'[q] = refresh[q]
    BY <1>1, <1>3 DEF SessionsTypeOK
  <1>6. /\ cookie' \in [Browsers -> RefreshTokens \cup {None}]
        /\ \A d \in Browsers \ {x.jar} : cookie'[d] = cookie[d]
        /\ cookie'[x.jar] = cookie[x.jar] \/ cookie'[x.jar] = x.new
        /\ excused' \in [twice : SUBSET RefreshTokens, stale : SUBSET RefreshTokens]
        /\ excused'.twice = excused.twice /\ excused.stale \subseteq excused'.stale
        /\ cookie'[x.jar] = x.new \/ x.old \in excused'.stale
    <2>1. /\ cookie \in [Browsers -> RefreshTokens \cup {None}]
          /\ excused \in [twice : SUBSET RefreshTokens, stale : SUBSET RefreshTokens]
      BY <1>1 DEF SessionsTypeOK
    <2>2. CASE arrives
      <3>1. cookie' = [cookie EXCEPT ![x.jar] = x.new] /\ excused' = excused
        BY <1>2, <2>2 DEF RefreshAnswer
      <3>2. QED
        BY <1>4, <2>1, <3>1
    <2>3. CASE ~arrives
      <3>1. cookie' = cookie /\ excused' = [excused EXCEPT !.stale = @ \cup {x.old}]
        BY <1>2, <2>3 DEF RefreshAnswer
      <3>2. QED
        BY <1>4, <2>1, <3>1
    <2>4. QED
      BY <2>2, <2>3
  <1>7. x.new \notin minted.again =>
           /\ \A b \in Browsers : cookie[b] # x.new
           /\ Refreshing(x.new) = {}
           /\ \A q \in RefreshCalls \ {r} : refresh[q] # None => refresh[q].new # x.new
           /\ \A p \in spent : p[1] # x.new
           /\ x.new \in tokens \cup excused.stale
    <2>1. OnlyHere(r)
      BY DEF SessionsInv
    <2>2. QED
      BY <1>2, <2>1 DEF OnlyHere
  <1>8. SessionsTypeOK'
    BY <1>1, <1>3, <1>5, <1>6 DEF SessionsTypeOK
  <1>9. x.new \in minted.once
    BY <1>1, <1>2 DEF Issued
  <1>10. Issued'
    BY <1>1, <1>3, <1>5, <1>6, <1>9 DEF Issued
  <1>11. OneJar'
    <2>1. ASSUME NEW b \in Browsers, NEW d \in Browsers, b # d, cookie'[b] # None, cookie'[b] = cookie'[d]
          PROVE  cookie'[b] \in minted.again
      BY <1>1, <1>6, <1>7, <2>1 DEF OneJar
    <2>2. ASSUME NEW q \in RefreshCalls, NEW d \in Browsers, refresh'[q] # None, d # refresh'[q].jar,
                 cookie'[d] = refresh'[q].old
          PROVE  refresh'[q].old \in minted.again
      <3>1. q # r /\ refresh'[q] = refresh[q]
        BY <1>5, <2>2
      <3>2. CASE cookie'[d] = cookie[d]
        BY <1>1, <2>2, <3>1, <3>2 DEF OneJar
      <3>3. CASE cookie'[d] = x.new
        <4>1. q \in Refreshing(x.new)
          BY <2>2, <3>1, <3>3 DEF Refreshing
        <4>2. QED
          BY <1>7, <2>2, <3>1, <3>3, <4>1
      <3>4. QED
        BY <1>6, <3>2, <3>3
    <2>3. QED
      BY <1>3, <2>1, <2>2 DEF OneJar
  <1>12. DeadOnceDeleted'
    BY <1>1, <1>3, <1>5 DEF DeadOnceDeleted, RefreshAt
  <1>13. CookieGood'
    <2>1. SUFFICES ASSUME NEW d \in Browsers, cookie'[d] # None, cookie'[d] \notin excused'.stale \cup minted.again
                   PROVE  \/ cookie'[d] \in tokens
                          \/ \E q \in RefreshCalls :
                                /\ refresh'[q] # None /\ refresh'[q].old = cookie'[d]
                                /\ refresh'[q].jar = d /\ refresh'[q].stage = "deleted"
      BY <1>3 DEF CookieGood, Refreshing, RefreshAt
    <2>2. CASE cookie'[d] = x.new
      BY <1>6, <1>7, <2>1, <2>2
    <2>3. CASE cookie'[d] # x.new
      <3>1. cookie'[d] = cookie[d]
        BY <1>6, <2>3
      <3>2. \/ cookie[d] \in tokens
            \/ \E q \in RefreshCalls : /\ refresh[q] # None /\ refresh[q].old = cookie[d]
                                       /\ refresh[q].jar = d /\ refresh[q].stage = "deleted"
        BY <1>1, <1>6, <2>1, <3>1 DEF CookieGood, Refreshing, RefreshAt
      <3>3. ~(x.old = cookie[d] /\ x.jar = d)
        BY <1>6, <2>1, <2>3, <3>1
      <3>4. QED
        BY <1>2, <1>5, <3>1, <3>2, <3>3
    <2>4. QED
      BY <2>2, <2>3
  <1>14. TokenSpentOnce'
    <2>1. SUFFICES ASSUME NEW p \in spent, NEW q \in spent, p[1] = q[1],
                          p[1] \notin excused.twice \cup minted.again
                   PROVE  p = q /\ (p[1] \in tokens => \E s \in RefreshCalls : refresh'[s] # None /\ refresh'[s].old = p[1])
      BY <1>3, <1>6 DEF TokenSpentOnce, Refreshing
    <2>2. p = q /\ (p[1] \in tokens => \E s \in RefreshCalls : refresh[s] # None /\ refresh[s].old = p[1])
      BY <1>1, <2>1 DEF TokenSpentOnce, Refreshing
    <2>3. p[1] = x.old => p[1] \notin tokens
      BY <1>1, <1>2, <2>1 DEF DeadOnceDeleted, RefreshAt
    <2>4. QED
      BY <1>2, <1>5, <2>2, <2>3
  <1>15. ASSUME NEW q \in RefreshCalls PROVE OnlyHere(q)'
    <2>1. OnlyHere(q)
      BY DEF SessionsInv
    <2>2. SUFFICES ASSUME q # r, refresh[q] # None, refresh[q].new \notin minted.again
                   PROVE  /\ \A d \in Browsers : cookie'[d] # refresh[q].new
                          /\ \A s \in RefreshCalls : refresh'[s] # None => refresh'[s].old # refresh[q].new
                          /\ \A s \in RefreshCalls \ {q} : refresh'[s] # None => refresh'[s].new # refresh[q].new
                          /\ \A p \in spent : p[1] # refresh[q].new
                          /\ refresh[q].stage # "validated" => refresh[q].new \in tokens \cup excused'.stale
      BY <1>3, <1>5 DEF OnlyHere, Refreshing
    <2>3. /\ \A d \in Browsers : cookie[d] # refresh[q].new
          /\ \A s \in RefreshCalls : refresh[s] # None => refresh[s].old # refresh[q].new
          /\ \A s \in RefreshCalls \ {q} : refresh[s] # None => refresh[s].new # refresh[q].new
          /\ \A p \in spent : p[1] # refresh[q].new
          /\ refresh[q].stage # "validated" => refresh[q].new \in tokens \cup excused.stale
      BY <2>1, <2>2 DEF OnlyHere, Refreshing
    <2>4. x.new # refresh[q].new
      BY <1>2, <2>2, <2>3
    <2>5. \A d \in Browsers : cookie'[d] # refresh[q].new
      BY <1>6, <2>3, <2>4
    <2>6. QED
      BY <1>5, <1>6, <2>3, <2>5
  <1>16. ASSUME NEW q \in RefreshCalls PROVE Rotation(q)'
    <2>1. Rotation(q)
      BY DEF SessionsInv
    <2>2. SUFFICES ASSUME q # r, refresh'[q] = refresh[q], refresh[q] # None,
                          refresh[q].old \notin excused.twice \cup minted.again
                   PROVE  /\ {s \in RefreshCalls : refresh'[s] # None /\ refresh'[s].old = refresh[q].old} = {q}
                          /\ \A p \in spent : p[1] = refresh[q].old =>
                                refresh[q].stage # "validated" /\ p = <<refresh[q].old, refresh[q].new>>
      BY <1>3, <1>5, <1>6 DEF Rotation, Refreshing
    <2>3. /\ {s \in RefreshCalls : refresh[s] # None /\ refresh[s].old = refresh[q].old} = {q}
          /\ \A p \in spent : p[1] = refresh[q].old =>
                refresh[q].stage # "validated" /\ p = <<refresh[q].old, refresh[q].new>>
      BY <2>1, <2>2 DEF Rotation, Refreshing
    <2>4. {s \in RefreshCalls : refresh'[s] # None /\ refresh'[s].old = refresh[q].old} = {q}
      BY <1>5, <2>2, <2>3
    <2>5. QED
      BY <2>3, <2>4
  <1>17. QED
    BY <1>8, <1>10, <1>11, <1>12, <1>13, <1>14, <1>15, <1>16 DEF SessionsInv

LEMMA LogoutStep ==
    ASSUME SessionsInv, NEW b \in Browsers, LogoutHandler(b)
    PROVE  SessionsInv'
  <1>1. SessionsTypeOK /\ Issued /\ OneJar /\ DeadOnceDeleted /\ CookieGood /\ TokenSpentOnce
    BY DEF SessionsInv
  <1>2. PICK tk \in RefreshTokens : tk = cookie[b]
    BY <1>1 DEF SessionsTypeOK, LogoutHandler
  <1>3. /\ tokens' = tokens \ {tk} /\ leaving' = leaving \cup {b}
        /\ UNCHANGED <<second, cookie, refresh, crashes, minted, spent>>
    BY <1>2 DEF LogoutHandler, Logout, TokensDelete
  <1>4. /\ excused' \in [twice : SUBSET RefreshTokens, stale : SUBSET RefreshTokens]
        /\ excused'.twice = excused.twice /\ excused'.stale = excused.stale \cup {tk}
    <2>1. excused \in [twice : SUBSET RefreshTokens, stale : SUBSET RefreshTokens]
      BY <1>1 DEF SessionsTypeOK
    <2>2. excused' = [excused EXCEPT !.stale = @ \cup {tk}]
      BY <1>2 DEF LogoutHandler
    <2>3. QED
      BY <2>1, <2>2
  <1>5. SessionsTypeOK' /\ Issued' /\ OneJar'
    BY <1>1, <1>3, <1>4 DEF SessionsTypeOK, Issued, OneJar
  <1>6. DeadOnceDeleted' /\ TokenSpentOnce'
    BY <1>1, <1>3, <1>4 DEF DeadOnceDeleted, TokenSpentOnce, RefreshAt, Refreshing
  <1>7. CookieGood'
    BY <1>1, <1>3, <1>4 DEF CookieGood, Refreshing, RefreshAt
  <1>8. ASSUME NEW r \in RefreshCalls PROVE OnlyHere(r)' /\ Rotation(r)'
    <2>1. OnlyHere(r) /\ Rotation(r)
      BY DEF SessionsInv
    <2>2. OnlyHere(r)'
      BY <1>3, <1>4, <2>1 DEF OnlyHere, Refreshing
    <2>3. Rotation(r)'
      BY <1>3, <1>4, <2>1 DEF Rotation, Refreshing
    <2>4. QED
      BY <2>2, <2>3
  <1>9. QED
    BY <1>5, <1>6, <1>7, <1>8 DEF SessionsInv

LEMMA LogoutAnswerStep ==
    ASSUME SessionsInv, NEW b \in Browsers, NEW arrives \in BOOLEAN, LogoutAnswer(b, arrives)
    PROVE  SessionsInv'
  <1>1. SessionsTypeOK /\ Issued /\ OneJar /\ DeadOnceDeleted /\ CookieGood /\ TokenSpentOnce
    BY DEF SessionsInv
  <1>2. /\ leaving' = leaving \ {b}
        /\ UNCHANGED <<second, tokens, refresh, crashes, minted, spent, excused>>
    BY DEF LogoutAnswer
  <1>3. /\ cookie' \in [Browsers -> RefreshTokens \cup {None}]
        /\ \A d \in Browsers : cookie'[d] \in {None, cookie[d]}
    BY <1>1 DEF SessionsTypeOK, LogoutAnswer
  <1>4. ASSUME NEW r \in RefreshCalls, refresh[r] # None
        PROVE  refresh[r].old # None /\ refresh[r].new # None
    <2>1. refresh[r] \in Refreshes
      BY <1>1, <1>4 DEF SessionsTypeOK
    <2>2. QED
      BY <2>1, RefreshFields, SessionsAssumption
  <1>5. SessionsTypeOK' /\ Issued'
    BY <1>1, <1>2, <1>3 DEF SessionsTypeOK, Issued
  <1>6. OneJar'
    BY <1>1, <1>2, <1>3, <1>4 DEF OneJar
  <1>7. DeadOnceDeleted' /\ TokenSpentOnce'
    BY <1>1, <1>2 DEF DeadOnceDeleted, TokenSpentOnce, RefreshAt, Refreshing
  <1>8. CookieGood'
    BY <1>1, <1>2, <1>3 DEF CookieGood, Refreshing, RefreshAt
  <1>9. ASSUME NEW r \in RefreshCalls PROVE OnlyHere(r)' /\ Rotation(r)'
    <2>1. OnlyHere(r) /\ Rotation(r)
      BY DEF SessionsInv
    <2>2. OnlyHere(r)'
      BY <1>2, <1>3, <1>4, <2>1 DEF OnlyHere, Refreshing
    <2>3. Rotation(r)'
      BY <1>2, <2>1 DEF Rotation, Refreshing
    <2>4. QED
      BY <2>2, <2>3
  <1>10. QED
    BY <1>5, <1>6, <1>7, <1>8, <1>9 DEF SessionsInv

LEMMA CrashStep ==
    ASSUME SessionsInv, SessionCrash
    PROVE  SessionsInv'
  <1>1. SessionsTypeOK /\ Issued /\ OneJar /\ DeadOnceDeleted /\ CookieGood /\ TokenSpentOnce
    BY DEF SessionsInv
  <1>2. PICK stale \in SUBSET RefreshTokens :
           stale = excused.stale \cup tokens \cup {tk \in RefreshTokens : Refreshing(tk) # {}}
    BY <1>1, Histories DEF SessionsTypeOK
  <1>3. /\ tokens' = {} /\ leaving' = {} /\ refresh' = [r \in RefreshCalls |-> None]
        /\ UNCHANGED <<second, cookie, minted, spent>>
    BY DEF SessionCrash
  <1>4. /\ excused' \in [twice : SUBSET RefreshTokens, stale : SUBSET RefreshTokens]
        /\ excused'.twice = excused.twice /\ excused'.stale = stale
    <2>1. excused \in [twice : SUBSET RefreshTokens, stale : SUBSET RefreshTokens]
      BY <1>1 DEF SessionsTypeOK
    <2>2. excused' = [excused EXCEPT !.stale = @ \cup tokens \cup {tk \in RefreshTokens : Refreshing(tk) # {}}]
      BY DEF SessionCrash
    <2>3. excused' = [excused EXCEPT !.stale = stale]
      BY <1>2, <2>1, <2>2
    <2>4. QED
      BY <2>1, <2>3
  <1>5. SessionsTypeOK' /\ Issued' /\ OneJar' /\ DeadOnceDeleted'
    BY <1>1, <1>3, <1>4 DEF SessionsTypeOK, Issued, OneJar, DeadOnceDeleted, RefreshAt
  <1>6. CookieGood'
    <2>1. ASSUME NEW b \in Browsers, cookie[b] # None, cookie[b] \notin minted.again
          PROVE  cookie[b] \in stale
      <3>1. cookie[b] \in RefreshTokens
        BY <1>1, <2>1 DEF SessionsTypeOK
      <3>2. QED
        BY <1>1, <1>2, <2>1, <3>1 DEF CookieGood
    <2>2. QED
      BY <1>3, <1>4, <2>1 DEF CookieGood
  <1>7. TokenSpentOnce'
    BY <1>1, <1>3, <1>4 DEF TokenSpentOnce
  <1>8. \A r \in RefreshCalls : OnlyHere(r)' /\ Rotation(r)'
    BY <1>3 DEF OnlyHere, Rotation
  <1>9. QED
    BY <1>5, <1>6, <1>7, <1>8 DEF SessionsInv

\* The clock, and a step that changes nothing.
LEMMA SecondStep ==
    ASSUME SessionsInv, second' \in 0..MaxSecond,
           UNCHANGED <<tokens, cookie, leaving, refresh, minted, spent, excused>>
    PROVE  SessionsInv'
  <1>1. SessionsTypeOK'
    BY DEF SessionsInv, SessionsTypeOK
  <1>2. /\ Issued' /\ OneJar' /\ DeadOnceDeleted' /\ CookieGood' /\ TokenSpentOnce'
        /\ \A r \in RefreshCalls : OnlyHere(r)' /\ Rotation(r)'
    BY DEF SessionsInv, Issued, OneJar, DeadOnceDeleted, CookieGood, TokenSpentOnce, OnlyHere, Rotation,
       Refreshing, RefreshAt
  <1>3. QED
    BY <1>1, <1>2 DEF SessionsInv

-----------------------------------------------------------------------------
\* The theorems about sessions.

LEMMA SessionsStepInv == SessionsInv /\ [SessionsNext]_sessionVars => SessionsInv'
  <1>1. SUFFICES ASSUME SessionsInv, [SessionsNext]_sessionVars PROVE SessionsInv'
    OBVIOUS
  <1>2. second \in 0..MaxSecond
    BY <1>1 DEF SessionsInv, SessionsTypeOK
  <1>3. CASE UNCHANGED sessionVars
    BY <1>1, <1>2, <1>3, SecondStep DEF sessionVars
  <1>4. CASE Tick
    <2>1. second' \in 0..MaxSecond
      BY <1>2, <1>4, SessionsAssumption DEF Tick
    <2>2. QED
      BY <1>1, <1>4, <2>1, SecondStep DEF Tick
  <1>5. CASE SessionsNext /\ ~Tick
    BY <1>1, <1>5, CrashStep, LoginStep, RefreshHandlerStep, LogoutStep, LogoutAnswerStep,
       RefreshSetStep, RefreshDeleteStep, RefreshAnswerStep DEF SessionsNext
  <1>6. QED
    BY <1>1, <1>3, <1>4, <1>5

\* A token issued once has one owner, in every reachable state.
THEOREM SessionsInvariant == SessionsSpec => []SessionsInv
  <1>1. SessionsInit => SessionsInv
    <2>1. SUFFICES ASSUME SessionsInit PROVE SessionsInv
      OBVIOUS
    <2>2. SessionsTypeOK
      BY <2>1, SessionsAssumption DEF SessionsInit, SessionsTypeOK
    <2>3. /\ Issued /\ OneJar /\ DeadOnceDeleted /\ CookieGood /\ TokenSpentOnce
          /\ \A r \in RefreshCalls : OnlyHere(r) /\ Rotation(r)
      BY <2>1 DEF SessionsInit, Issued, OneJar, DeadOnceDeleted, CookieGood, TokenSpentOnce, OnlyHere,
         Rotation, Refreshing, RefreshAt
    <2>4. QED
      BY <2>2, <2>3 DEF SessionsInv
  <1>2. QED
    BY <1>1, SessionsStepInv, PTL DEF SessionsSpec

\* A refresh token is exchanged for one successor and is dead by then, but for
\* refreshes that present it at once and for tokens issued twice.
THEOREM SpentOnce == SessionsSpec => []TokenSpentOnce
  <1>1. SessionsInv => TokenSpentOnce
    BY DEF SessionsInv
  <1>2. QED
    BY <1>1, SessionsInvariant, PTL

\* Nobody is logged out by chance.
THEOREM CookieWorks == SessionsSpec => []UndisturbedCookieWorks
  <1>1. SessionsInv => UndisturbedCookieWorks
    BY DEF SessionsInv, CookieGood, UndisturbedCookieWorks, ValidateRefreshToken
  <1>2. QED
    BY <1>1, SessionsInvariant, PTL

-----------------------------------------------------------------------------
\* The token bucket.

\* A product of naturals is one, and grows with its factors.
LEMMA Products ==
    ASSUME NEW a \in Nat, NEW b \in Nat, NEW c \in Nat, b <= c
    PROVE  /\ a * b \in Nat /\ b * a \in Nat
           /\ b * a <= c * a /\ a * b <= a * c
  OBVIOUS

\* One more of the second factor.
LEMMA Distribute ==
    ASSUME NEW a \in Int, NEW b \in Int
    PROVE  /\ a * b \in Int /\ a * (b + 1) = a * b + a
           /\ (b + 1) * a = b * a + a
  OBVIOUS

\* The constants, and that a full bucket covers a request.
LEMMA RateConstants ==
    /\ Minute \in Nat /\ Minute > 0 /\ RequestsPerMinute \in Nat /\ RequestsPerMinute > 0
    /\ Burst \in Nat /\ IdleLimit \in Nat /\ MaxClock \in Nat
    /\ maxTokens \in Nat /\ maxTokens >= Minute
    /\ IdleLimit * RequestsPerMinute >= maxTokens
<1>1. /\ Minute \in Nat /\ Minute > 0 /\ RequestsPerMinute \in Nat /\ RequestsPerMinute > 0
      /\ Burst \in Nat /\ IdleLimit \in Nat /\ MaxClock \in Nat
      /\ IdleLimit * RequestsPerMinute >= maxTokens
  BY RateLimitAssumption
<1>2. PICK s \in Nat : s = RequestsPerMinute + Burst /\ 1 <= s
  BY <1>1
<1>3. Minute * s \in Nat /\ Minute * 1 <= Minute * s
  BY <1>1, <1>2, Products
<1> QED
  BY <1>1, <1>2, <1>3 DEF maxTokens

\* What a bucket holds uncapped.
Uncapped(b, now) == b.tokens + (now - b.lastRefill) * RequestsPerMinute

\* A bucket that was filled in the past: what it holds uncapped, and how that
\* grows in a second.
LEMMA UncappedGrows ==
    ASSUME NEW b \in [tokens : 0..maxTokens, lastRefill : 0..MaxClock],
           NEW now \in Nat, b.lastRefill <= now
    PROVE  /\ Uncapped(b, now) \in Nat
           /\ Uncapped(b, now + 1) = Uncapped(b, now) + RequestsPerMinute
           /\ now - b.lastRefill > IdleLimit => Uncapped(b, now) >= maxTokens
           /\ now = b.lastRefill => Uncapped(b, now) = b.tokens
<1>1. b.tokens \in Nat /\ b.lastRefill \in Nat
  BY RateConstants
<1>2. PICK e \in Nat : e = now - b.lastRefill
  BY <1>1
<1>3. e * RequestsPerMinute \in Nat /\ (e + 1) * RequestsPerMinute = e * RequestsPerMinute + RequestsPerMinute
  BY RateConstants, Products, Distribute
<1>4. (now + 1) - b.lastRefill = e + 1
  BY <1>1, <1>2
<1>5. Uncapped(b, now) = b.tokens + e * RequestsPerMinute
      /\ Uncapped(b, now + 1) = b.tokens + (e + 1) * RequestsPerMinute
  BY <1>2, <1>4 DEF Uncapped
<1>6. e > IdleLimit => IdleLimit * RequestsPerMinute <= e * RequestsPerMinute
  BY Products, RateConstants
<1>7. e = 0 => e * RequestsPerMinute = 0
  BY RateConstants
<1>8. PICK p \in Nat : p = e * RequestsPerMinute
  BY <1>3
<1>9. PICK q \in Nat : q = IdleLimit * RequestsPerMinute
  BY RateConstants, Products
<1>10. e > IdleLimit => p >= maxTokens
  BY <1>6, <1>8, <1>9, RateConstants
<1>11. Uncapped(b, now) = b.tokens + p /\ Uncapped(b, now + 1) = b.tokens + (p + RequestsPerMinute)
  BY <1>3, <1>5, <1>8
<1>12. e = 0 => p = 0
  BY <1>7, <1>8
<1>13. now = b.lastRefill => e = 0
  BY <1>1, <1>2
<1>14. now - b.lastRefill > IdleLimit => e > IdleLimit
  BY <1>2
<1> QED
  BY <1>1, <1>10, <1>11, <1>12, <1>13, <1>14, RateConstants

\* The bucket of a key and what it holds.
LEMMA Bucket ==
    ASSUME RateTypeOK, NEW k \in ClientIPs
    PROVE  /\ clock \in Nat /\ Refill(k) \in 0..maxTokens /\ Refill(k) \in Nat
           /\ buckets[k] = None => Refill(k) = maxTokens
           /\ buckets[k] # None =>
                 /\ buckets[k] \in [tokens : 0..maxTokens, lastRefill : 0..MaxClock]
                 /\ buckets[k].lastRefill <= clock
                 /\ Refill(k) = min(maxTokens, Uncapped(buckets[k], clock))
<1>1. clock \in Nat
  BY RateConstants DEF RateTypeOK
<1>2. CASE buckets[k] = None
  BY <1>1, <1>2, RateConstants DEF Refill
<1>3. CASE buckets[k] # None
  <2>1. buckets[k] \in [tokens : 0..maxTokens, lastRefill : 0..MaxClock] /\ buckets[k].lastRefill <= clock
    BY <1>3 DEF RateTypeOK
  <2>2. Refill(k) = min(maxTokens, Uncapped(buckets[k], clock))
    BY <1>3 DEF Refill, Uncapped
  <2>3. PICK u \in Nat : u = Uncapped(buckets[k], clock)
    BY <1>1, <2>1, UncappedGrows
  <2>4. min(maxTokens, u) \in 0..maxTokens
    BY RateConstants DEF min
  <2> QED
    BY <1>1, <1>3, <2>1, <2>2, <2>3, <2>4, RateConstants
<1> QED
  BY <1>2, <1>3

\* The window opened by a request, with the two products named.
LEMMA WindowValue ==
    ASSUME RateTypeOK, NEW k \in ClientIPs, NEW i \in 1..Len(granted[k])
    PROVE  \E t, n, p, q \in Int :
              /\ t = clock - granted[k][i] /\ n = Len(granted[k]) - i + 1
              /\ p = RequestsPerMinute * t /\ q = Minute * n
              /\ Window(k, i) = maxTokens + p - q
<1>1. clock \in Nat /\ granted[k] \in Seq(0..MaxClock)
  BY RateConstants DEF RateTypeOK
<1>2. Len(granted[k]) \in Nat /\ granted[k][i] \in Nat /\ i \in Nat
  BY <1>1, RateConstants
<1>3. PICK t \in Int : t = clock - granted[k][i]
  BY <1>1, <1>2
<1>4. PICK m \in Nat : m = Len(granted[k])
  BY <1>2
<1>5. PICK n \in Int : n = m - i + 1
  BY <1>2
<1>6. RequestsPerMinute * t \in Int /\ Minute * n \in Int
  BY RateConstants, Distribute
<1>7. Window(k, i) = maxTokens + RequestsPerMinute * t - Minute * n
  BY <1>3, <1>4, <1>5 DEF Window
<1> QED
  BY <1>3, <1>4, <1>5, <1>6, <1>7

\* What the invariant says of one key.
Balanced(k) ==
    /\ \A i \in 1..Len(granted[k]) : Window(k, i) >= Refill(k)
    /\ Refill(k) = maxTokens \/ \E i \in 1..Len(granted[k]) : Window(k, i) = Refill(k)

\* A key nothing happened to, whatever became of its bucket.
LEMMA KeyUntouched ==
    ASSUME NEW k \in ClientIPs, Balanced(k), Refill(k)' = Refill(k),
           clock' = clock, granted'[k] = granted[k]
    PROVE  Balanced(k)'
<1>1. \A i \in 1..Len(granted[k]) : Window(k, i)' = Window(k, i)
  BY DEF Window, maxTokens
<1> QED
  BY <1>1 DEF Balanced, maxTokens

\* A second passes.
LEMMA TickBalanced ==
    ASSUME RateInv, RateTypeOK', RateTick, NEW k \in ClientIPs
    PROVE  Balanced(k)'
<1>1. /\ RateTypeOK /\ Balanced(k)
      /\ clock' = clock + 1 /\ granted' = granted /\ buckets' = buckets
  BY DEF RateInv, Balanced, RateTick
<1>2. PICK r \in Nat : r = Refill(k) /\ r <= maxTokens
  BY <1>1, Bucket, RateConstants
<1>3. PICK v \in Nat : v = Refill(k)' /\ v <= maxTokens /\ v <= r + RequestsPerMinute
                       /\ (v # maxTokens => v = r + RequestsPerMinute /\ r # maxTokens)
  <2>1. CASE buckets[k] = None
    <3>1. Refill(k)' = maxTokens /\ r = maxTokens
      BY <1>1, <1>2, <2>1 DEF Refill, maxTokens
    <3> QED
      BY <3>1, RateConstants
  <2>2. CASE buckets[k] # None
    <3>1. /\ clock \in Nat /\ buckets[k] \in [tokens : 0..maxTokens, lastRefill : 0..MaxClock]
          /\ buckets[k].lastRefill <= clock /\ r = min(maxTokens, Uncapped(buckets[k], clock))
      BY <1>1, <1>2, <2>2, Bucket
    <3>2. PICK u \in Nat : u = Uncapped(buckets[k], clock)
                           /\ Uncapped(buckets[k], clock + 1) = u + RequestsPerMinute
      BY <3>1, UncappedGrows
    <3>3. Refill(k)' = min(maxTokens, u + RequestsPerMinute)
      BY <1>1, <2>2, <3>2 DEF Refill, Uncapped, maxTokens, min
    <3>4. PICK v \in Nat : v = min(maxTokens, u + RequestsPerMinute)
      BY RateConstants DEF min
    <3>5. v <= maxTokens /\ v <= r + RequestsPerMinute
          /\ (v # maxTokens => v = r + RequestsPerMinute /\ r # maxTokens)
      BY <3>1, <3>2, <3>4, RateConstants DEF min
    <3> QED
      BY <3>3, <3>4, <3>5
  <2> QED
    BY <2>1, <2>2
<1>4. ASSUME NEW i \in 1..Len(granted[k])
      PROVE  \E w \in Int : Window(k, i) = w /\ Window(k, i)' = w + RequestsPerMinute
  <2>1. PICK t, n, p, q \in Int :
           /\ t = clock - granted[k][i] /\ n = Len(granted[k]) - i + 1
           /\ p = RequestsPerMinute * t /\ q = Minute * n
           /\ Window(k, i) = maxTokens + p - q
    BY <1>1, WindowValue
  <2>2. PICK c, g \in Int : c = clock /\ g = granted[k][i]
    BY <1>1, RateConstants DEF RateTypeOK
  <2>3. clock' - granted'[k][i] = t + 1
    <3>1. clock' = c + 1 /\ granted'[k][i] = g /\ t = c - g
      BY <1>1, <2>1, <2>2
    <3> QED
      BY <3>1
  <2>4. Window(k, i)' = maxTokens + RequestsPerMinute * (t + 1) - Minute * n
    BY <1>1, <2>1, <2>3 DEF Window, maxTokens
  <2>5. RequestsPerMinute * (t + 1) = p + RequestsPerMinute
    <3>1. RequestsPerMinute \in Int /\ t \in Int /\ p = RequestsPerMinute * t
      BY <2>1, RateConstants
    <3> QED
      BY ONLY <3>1, Distribute
  <2>6. Window(k, i)' = maxTokens + (p + RequestsPerMinute) - q
    BY <2>1, <2>4, <2>5
  <2>7. PICK w \in Int : w = maxTokens + p - q
    BY RateConstants
  <2>8. Window(k, i) = w
    BY <2>1, <2>7
  <2>9. w + RequestsPerMinute = maxTokens + (p + RequestsPerMinute) - q
    <3>1. maxTokens \in Int /\ RequestsPerMinute \in Int
      BY RateConstants
    <3> QED
      BY <2>7, <3>1
  <2> QED
    BY <2>6, <2>8, <2>9
<1>5. \A i \in 1..Len(granted[k]) : Window(k, i)' >= v
  <2> SUFFICES ASSUME NEW i \in 1..Len(granted[k])
               PROVE  Window(k, i)' >= v
    OBVIOUS
  <2>1. PICK w \in Int : Window(k, i) = w /\ Window(k, i)' = w + RequestsPerMinute
    BY <1>4
  <2>2. w >= r
    BY <1>1, <1>2, <2>1 DEF Balanced
  <2> QED
    BY <1>3, <2>1, <2>2, RateConstants
<1>6. ASSUME v # maxTokens PROVE \E i \in 1..Len(granted[k]) : Window(k, i)' = v
  <2>1. PICK i \in 1..Len(granted[k]) : Window(k, i) = r
    BY <1>1, <1>2, <1>3, <1>6 DEF Balanced
  <2>2. PICK w \in Int : Window(k, i) = w /\ Window(k, i)' = w + RequestsPerMinute
    BY <1>4
  <2>3. Window(k, i)' = v
    BY <1>3, <1>6, <2>1, <2>2
  <2> QED
    BY <2>3
<1>7. granted'[k] = granted[k] /\ maxTokens' = maxTokens
  BY <1>1 DEF maxTokens
<1> QED
  BY <1>3, <1>5, <1>6, <1>7 DEF Balanced

\* A request goes through: every window loses its price, and a full one opens.
LEMMA GrantBalanced ==
    ASSUME RateInv, NEW k \in ClientIPs, Grant(k), RateTypeOK'
    PROVE  Balanced(k)'
<1>1. /\ RateTypeOK /\ Balanced(k) /\ Refill(k) >= Minute
      /\ buckets' = [buckets EXCEPT ![k] = [tokens |-> Refill(k) - Minute, lastRefill |-> clock]]
      /\ granted' = [granted EXCEPT ![k] = Append(@, clock)]
      /\ clock' = clock /\ maxTokens' = maxTokens
  BY DEF RateInv, Balanced, Grant, maxTokens
<1>2. PICK r \in Nat : r = Refill(k) /\ r <= maxTokens /\ r >= Minute
  BY <1>1, Bucket, RateConstants
<1>3. PICK m \in Nat : m = Len(granted[k]) /\ granted[k] \in Seq(0..MaxClock)
  BY <1>1, RateConstants DEF RateTypeOK
<1>4. /\ granted'[k] = Append(granted[k], clock) /\ Len(granted'[k]) = m + 1
      /\ granted'[k][m + 1] = clock /\ \A i \in 1..m : granted'[k][i] = granted[k][i]
  <2>1. granted'[k] = Append(granted[k], clock) /\ clock \in 0..MaxClock
    BY <1>1 DEF RateTypeOK
  <2> QED
    BY <1>3, <2>1
<1>5. Refill(k)' = r - Minute
  <2>1. buckets'[k] = [tokens |-> r - Minute, lastRefill |-> clock] /\ clock \in Nat
    BY <1>1, <1>2, RateConstants DEF RateTypeOK
  <2>2. [tokens |-> r - Minute, lastRefill |-> clock] \in [tokens : 0..maxTokens, lastRefill : 0..MaxClock]
    BY <1>1, <1>2, RateConstants DEF RateTypeOK
  <2>3. buckets'[k] # None
    BY <2>1, <2>2, RateLimitAssumption
  <2>4. Refill(k)' = min(maxTokens, Uncapped(buckets'[k], clock))
    BY <1>1, <2>3 DEF Refill, Uncapped, min
  <2>5. Uncapped(buckets'[k], clock) = r - Minute
    BY <2>1, <2>2, UncappedGrows
  <2>6. min(maxTokens, r - Minute) = r - Minute
    BY <1>2, RateConstants DEF min
  <2> QED
    BY <2>4, <2>5, <2>6
<1>6. ASSUME NEW i \in 1..m
      PROVE  \E w \in Int : Window(k, i) = w /\ Window(k, i)' = w - Minute
  <2>1. i \in 1..Len(granted[k])
    BY <1>3
  <2>2. PICK t, n, p, q \in Int :
           /\ t = clock - granted[k][i] /\ n = Len(granted[k]) - i + 1
           /\ p = RequestsPerMinute * t /\ q = Minute * n
           /\ Window(k, i) = maxTokens + p - q
    BY <1>1, <2>1, WindowValue
  <2>3. (m + 1) - i + 1 = n + 1
    <3>1. n = m - i + 1
      BY <1>3, <2>2
    <3> QED
      BY <3>1
  <2>4. Window(k, i)' = maxTokens + p - Minute * (n + 1)
    BY <1>1, <1>4, <2>2, <2>3 DEF Window
  <2>5. Minute * (n + 1) = q + Minute
    BY <2>2, RateConstants, Distribute
  <2>6. Window(k, i)' = maxTokens + p - (q + Minute)
    BY <2>4, <2>5
  <2>7. PICK w \in Int : w = maxTokens + p - q
    BY RateConstants
  <2>8. Window(k, i) = w
    BY <2>2, <2>7
  <2>9. w - Minute = maxTokens + p - (q + Minute)
    <3>1. maxTokens \in Int /\ Minute \in Int
      BY RateConstants
    <3> QED
      BY <2>7, <3>1
  <2> QED
    BY <2>6, <2>8, <2>9
<1>7. Window(k, m + 1)' = maxTokens - Minute
  <2>1. clock - clock = 0 /\ (m + 1) - (m + 1) + 1 = 1
    BY <1>1, RateConstants DEF RateTypeOK
  <2>2. Window(k, m + 1)' = maxTokens + RequestsPerMinute * 0 - Minute * 1
    BY <1>1, <1>4, <2>1 DEF Window
  <2> QED
    BY <2>2, RateConstants
<1>8. \A i \in 1..(m + 1) : Window(k, i)' >= r - Minute
  <2> SUFFICES ASSUME NEW i \in 1..(m + 1)
               PROVE  Window(k, i)' >= r - Minute
    OBVIOUS
  <2>1. CASE i = m + 1
    BY <1>2, <1>7, <2>1, RateConstants
  <2>2. CASE i # m + 1
    <3>1. i \in 1..m
      BY <2>2
    <3>2. PICK w \in Int : Window(k, i) = w /\ Window(k, i)' = w - Minute
      BY <1>6, <3>1
    <3>3. w >= r
      BY <1>1, <1>2, <1>3, <3>1, <3>2 DEF Balanced
    <3> QED
      BY <3>2, <3>3, RateConstants
  <2> QED
    BY <2>1, <2>2
<1>9. \E i \in 1..(m + 1) : Window(k, i)' = r - Minute
  <2>1. CASE r = maxTokens
    <3>1. m + 1 \in 1..(m + 1)
      OBVIOUS
    <3> QED
      BY <1>7, <2>1, <3>1
  <2>2. CASE r # maxTokens
    <3>1. PICK i \in 1..m : Window(k, i) = r
      BY <1>1, <1>2, <1>3, <2>2 DEF Balanced
    <3>2. PICK w \in Int : Window(k, i) = w /\ Window(k, i)' = w - Minute
      BY <1>6
    <3>3. i \in 1..(m + 1) /\ Window(k, i)' = r - Minute
      BY <3>1, <3>2
    <3> QED
      BY <3>3
  <2> QED
    BY <2>1, <2>2
<1> QED
  BY <1>4, <1>5, <1>8, <1>9 DEF Balanced

\* The bucket of a refused request is written back as it was, and one that the
\* sweeper drops was full: no key can tell.
LEMMA RefillKept ==
    ASSUME RateTypeOK, NEW k \in ClientIPs, clock' = clock,
           \/ buckets'[k] = buckets[k]
           \/ buckets'[k] = [tokens |-> Refill(k), lastRefill |-> clock]
           \/ Idle(k) /\ buckets'[k] = None
    PROVE  Refill(k)' = Refill(k)
<1>1. CASE buckets'[k] = buckets[k]
  BY <1>1 DEF Refill, min, maxTokens
<1>2. CASE buckets'[k] = [tokens |-> Refill(k), lastRefill |-> clock]
  <2>1. PICK r \in Nat : r = Refill(k) /\ r \in 0..maxTokens
    BY Bucket
  <2>2. clock \in 0..MaxClock /\ clock \in Nat
    BY Bucket DEF RateTypeOK
  <2>3. [tokens |-> r, lastRefill |-> clock] \in [tokens : 0..maxTokens, lastRefill : 0..MaxClock]
    BY <2>1, <2>2
  <2>4. buckets'[k] = [tokens |-> r, lastRefill |-> clock] /\ buckets'[k] # None
    BY <1>2, <2>1, <2>3, RateLimitAssumption
  <2>5. Refill(k)' = min(maxTokens, Uncapped(buckets'[k], clock))
    BY <2>4 DEF Refill, Uncapped, min, maxTokens
  <2>6. Uncapped(buckets'[k], clock) = r
    BY <2>2, <2>3, <2>4, UncappedGrows
  <2>7. min(maxTokens, r) = r
    BY <2>1, RateConstants DEF min
  <2> QED
    BY <2>1, <2>5, <2>6, <2>7
<1>3. CASE Idle(k) /\ buckets'[k] = None
  <2>1. /\ buckets[k] \in [tokens : 0..maxTokens, lastRefill : 0..MaxClock] /\ clock \in Nat
        /\ buckets[k].lastRefill <= clock /\ clock - buckets[k].lastRefill > IdleLimit
        /\ Refill(k) = min(maxTokens, Uncapped(buckets[k], clock))
    BY <1>3, Bucket DEF Idle
  <2>2. PICK u \in Nat : u = Uncapped(buckets[k], clock) /\ u >= maxTokens
    BY <2>1, UncappedGrows
  <2>3. min(maxTokens, u) = maxTokens
    <3>1. maxTokens \in Nat /\ u \in Nat /\ u >= maxTokens
      BY <2>2, RateConstants
    <3> QED
      BY ONLY <3>1 DEF min
  <2>4. Refill(k)' = maxTokens
    BY <1>3 DEF Refill, maxTokens
  <2> QED
    BY <2>1, <2>2, <2>3, <2>4
<1> QED
  BY <1>1, <1>2, <1>3

\* The invariant at the start.
LEMMA RateInitInv == RateInit => RateInv
<1> SUFFICES ASSUME RateInit PROVE RateInv
  OBVIOUS
<1>1. /\ clock = 0 /\ buckets = [k \in ClientIPs |-> None] /\ granted = [k \in ClientIPs |-> <<>>]
  BY DEF RateInit
<1>2. RateTypeOK
  BY <1>1, RateConstants DEF RateTypeOK
<1>3. ASSUME NEW k \in ClientIPs PROVE Balanced(k)
  <2>1. buckets[k] = None /\ granted[k] = <<>>
    BY <1>1
  <2>2. 1..Len(granted[k]) = {}
    BY <2>1
  <2>3. Refill(k) = maxTokens
    BY <2>1 DEF Refill
  <2> QED
    BY <2>2, <2>3 DEF Balanced
<1> QED
  BY <1>2, <1>3 DEF RateInv, Balanced

\* Every step keeps the types.
LEMMA RateTypeStep == ASSUME RateInv, RateNext PROVE RateTypeOK'
<1>1. /\ RateTypeOK /\ clock \in 0..MaxClock /\ maxTokens' = maxTokens
      /\ buckets \in [ClientIPs -> [tokens : 0..maxTokens, lastRefill : 0..MaxClock] \cup {None}]
      /\ granted \in [ClientIPs -> Seq(0..MaxClock)]
      /\ \A k \in ClientIPs : buckets[k] # None => buckets[k].lastRefill <= clock
  BY DEF RateInv, RateTypeOK, maxTokens
<1>2. CASE RateTick
  <2>1. clock' = clock + 1 /\ clock < MaxClock /\ buckets' = buckets /\ granted' = granted
    BY <1>2 DEF RateTick
  <2>2. clock' \in 0..MaxClock /\ clock < clock'
    BY <1>1, <2>1, RateConstants
  <2>3. ASSUME NEW k \in ClientIPs, buckets[k] # None PROVE buckets[k].lastRefill <= clock'
    <3>1. buckets[k].lastRefill \in 0..MaxClock /\ buckets[k].lastRefill <= clock
      BY <1>1, <2>3
    <3> QED
      BY <1>1, <2>1, <3>1, RateConstants
  <2> QED
    BY <1>1, <2>1, <2>2, <2>3 DEF RateTypeOK
<1>3. CASE Sweep
  <2>1. /\ clock' = clock /\ granted' = granted
        /\ buckets' = [k \in ClientIPs |-> IF Idle(k) THEN None ELSE buckets[k]]
    BY <1>3 DEF Sweep
  <2>2. \A k \in ClientIPs : buckets'[k] = None \/ buckets'[k] = buckets[k]
    BY <2>1
  <2>3. buckets' \in [ClientIPs -> [tokens : 0..maxTokens, lastRefill : 0..MaxClock] \cup {None}]
    BY <1>1, <2>1
  <2>4. \A k \in ClientIPs : buckets'[k] # None => buckets'[k].lastRefill <= clock'
    BY <1>1, <2>1, <2>2
  <2> QED
    BY <1>1, <2>1, <2>3, <2>4 DEF RateTypeOK
<1>4. ASSUME NEW k \in ClientIPs, Grant(k) \/ Refuse(k) PROVE RateTypeOK'
  <2>1. PICK r \in Nat : r = Refill(k) /\ r \in 0..maxTokens
    BY <1>1, Bucket
  <2>2. PICK n \in 0..maxTokens : buckets' = [buckets EXCEPT ![k] = [tokens |-> n, lastRefill |-> clock]]
    <3>1. CASE Grant(k)
      <4>1. r - Minute \in 0..maxTokens
        BY <2>1, <3>1, RateConstants DEF Grant
      <4> QED
        BY <2>1, <3>1, <4>1 DEF Grant
    <3>2. CASE Refuse(k)
      BY <2>1, <3>2 DEF Refuse
    <3> QED
      BY <1>4, <3>1, <3>2
  <2>3. clock' = clock /\ (granted' = granted \/ granted' = [granted EXCEPT ![k] = Append(@, clock)])
    BY <1>4 DEF Grant, Refuse
  <2>4. granted' \in [ClientIPs -> Seq(0..MaxClock)]
    <3>1. granted[k] \in Seq(0..MaxClock) /\ Append(granted[k], clock) \in Seq(0..MaxClock)
      BY <1>1
    <3> QED
      BY <1>1, <2>3, <3>1
  <2>5. PICK x : x = [tokens |-> n, lastRefill |-> clock]
    OBVIOUS
  <2>6. x \in [tokens : 0..maxTokens, lastRefill : 0..MaxClock] /\ x.lastRefill = clock
    BY <1>1, <2>5
  <2>7. buckets' \in [ClientIPs -> [tokens : 0..maxTokens, lastRefill : 0..MaxClock] \cup {None}]
    BY <1>1, <2>2, <2>5, <2>6
  <2>8. ASSUME NEW j \in ClientIPs, buckets'[j] # None PROVE buckets'[j].lastRefill <= clock
    <3>1. buckets'[j] = x \/ buckets'[j] = buckets[j]
      BY <1>1, <2>2, <2>5
    <3>2. clock <= clock
      BY <1>1, RateConstants
    <3> QED
      BY <1>1, <2>6, <2>8, <3>1, <3>2
  <2> QED
    BY <1>1, <2>3, <2>4, <2>7, <2>8 DEF RateTypeOK
<1> QED
  BY <1>2, <1>3, <1>4 DEF RateNext

\* Every step keeps every key balanced.
LEMMA RateStepInv == ASSUME RateInv, RateNext PROVE RateInv'
<1>1. RateTypeOK' /\ RateTypeOK
  BY RateTypeStep DEF RateInv
<1>2. \A k \in ClientIPs : Balanced(k)
  BY DEF RateInv, Balanced
<1>3. CASE RateTick
  BY <1>1, <1>3, TickBalanced DEF RateInv, Balanced
<1>4. CASE Sweep
  <2>1. /\ clock' = clock /\ granted' = granted
        /\ \A k \in ClientIPs : buckets'[k] = buckets[k] \/ (Idle(k) /\ buckets'[k] = None)
    <3>1. /\ clock' = clock /\ granted' = granted
          /\ buckets' = [k \in ClientIPs |-> IF Idle(k) THEN None ELSE buckets[k]]
      BY <1>4 DEF Sweep
    <3>2. ASSUME NEW k \in ClientIPs
          PROVE  buckets'[k] = buckets[k] \/ (Idle(k) /\ buckets'[k] = None)
      <4>1. buckets'[k] = IF Idle(k) THEN None ELSE buckets[k]
        BY <3>1, Zenon
      <4> QED
        BY <4>1, Zenon
    <3> QED
      BY <3>1, <3>2
  <2>2. \A k \in ClientIPs : Balanced(k)'
    BY <1>1, <1>2, <2>1, RefillKept, KeyUntouched
  <2> QED
    BY <1>1, <2>2 DEF RateInv, Balanced
<1>5. ASSUME NEW k \in ClientIPs, Grant(k) \/ Refuse(k) PROVE RateInv'
  <2>1. buckets \in [ClientIPs -> [tokens : 0..maxTokens, lastRefill : 0..MaxClock] \cup {None}]
        /\ granted \in [ClientIPs -> Seq(0..MaxClock)]
    BY <1>1 DEF RateTypeOK
  <2>2. ASSUME NEW j \in ClientIPs, j # k PROVE Balanced(j)'
    <3>1. clock' = clock /\ granted'[j] = granted[j] /\ buckets'[j] = buckets[j]
      BY <1>5, <2>1, <2>2 DEF Grant, Refuse
    <3> QED
      BY <1>1, <1>2, <3>1, RefillKept, KeyUntouched
  <2>3. Balanced(k)'
    <3>1. CASE Grant(k)
      BY <1>1, <3>1, GrantBalanced
    <3>2. CASE Refuse(k)
      <4>1. /\ clock' = clock /\ granted' = granted
            /\ buckets'[k] = [tokens |-> Refill(k), lastRefill |-> clock]
        BY <2>1, <3>2 DEF Refuse
      <4> QED
        BY <1>1, <1>2, <4>1, RefillKept, KeyUntouched
    <3> QED
      BY <1>5, <3>1, <3>2
  <2> QED
    BY <1>1, <2>2, <2>3 DEF RateInv, Balanced
<1> QED
  BY <1>3, <1>4, <1>5 DEF RateNext

\* Whatever the requests, the clock and the sweeper do, a bucket holds what the
\* tightest window of its client has left, or is full.
THEOREM RateInvariant == RateSpec => []RateInv
<1>1. RateInv /\ UNCHANGED rateVars => RateInv'
  BY DEF RateInv, RateTypeOK, Window, Refill, min, maxTokens, rateVars
<1>2. RateInv /\ [RateNext]_rateVars => RateInv'
  BY <1>1, RateStepInv
<1> QED
  BY RateInitInv, <1>2, PTL DEF RateSpec

\* The limiter of middleware.RateLimit is exact: no window of time lets more
\* than the burst plus the rate through, and a 429 is given only when one more
\* request would exceed that in some window.
THEOREM LimiterIsExact == RateSpec => []RateIsExact
<1>1. RateInv => RateIsExact
  <2> SUFFICES ASSUME RateInv, NEW k \in ClientIPs
               PROVE  /\ \A i \in 1..Len(granted[k]) : Window(k, i) >= 0
                      /\ Refill(k) < Minute => \E i \in 1..Len(granted[k]) : Window(k, i) < Minute
    BY DEF RateIsExact
  <2>1. RateTypeOK /\ Balanced(k)
    BY DEF RateInv, Balanced
  <2>2. PICK r \in Nat : r = Refill(k)
    BY <2>1, Bucket
  <2>3. ASSUME NEW i \in 1..Len(granted[k]) PROVE Window(k, i) >= 0
    <3>1. PICK t, n, p, q \in Int : Window(k, i) = maxTokens + p - q
      BY <2>1, WindowValue
    <3>2. PICK w \in Int : w = Window(k, i)
      BY <3>1, RateConstants
    <3>3. w >= r
      BY <2>1, <2>2, <3>2 DEF Balanced
    <3> QED
      BY <3>2, <3>3
  <2>4. ASSUME r < Minute PROVE \E i \in 1..Len(granted[k]) : Window(k, i) < Minute
    <3>1. r # maxTokens
      BY <2>4, RateConstants
    <3>2. PICK i \in 1..Len(granted[k]) : Window(k, i) = r
      BY <2>1, <2>2, <3>1 DEF Balanced
    <3> QED
      BY <2>4, <3>2
  <2> QED
    BY <2>2, <2>3, <2>4
<1> QED
  BY <1>1, RateInvariant, PTL

-----------------------------------------------------------------------------
\* The paged lists.

\* R orders S strictly, and any two of its elements.
Orders(R, S) ==
    /\ \A x \in S : <<x, x>> \notin R
    /\ \A x, y, z \in S : <<x, y>> \in R /\ <<y, z>> \in R => <<x, z>> \in R
    /\ \A x, y \in S : x = y \/ <<x, y>> \in R \/ <<y, x>> \in R

\* A set of naturals has a least element.
LEMMA LeastNat ==
    ASSUME NEW T, T \subseteq Nat, T # {}
    PROVE  \E m \in T : \A k \in T : m <= k
  <1>1. PICK m \in T : \A k \in T : <<k, m>> \notin OpToRel(<, Nat)
    BY WFMin, NatLessThanWellFounded, Zenon
  <1>2. \A k \in T : ~(k < m)
    BY <1>1 DEF OpToRel
  <1> QED
    BY <1>2

\* A finite set has a first element.
LEMMA FirstOf ==
    ASSUME NEW S, IsFiniteSet(S), S # {}, NEW R, Orders(R, S)
    PROVE  \E m \in S : \A s \in S : <<s, m>> \notin R
  <1> DEFINE B(r) == {s \in S : <<s, r>> \in R}
             T == {Cardinality(B(r)) : r \in S}
  <1>1. \A r \in S : IsFiniteSet(B(r)) /\ Cardinality(B(r)) \in Nat
    BY FS_Subset, FS_CardinalityType
  <1>2. PICK k \in T : \A j \in T : k <= j
    <2>1. T \subseteq Nat /\ T # {}
      BY <1>1
    <2> HIDE DEF T
    <2> QED
      BY <2>1, LeastNat
  <1>3. PICK m \in S : k = Cardinality(B(m))
    OBVIOUS
  <1>4. ASSUME NEW s \in S, <<s, m>> \in R PROVE FALSE
    <2>1. B(s) \subseteq B(m) /\ s \in B(m) /\ s \notin B(s)
      BY <1>4 DEF Orders
    <2>2. IsFiniteSet(B(m)) /\ Cardinality(B(s)) \in Nat /\ Cardinality(B(m)) \in Nat
      BY <1>1
    <2>3. Cardinality(B(m)) <= Cardinality(B(s))
      BY <1>2, <1>3
    <2> HIDE DEF B
    <2>4. Cardinality(B(s)) <= Cardinality(B(m)) /\ (Cardinality(B(m)) = Cardinality(B(s)) => B(m) = B(s))
      BY <2>1, <2>2, FS_Subset
    <2> QED
      BY <2>1, <2>2, <2>3, <2>4
  <1> QED
    BY <1>4

\* And a last one.
LEMMA LastOf ==
    ASSUME NEW S, IsFiniteSet(S), S # {}, NEW R, Orders(R, S)
    PROVE  \E m \in S : \A s \in S : <<m, s>> \notin R
  <1>1. PICK Q : Q = {p \in S \X S : <<p[2], p[1]>> \in R}
    OBVIOUS
  <1>2. \A x, y \in S : <<x, y>> \in Q <=> <<y, x>> \in R
    BY <1>1
  <1>3. Orders(Q, S)
    BY <1>2 DEF Orders
  <1>4. PICK m \in S : \A s \in S : <<s, m>> \notin Q
    BY <1>3, FirstOf
  <1> QED
    BY <1>2, <1>4

\* The elements with fewer than L before them: they come before the others.
LEMMA SegmentOf ==
    ASSUME NEW S, IsFiniteSet(S), NEW R, Orders(R, S), NEW L \in Nat \ {0}, NEW D,
           D = {r \in S : Cardinality({s \in S : <<s, r>> \in R}) < L}
    PROVE  /\ D \subseteq S /\ IsFiniteSet(D) /\ Orders(R, D)
           /\ S # {} => D # {}
           /\ \A r \in S \ D, s \in D : <<s, r>> \in R
  <1> DEFINE B(r) == {s \in S : <<s, r>> \in R}
  <1>1. \A r \in S : IsFiniteSet(B(r)) /\ Cardinality(B(r)) \in Nat
    BY FS_Subset, FS_CardinalityType
  <1>2. D \subseteq S /\ IsFiniteSet(D) /\ Orders(R, D)
    BY FS_Subset DEF Orders
  <1>3. ASSUME S # {} PROVE D # {}
    <2>1. PICK m \in S : \A s \in S : <<s, m>> \notin R
      BY <1>3, FirstOf
    <2>2. B(m) = {}
      BY <2>1
    <2>3. Cardinality(B(m)) = 0
      BY <2>2, FS_EmptySet
    <2> QED
      BY <2>3
  <1>4. ASSUME NEW r \in S \ D, NEW s \in D PROVE <<s, r>> \in R
    <2>1. SUFFICES ASSUME <<r, s>> \in R PROVE FALSE
      BY <1>2, <1>4 DEF Orders
    <2>2. B(r) \subseteq B(s)
      BY <1>2, <1>4, <2>1 DEF Orders
    <2>3. Cardinality(B(s)) < L /\ ~(Cardinality(B(r)) < L) /\ s \in S /\ r \in S
      BY <1>4
    <2>4. /\ IsFiniteSet(B(s)) /\ Cardinality(B(r)) \in Nat /\ Cardinality(B(s)) \in Nat
      BY <1>1, <2>3
    <2> HIDE DEF B
    <2>5. Cardinality(B(r)) <= Cardinality(B(s))
      BY <2>2, <2>4, FS_Subset
    <2> QED
      BY <2>3, <2>4, <2>5
  <1> QED
    BY <1>2, <1>3, <1>4

\* The rows there are.
Rows == {r \in ListRows : listed[r] # None}

\* The order as a set of pairs.
RowOrder == {p \in ListRows \X ListRows : RowBefore(p[1], p[2])}

LEMMA RowFacts ==
    ASSUME ListTypeOK
    PROVE  /\ Matches \subseteq Rows /\ Rows \subseteq ListRows /\ IsFiniteSet(Rows)
           /\ \A r \in Rows : r \in Nat /\ listed[r] \in ListRecords /\ listed[r].at \in Nat
           /\ \A r \in ListRows : r # None
           /\ \A S \in SUBSET ListRows : IsFiniteSet(S) /\ Cardinality(S) \in Nat
  <1>1. Matches \subseteq Rows /\ Rows \subseteq ListRows
    BY DEF Matches, Rows
  <1>2. \A S \in SUBSET ListRows : IsFiniteSet(S) /\ Cardinality(S) \in Nat
    BY ListingAssumption, FS_Subset, FS_CardinalityType
  <1>3. \A r \in Rows : r \in Nat /\ listed[r] \in ListRecords
    BY ListingAssumption DEF Rows, ListTypeOK
  <1>4. \A r \in Rows : listed[r].at \in Nat
    BY <1>3 DEF ListRecords
  <1> QED
    BY <1>1, <1>2, <1>3, <1>4, ListingAssumption

\* Every list is ordered, by the creation time and the id.
LEMMA ListOrdered ==
    ASSUME ListTypeOK
    PROVE  /\ \A r \in Rows : ~RowBefore(r, r)
           /\ \A r, s, t \in Rows : RowBefore(r, s) /\ RowBefore(s, t) => RowBefore(r, t)
           /\ \A r, s \in Rows : r = s \/ RowBefore(r, s) \/ RowBefore(s, r)
  <1>1. PICK at : \A r \in Rows : at[r] = listed[r].at
    <2>1. \A r \in Rows : [q \in Rows |-> listed[q].at][r] = listed[r].at
      OBVIOUS
    <2> QED
      BY <2>1
  <1>2. \A r \in Rows : at[r] \in Nat /\ r \in Nat
    BY <1>1, RowFacts
  <1>3. CASE list \in {"memoryCapabilities", "postgresCapabilities"}
    <2>1. \A r, s \in Rows : RowBefore(r, s) <=> r < s
      BY <1>3 DEF RowBefore, Ascending
    <2> QED
      BY <1>2, <2>1
  <1>4. CASE list \notin {"memoryCapabilities", "postgresCapabilities"} /\ list \in Ascending
    <2>1. \A r, s \in Rows : RowBefore(r, s) <=> (at[r] < at[s] \/ (at[r] = at[s] /\ r < s))
      BY <1>1, <1>4 DEF RowBefore
    <2> QED
      BY <1>2, <2>1
  <1>5. CASE list \notin {"memoryCapabilities", "postgresCapabilities"} /\ list \notin Ascending
    <2>1. \A r, s \in Rows : RowBefore(r, s) <=> (at[r] > at[s] \/ (at[r] = at[s] /\ r > s))
      BY <1>1, <1>5 DEF RowBefore
    <2> QED
      BY <1>2, <2>1
  <1> QED
    BY <1>3, <1>4, <1>5

\* A page of S: it is what comes first, and its cursor parts it from the rest.
Parts(page, S) ==
    /\ page.data \subseteq S /\ page.next \in ListRows \cup {None}
    /\ page.next = None => page.data = S
    /\ page.next # None =>
          /\ page.next \in page.data
          /\ \A s \in page.data : s = page.next \/ RowBefore(s, page.next)
          /\ \A r \in S \ page.data : RowBefore(page.next, r)

LEMMA PageParts ==
    ASSUME ListTypeOK, NEW S \in SUBSET Rows, NEW L \in Nat \ {0}
    PROVE  Parts(FirstPage(S, L), S)
  <1> DEFINE page == FirstPage(S, L)
  <1> SUFFICES Parts(page, S)
    OBVIOUS
  <1>1. S \subseteq ListRows /\ IsFiniteSet(S) /\ \A r \in S : r # None
    BY RowFacts
  <1>2. PICK R : R = RowOrder
    OBVIOUS
  <1>3. \A r, s \in S : <<r, s>> \in R <=> RowBefore(r, s)
    BY <1>1, <1>2 DEF RowOrder
  <1>4. Orders(R, S)
    <2>1. /\ \A r \in S : ~RowBefore(r, r)
          /\ \A r, s, t \in S : RowBefore(r, s) /\ RowBefore(s, t) => RowBefore(r, t)
          /\ \A r, s \in S : r = s \/ RowBefore(r, s) \/ RowBefore(s, r)
      BY ListOrdered
    <2> QED
      BY ONLY <1>3, <2>1 DEF Orders
  <1>5. PICK D : D = {r \in S : Cardinality({s \in S : RowBefore(s, r)}) < L}
    OBVIOUS
  <1>6. D = {r \in S : Cardinality({s \in S : <<s, r>> \in R}) < L}
    <2>1. \A r \in S : {s \in S : RowBefore(s, r)} = {s \in S : <<s, r>> \in R}
      BY <1>3
    <2> QED
      BY <1>5, <2>1
  <1>7. /\ D \subseteq S /\ IsFiniteSet(D) /\ Orders(R, D) /\ (S # {} => D # {})
        /\ \A r \in S \ D, s \in D : <<s, r>> \in R
    BY ONLY L \in Nat \ {0}, <1>1, <1>4, <1>6, SegmentOf, SMTT(30)
  <1>8. page.data = D /\ page.next = IF D = S \/ D = {} THEN None
                                     ELSE CHOOSE r \in D : \A s \in D : ~RowBefore(r, s)
    BY <1>5 DEF FirstPage
  <1> HIDE DEF page
  <1>9. CASE D = S \/ D = {}
    BY <1>7, <1>8, <1>9 DEF Parts
  <1>10. CASE D # S /\ D # {}
    <2>1. PICK m \in D : \A s \in D : <<m, s>> \notin R
      BY <1>7, <1>10, LastOf
    <2>2. \E r \in D : \A s \in D : ~RowBefore(r, s)
      BY <1>3, <1>7, <2>1
    <2>3. PICK n : n = CHOOSE r \in D : \A s \in D : ~RowBefore(r, s)
      OBVIOUS
    <2>4. n \in D /\ \A s \in D : ~RowBefore(n, s)
      BY <2>2, <2>3
    <2>5. page.next = n /\ n # None
      BY <1>1, <1>7, <1>8, <1>10, <2>3, <2>4
    <2>6. \A s \in D : s = n \/ RowBefore(s, n)
      BY <1>7, <2>4, ListOrdered
    <2>7. \A r \in S \ D : RowBefore(n, r)
      BY <1>3, <1>7, <2>4
    <2> QED
      BY <1>1, <1>7, <1>8, <2>4, <2>5, <2>6, <2>7 DEF Parts
  <1> QED
    BY <1>9, <1>10

-----------------------------------------------------------------------------
\* The parts of ListTypeOK about what has happened to the list.
UpsetOK ==
    upset \subseteq {"came"} \cup (IF list \in Changing \cup Cascaded THEN {"left", "lost"} ELSE {})
                           \cup (IF list \in Cascaded THEN {"deleted"} ELSE {})
DeletedOK == deleted \subseteq {r \in ListRows : listed[r] # None} \ Matches

\* Rows come, leave and return: what the client holds stays as it is, and so
\* does the order of the rows there are.

RowsStep ==
    /\ list' = list /\ walk' = walk /\ walk.pc # "done"
    /\ steady' \subseteq steady /\ upset \subseteq upset'
    /\ \A r \in Rows : r \in Rows' /\ listed'[r].at = listed[r].at
    /\ Walking /\ walk.cursor \in deleted' => walk.cursor \in deleted \/ "deleted" \in upset'

LEMMA OrderKept ==
    ASSUME RowsStep
    PROVE  /\ \A r, s \in Rows : RowBefore(r, s)' <=> RowBefore(r, s)
           /\ (Ties => Ties') /\ (MayRestart => MayRestart')
  <1>1. list' = list /\ \A r \in Rows : r \in Rows' /\ listed'[r].at = listed[r].at
    BY DEF RowsStep
  <1>2. \A r, s \in Rows : RowBefore(r, s)' <=> RowBefore(r, s)
    BY <1>1 DEF RowBefore
  <1>3. Ties => Ties'
    BY <1>1 DEF Ties, Rows
  <1>4. MayRestart => MayRestart'
    BY DEF RowsStep, MayRestart
  <1> QED
    BY <1>2, <1>3, <1>4

\* A row that comes: its creation time is a number.
LEMMA InsertIs ==
    ASSUME ListTypeOK, NEW r \in ListRows, NEW at \in Nat, InsertRow(r, at)
    PROVE  /\ ListTypeOK' /\ RowsStep /\ Matches \subseteq Matches'
           /\ Walking => "came" \in upset'
  <1>1. /\ listed' = [listed EXCEPT ![r] = [at |-> at, matches |-> TRUE]] /\ listed[r] = None
        /\ list' = list /\ walk' = walk /\ steady' = steady /\ deleted' = deleted
        /\ upset' = IF Walking THEN upset \cup {"came"} ELSE upset
        /\ walk.pc = "idle" \/ walk.pc = "walking"
    BY DEF InsertRow, Upset, Walking
  <1>2. [at |-> at, matches |-> TRUE] \in ListRecords
    BY DEF ListRecords
  <1>3. listed' \in [ListRows -> {None} \cup ListRecords]
    BY <1>1, <1>2 DEF ListTypeOK
  <1>4. listed'[r] = [at |-> at, matches |-> TRUE] /\ \A s \in ListRows \ {r} : listed'[s] = listed[s]
    BY <1>1 DEF ListTypeOK
  <1>5. Matches \subseteq Matches'
    BY <1>1, <1>4 DEF Matches
  <1>6. upset \subseteq upset' /\ UpsetOK' /\ (Walking => "came" \in upset')
    <2>1. UpsetOK
      BY DEF ListTypeOK, UpsetOK
    <2> QED
      BY <1>1, <2>1 DEF UpsetOK
  <1>a. DeletedOK'
    BY <1>1, <1>4 DEF ListTypeOK, DeletedOK, Matches
  <1>7. ListTypeOK'
    BY <1>1, <1>3, <1>5, <1>6, <1>a DEF ListTypeOK, UpsetOK, DeletedOK
  <1>8. \A s \in Rows : s \in Rows' /\ listed'[s].at = listed[s].at
    BY <1>1, <1>4 DEF Rows
  <1>9. RowsStep
    BY <1>1, <1>6, <1>8 DEF RowsStep
  <1> QED
    BY <1>5, <1>6, <1>7, <1>9

\* A row whose filter changes.
LEMMA FilterIs ==
    ASSUME ListTypeOK, NEW r \in ListRows, NEW b \in BOOLEAN, listed[r] # None,
           listed' = [listed EXCEPT ![r].matches = b]
    PROVE  /\ listed' \in [ListRows -> {None} \cup ListRecords]
           /\ Rows' = Rows /\ \A s \in Rows : listed'[s].at = listed[s].at
           /\ Matches' = IF b THEN Matches \cup {r} ELSE Matches \ {r}
  <1>1. listed[r] \in ListRecords /\ listed \in [ListRows -> {None} \cup ListRecords]
    BY DEF ListTypeOK
  <1>2. PICK row \in ListRecords : row = [listed[r] EXCEPT !.matches = b]
                                   /\ row.at = listed[r].at /\ row.matches = b
    BY <1>1 DEF ListRecords
  <1>3. listed' = [listed EXCEPT ![r] = row]
    BY <1>2
  <1>4. listed'[r] = row /\ \A s \in ListRows \ {r} : listed'[s] = listed[s]
    BY <1>1, <1>3
  <1>5. row # None
    BY ListingAssumption
  <1>6. listed' \in [ListRows -> {None} \cup ListRecords]
    BY <1>1, <1>3
  <1>7. Rows' = Rows /\ \A s \in Rows : listed'[s].at = listed[s].at
    BY <1>2, <1>4, <1>5 DEF Rows
  <1>8. Matches' = IF b THEN Matches \cup {r} ELSE Matches \ {r}
    <2>1. r \in Matches' <=> b
      BY <1>2, <1>4, <1>5 DEF Matches
    <2>2. \A s \in ListRows \ {r} : s \in Matches' <=> s \in Matches
      BY <1>4 DEF Matches
    <2>3. Matches' \subseteq ListRows /\ Matches \subseteq ListRows
      BY DEF Matches
    <2> QED
      BY <2>1, <2>2, <2>3
  <1> QED
    BY <1>6, <1>7, <1>8

LEMMA LeavesIs ==
    ASSUME ListTypeOK, NEW r \in ListRows, RowLeaves(r)
    PROVE  /\ ListTypeOK' /\ RowsStep /\ Matches' = Matches \ {r}
           /\ Walking => /\ "left" \in upset'
                         /\ walk.cursor = r => "lost" \in upset'
  <1>1. /\ listed' = [listed EXCEPT ![r].matches = FALSE] /\ r \in Matches /\ walk.pc # "done"
        /\ list \in Changing /\ list' = list /\ walk' = walk /\ steady' = steady \ {r}
        /\ deleted' = deleted
        /\ upset' = IF Walking
                    THEN upset \cup {"left"} \cup (IF walk.cursor = r THEN {"lost"} ELSE {})
                    ELSE upset
    BY DEF RowLeaves
  <1>2. listed[r] # None
    BY <1>1 DEF Matches
  <1>3. /\ listed' \in [ListRows -> {None} \cup ListRecords]
        /\ Rows' = Rows /\ \A s \in Rows : listed'[s].at = listed[s].at
        /\ Matches' = Matches \ {r}
    BY <1>1, <1>2, FilterIs
  <1>4. /\ upset \subseteq upset' /\ UpsetOK'
        /\ Walking => "left" \in upset' /\ (walk.cursor = r => "lost" \in upset')
    <2>1. UpsetOK
      BY DEF ListTypeOK, UpsetOK
    <2> QED
      BY <1>1, <2>1 DEF UpsetOK
  <1>a. DeletedOK'
    BY <1>1, <1>3 DEF ListTypeOK, DeletedOK, Rows
  <1>5. ListTypeOK'
    BY <1>1, <1>3, <1>4, <1>a DEF ListTypeOK, UpsetOK, DeletedOK
  <1>6. RowsStep
    BY <1>1, <1>3, <1>4 DEF RowsStep
  <1> QED
    BY <1>3, <1>4, <1>5, <1>6

LEMMA ReturnsIs ==
    ASSUME ListTypeOK, NEW r \in ListRows, RowReturns(r)
    PROVE  /\ ListTypeOK' /\ RowsStep /\ Matches \subseteq Matches'
           /\ Walking => "came" \in upset'
  <1>1. /\ listed' = [listed EXCEPT ![r].matches = TRUE] /\ listed[r] # None /\ walk.pc # "done"
        /\ list' = list /\ walk' = walk /\ steady' = steady /\ deleted' = deleted /\ r \notin deleted
        /\ upset' = IF Walking THEN upset \cup {"came"} ELSE upset
    BY DEF RowReturns, Upset
  <1>2. /\ listed' \in [ListRows -> {None} \cup ListRecords]
        /\ Rows' = Rows /\ \A s \in Rows : listed'[s].at = listed[s].at
        /\ Matches' = Matches \cup {r}
    BY <1>1, FilterIs
  <1>3. upset \subseteq upset' /\ UpsetOK' /\ (Walking => "came" \in upset')
    <2>1. UpsetOK
      BY DEF ListTypeOK, UpsetOK
    <2> QED
      BY <1>1, <2>1 DEF UpsetOK
  <1>a. DeletedOK'
    BY <1>1, <1>2 DEF ListTypeOK, DeletedOK, Rows
  <1>4. ListTypeOK'
    BY <1>1, <1>2, <1>3, <1>a DEF ListTypeOK, UpsetOK, DeletedOK
  <1>5. RowsStep
    BY <1>1, <1>2, <1>3 DEF RowsStep
  <1> QED
    BY <1>2, <1>3, <1>4, <1>5

LEMMA DeletedIs ==
    ASSUME ListTypeOK, NEW r \in ListRows, RowDeleted(r)
    PROVE  /\ ListTypeOK' /\ RowsStep /\ Matches' = Matches \ {r}
           /\ Walking => /\ "left" \in upset'
                         /\ walk.cursor = r => "lost" \in upset'
  <1>1. /\ listed' = [listed EXCEPT ![r].matches = FALSE] /\ listed[r] # None /\ walk.pc # "done"
        /\ list \in Cascaded /\ list' = list /\ walk' = walk /\ steady' = steady \ {r}
        /\ deleted' = deleted \cup {r}
        /\ upset' = IF Walking
                    THEN upset \cup {"left"} \cup
                            (IF walk.cursor = r THEN {"lost", "deleted"} ELSE {})
                    ELSE upset
    BY DEF RowDeleted
  <1>2. /\ listed' \in [ListRows -> {None} \cup ListRecords]
        /\ Rows' = Rows /\ \A s \in Rows : listed'[s].at = listed[s].at
        /\ Matches' = Matches \ {r}
    BY <1>1, FilterIs
  <1>3. /\ upset \subseteq upset' /\ UpsetOK'
        /\ Walking => "left" \in upset' /\ (walk.cursor = r => "lost" \in upset' /\ "deleted" \in upset')
    <2>1. UpsetOK
      BY DEF ListTypeOK, UpsetOK
    <2> QED
      BY <1>1, <2>1 DEF UpsetOK
  <1>4. DeletedOK'
    BY <1>1, <1>2 DEF ListTypeOK, DeletedOK, Rows
  <1>5. ListTypeOK'
    BY <1>1, <1>2, <1>3, <1>4 DEF ListTypeOK, UpsetOK, DeletedOK
  <1>6. RowsStep
    BY <1>1, <1>2, <1>3 DEF RowsStep
  <1> QED
    BY <1>2, <1>3, <1>5, <1>6

\* With rows coming, the place of a row only grows; with rows leaving, it shrinks.
LEMMA PlaceMoves ==
    ASSUME ListTypeOK, ListTypeOK', RowsStep, NEW r \in Rows
    PROVE  /\ Rank(r) \in Nat /\ Rank(r)' \in Nat
           /\ Matches \subseteq Matches' => Rank(r) <= Rank(r)'
           /\ Matches' \subseteq Matches => Rank(r)' <= Rank(r)
  <1>1. PICK S, T : S = {s \in Matches : RowBefore(s, r)} /\ T = {s \in Matches' : RowBefore(s, r)'}
    OBVIOUS
  <1>2. S \subseteq ListRows /\ T \subseteq ListRows
    BY <1>1 DEF Matches
  <1>3. IsFiniteSet(S) /\ IsFiniteSet(T) /\ Cardinality(S) \in Nat /\ Cardinality(T) \in Nat
    BY <1>2, RowFacts
  <1>4. Rank(r) = Cardinality(S) /\ Rank(r)' = Cardinality(T)
    BY <1>1 DEF Rank
  <1>5. \A s \in Matches : RowBefore(s, r)' <=> RowBefore(s, r)
    BY OrderKept, RowFacts
  <1>6. ASSUME Matches \subseteq Matches' PROVE Cardinality(S) <= Cardinality(T)
    <2>1. S \subseteq T
      BY <1>1, <1>5, <1>6
    <2> QED
      BY <1>3, <2>1, FS_Subset
  <1>7. ASSUME Matches' \subseteq Matches PROVE Cardinality(T) <= Cardinality(S)
    <2>1. T \subseteq S
      BY <1>1, <1>5, <1>7
    <2> QED
      BY <1>3, <2>1, FS_Subset
  <1> QED
    BY <1>3, <1>4, <1>6, <1>7

\* What a step of the rows keeps, whichever it is.
LEMMA RowsKeep ==
    ASSUME ListInv, ListTypeOK', RowsStep,
           Walking /\ walk.cursor \in Matches /\ walk.cursor \notin Matches' => "lost" \in upset'
    PROVE  SeenInv' /\ CursorInv' /\ WalkSkipsNothing' /\ WalkRepeatsNothing'
  <1>1. /\ list' = list /\ walk' = walk /\ walk.pc # "done"
        /\ steady' \subseteq steady /\ upset \subseteq upset'
        /\ \A r \in Rows : r \in Rows'
        /\ Walking /\ walk.cursor \in deleted' => walk.cursor \in deleted \/ "deleted" \in upset'
    BY DEF RowsStep
  <1>2. /\ \A r, s \in Rows : RowBefore(r, s)' <=> RowBefore(r, s)
        /\ (Ties => Ties') /\ (MayRestart => MayRestart')
    BY OrderKept
  <1>3. steady \subseteq Rows /\ \A r \in ListRows : walk.seen[r] > 0 => r \in Rows
    BY RowFacts DEF ListInv, ListTypeOK, SeenInv, Rows
  <1>4. walk.cursor # None => walk.cursor \in Rows
    BY DEF ListInv, ListTypeOK, SeenInv, Rows
  <1>5. SeenInv'
    BY <1>1 DEF ListInv, ListTypeOK, SeenInv, Rows
  <1>6. CursorInv'
    <2>1. SUFFICES ASSUME list \in CursorLists, Walking, walk.cursor # None
                   PROVE  /\ walk.cursor \notin Matches' => "lost" \in upset'
                          /\ walk.cursor \in deleted' => "deleted" \in upset'
                          /\ \A r \in steady' : walk.seen[r] > 0 \/ RowBefore(walk.cursor, r)'
                          /\ \/ MayRestart'
                             \/ \A r \in ListRows : walk.seen[r] > 0 => ~RowBefore(walk.cursor, r)'
      BY <1>1 DEF ListInv, CursorInv, Walking, RowBefore
    <2>2. /\ walk.cursor \notin Matches => "lost" \in upset
          /\ walk.cursor \in deleted => "deleted" \in upset
          /\ \A r \in steady : walk.seen[r] > 0 \/ RowBefore(walk.cursor, r)
          /\ \/ MayRestart
             \/ \A r \in ListRows : walk.seen[r] > 0 => ~RowBefore(walk.cursor, r)
      BY <2>1 DEF ListInv, CursorInv
    <2>3. walk.cursor \notin Matches' => "lost" \in upset'
      BY <1>1, <2>1, <2>2
    <2>4. \A r \in Rows : RowBefore(walk.cursor, r)' <=> RowBefore(walk.cursor, r)
      BY <1>1, <1>2, <1>4, <2>1 DEF RowBefore
    <2> QED
      BY <1>1, <1>2, <1>3, <2>1, <2>2, <2>3, <2>4
  <1>7. WalkSkipsNothing' /\ WalkRepeatsNothing'
    BY <1>1, <1>2 DEF ListInv, WalkSkipsNothing, WalkRepeatsNothing
  <1> QED
    BY <1>5, <1>6, <1>7

\* Rows that come do not bring the others to a page that was shown.
LEMMA NumberComes ==
    ASSUME ListInv, ListTypeOK', RowsStep, Matches \subseteq Matches', Walking => "came" \in upset'
    PROVE  NumberInv'
  <1>1. list' = list /\ walk' = walk /\ steady' \subseteq steady /\ upset \subseteq upset' /\ (Ties => Ties')
    BY OrderKept DEF RowsStep
  <1>2. SUFFICES ASSUME list \in OffsetLists, Walking, ~Ties', "left" \notin upset', NEW r \in steady',
                        ~(walk.seen[r] > 0)
                 PROVE  Rank(r)' >= (walk.page - 1) * walk.limit
    BY <1>1 DEF NumberInv, Walking
  <1>3. r \in steady /\ r \in Rows
    BY <1>1, <1>2, RowFacts DEF ListInv, ListTypeOK
  <1>4. PICK k : k = (walk.page - 1) * walk.limit
    OBVIOUS
  <1>5. k \in Int
    BY <1>4 DEF ListInv, ListTypeOK
  <1>6. Rank(r) >= k
    BY <1>1, <1>2, <1>3, <1>4 DEF ListInv, NumberInv
  <1>7. Rank(r) \in Nat /\ Rank(r)' \in Nat /\ Rank(r) <= Rank(r)'
    BY <1>3, PlaceMoves DEF ListInv
  <1> QED
    BY <1>4, <1>5, <1>6, <1>7

\* Rows that leave do not take one that was shown to a page that was not.
LEMMA NumberLeaves ==
    ASSUME ListInv, ListTypeOK', RowsStep, Matches' \subseteq Matches, Walking => "left" \in upset'
    PROVE  NumberInv'
  <1>1. list' = list /\ walk' = walk /\ upset \subseteq upset' /\ (Ties => Ties')
    BY OrderKept DEF RowsStep
  <1>2. SUFFICES ASSUME list \in OffsetLists, Walking, ~Ties', "came" \notin upset', NEW r \in Matches',
                        walk.seen[r] > 0
                 PROVE  Rank(r)' < (walk.page - 1) * walk.limit
    BY <1>1 DEF NumberInv, Walking
  <1>3. r \in Matches /\ r \in Rows
    BY <1>2, RowFacts DEF ListInv
  <1>4. PICK k : k = (walk.page - 1) * walk.limit
    OBVIOUS
  <1>5. k \in Int
    BY <1>4 DEF ListInv, ListTypeOK
  <1>6. Rank(r) < k
    BY <1>1, <1>2, <1>3, <1>4 DEF ListInv, NumberInv
  <1>7. Rank(r) \in Nat /\ Rank(r)' \in Nat /\ Rank(r)' <= Rank(r)
    BY <1>3, PlaceMoves DEF ListInv
  <1> QED
    BY <1>4, <1>5, <1>6, <1>7

LEMMA RowsChange ==
    ASSUME ListInv, NEW r \in ListRows,
           \/ \E at \in 0..Cardinality(ListRows) : InsertRow(r, at)
           \/ RowLeaves(r) \/ RowReturns(r) \/ RowDeleted(r)
    PROVE  ListInv'
  <1>1. ListTypeOK
    BY DEF ListInv
  <1>2. CASE \E at \in 0..Cardinality(ListRows) : InsertRow(r, at)
    <2>1. PICK at \in Nat : InsertRow(r, at)
      <3>1. PICK at \in 0..Cardinality(ListRows) : InsertRow(r, at)
        BY <1>2
      <3>2. Cardinality(ListRows) \in Nat
        BY ListingAssumption, FS_CardinalityType
      <3>3. at \in Nat
        BY <3>2
      <3> QED
        BY <3>1, <3>3
    <2>2. /\ ListTypeOK' /\ RowsStep /\ Matches \subseteq Matches'
          /\ Walking => "came" \in upset'
      BY <1>1, <2>1, InsertIs
    <2>3. NumberInv'
      BY <2>2, NumberComes
    <2>4. SeenInv' /\ CursorInv' /\ WalkSkipsNothing' /\ WalkRepeatsNothing'
      BY <2>2, RowsKeep
    <2> QED
      BY <2>2, <2>3, <2>4 DEF ListInv
  <1>3. CASE RowLeaves(r) \/ RowDeleted(r)
    <2>1. /\ ListTypeOK' /\ RowsStep /\ Matches' = Matches \ {r}
          /\ Walking => "left" \in upset' /\ (walk.cursor = r => "lost" \in upset')
      BY <1>1, <1>3, LeavesIs, DeletedIs
    <2>2. NumberInv'
      BY <2>1, NumberLeaves
    <2>3. SeenInv' /\ CursorInv' /\ WalkSkipsNothing' /\ WalkRepeatsNothing'
      BY <2>1, RowsKeep
    <2> QED
      BY <2>1, <2>2, <2>3 DEF ListInv
  <1>4. CASE RowReturns(r)
    <2>1. /\ ListTypeOK' /\ RowsStep /\ Matches \subseteq Matches'
          /\ Walking => "came" \in upset'
      BY <1>1, <1>4, ReturnsIs
    <2>2. NumberInv'
      BY <2>1, NumberComes
    <2>3. SeenInv' /\ CursorInv' /\ WalkSkipsNothing' /\ WalkRepeatsNothing'
      BY <2>1, RowsKeep
    <2> QED
      BY <2>1, <2>2, <2>3 DEF ListInv
  <1> QED
    BY <1>2, <1>3, <1>4

-----------------------------------------------------------------------------
\* The client's steps: the rows stay as they are.

\* Everything that is said of the rows and not of the client.
LEMMA ListStays ==
    ASSUME list' = list, listed' = listed
    PROVE  /\ Matches' = Matches /\ Rows' = Rows /\ (Ties' <=> Ties)
           /\ \A r, s : RowBefore(r, s)' <=> RowBefore(r, s)
           /\ \A r : Rank(r)' = Rank(r)
  <1>1. Matches' = Matches /\ Rows' = Rows /\ (Ties' <=> Ties)
    BY DEF Matches, Rows, Ties
  <1>2. \A r, s : RowBefore(r, s)' <=> RowBefore(r, s)
    BY DEF RowBefore
  <1>3. \A r : Rank(r)' = Rank(r)
    BY DEF Rank, Matches, RowBefore
  <1> QED
    BY <1>1, <1>2, <1>3

\* A limit is never zero.
LEMMA LimitsPositive ==
    ASSUME NEW n \in ListLimits
    PROVE  LimitOf(n) \in Nat \ {0}
  <1>1. n \in Nat /\ DefaultLimit \in Nat \ {0} /\ MaxLimit \in Nat \ {0}
    BY ListingAssumption
  <1>2. ClampLimit(n) \in Nat \ {0} /\ ServiceLimit(n) \in Nat \ {0}
    BY <1>1 DEF ClampLimit, ServiceLimit
  <1>3. \/ LimitOf(n) = ClampLimit(n) \/ LimitOf(n) = ServiceLimit(n)
    BY DEF LimitOf, ListProjects, ListProjectTasks, ListLogs, CursorLists
  <1> QED
    BY <1>2, <1>3

LEMMA WalkStarts ==
    ASSUME ListInv, NEW n \in ListLimits, StartWalk(n)
    PROVE  ListInv'
  <1>1. /\ walk.pc = "idle" /\ walk' = [walk EXCEPT !.pc = "walking", !.limit = LimitOf(n)]
        /\ steady' = Matches /\ UNCHANGED <<list, listed, deleted, upset>>
    BY DEF StartWalk
  <1>2. LimitOf(n) \in Nat \ {0}
    BY LimitsPositive
  <1>3. /\ walk \in [pc : {"idle", "walking", "done"}, cursor : ListRows \cup {None},
                     page : Nat \ {0}, limit : Nat \ {0}, seen : [ListRows -> 0..2]]
        /\ walk.cursor = None /\ walk.page = 1 /\ \A r \in ListRows : walk.seen[r] = 0
    BY <1>1 DEF ListInv, ListTypeOK, SeenInv
  <1>4. /\ walk' \in [pc : {"idle", "walking", "done"}, cursor : ListRows \cup {None},
                      page : Nat \ {0}, limit : Nat \ {0}, seen : [ListRows -> 0..2]]
        /\ walk'.pc = "walking" /\ walk'.cursor = None /\ walk'.page = 1 /\ walk'.limit \in Nat \ {0}
        /\ \A r \in ListRows : walk'.seen[r] = 0
    BY <1>1, <1>2, <1>3
  <1>5. Matches' = Matches /\ \A r : Rank(r)' = Rank(r)
    BY <1>1, ListStays
  <1>6. ListTypeOK'
    BY <1>1, <1>4, <1>5 DEF ListInv, ListTypeOK
  <1>7. SeenInv' /\ CursorInv' /\ WalkSkipsNothing' /\ WalkRepeatsNothing'
    BY <1>4 DEF SeenInv, CursorInv, WalkSkipsNothing, WalkRepeatsNothing
  <1>8. NumberInv'
    <2>1. \A r \in Matches : Rank(r) \in Nat /\ r \in ListRows
      BY RowFacts DEF Rank, ListInv, Matches
    <2>2. (walk'.page - 1) * walk'.limit = 0
      BY <1>4
    <2> QED
      BY <1>1, <1>4, <1>5, <2>1, <2>2 DEF NumberInv
  <1> QED
    BY <1>6, <1>7, <1>8 DEF ListInv

\* What a page adds to what the client has seen.
LEMMA SawIs ==
    ASSUME ListTypeOK, NEW data
    PROVE  /\ Saw(data) \in [ListRows -> 0..2]
           /\ \A r \in ListRows :
                 /\ Saw(data)[r] > 0 <=> walk.seen[r] > 0 \/ r \in data
                 /\ Saw(data)[r] > 1 => walk.seen[r] > 1 \/ (r \in data /\ walk.seen[r] > 0)
  <1>1. \A r \in ListRows : walk.seen[r] \in 0..2
    BY DEF ListTypeOK
  <1> QED
    BY <1>1 DEF Saw

-----------------------------------------------------------------------------
\* By cursor.

\* Which rows the next page is taken from: those after the cursor, or, when the
\* store does not find it, all.
LEMMA PageFrom ==
    ASSUME ListInv, Walking, list \in CursorLists
    PROVE  \E S \in SUBSET Matches :
              /\ CursorPage(walk.cursor, walk.limit) = FirstPage(S, walk.limit)
              /\ walk.cursor = None => S = Matches
              /\ walk.cursor # None =>
                    \/ S = After(walk.cursor)
                    \/ S = Matches /\ MayRestart
  <1>1. PICK c, L : c = walk.cursor /\ L = walk.limit
    OBVIOUS
  <1>2. After(c) \subseteq Matches /\ None \notin Matches
    BY ListingAssumption DEF After, Matches
  <1>3. c # None /\ c \notin Matches => "lost" \in upset
    BY <1>1 DEF ListInv, CursorInv
  <1>a. c # None /\ c \in deleted => "deleted" \in upset
    BY <1>1 DEF ListInv, CursorInv
  <1>4. list \in {"memoryCapabilities", "postgresCapabilities"} => "lost" \notin upset
    BY DEF ListInv, ListTypeOK, Changing, Growing, Cascaded
  <1>5. CASE list = "memoryAgents"
    <2>1. CursorPage(c, L) = FirstPage(IF c \in Matches THEN After(c) ELSE Matches, L)
      BY <1>5 DEF CursorPage, MemoryAgentList
    <2> QED
      BY <1>1, <1>2, <1>3, <1>5, <2>1 DEF MayRestart
  <1>6. CASE list = "memoryCapabilities"
    <2>1. CursorPage(c, L) = FirstPage(IF c \in Matches THEN After(c) ELSE Matches, L)
      BY <1>6 DEF CursorPage, MemoryCapabilityList
    <2> QED
      BY <1>1, <1>2, <1>3, <1>4, <1>6, <2>1
  <1>b. CASE list \in Cascaded
    <2>1. CursorPage(c, L) = FirstPage(IF c = None \/ c \in deleted THEN Matches ELSE After(c), L)
      BY <1>b DEF Cascaded, CursorPage, PostgresExecutionList, PostgresDeliverableList
    <2> QED
      BY <1>1, <1>2, <1>a, <1>b, <2>1 DEF MayRestart
  <1>7. CASE list \notin {"memoryAgents", "memoryCapabilities"} \cup Cascaded
    <2>1. CursorPage(c, L) = FirstPage(IF c = None THEN Matches ELSE After(c), L)
      BY <1>7 DEF CursorLists, Cascaded, CursorPage, PostgresAgentList, PostgresCapabilityList,
         MemoryExecutionList, MemoryDeliverableList
    <2> QED
      BY <1>1, <1>2, <2>1
  <1> QED
    BY <1>5, <1>6, <1>b, <1>7

\* Every row that stayed is seen, or comes after the new cursor; and a page shows
\* only rows that were not seen, unless the walk started again.
LEMMA PageShows ==
    ASSUME ListInv, Walking, list \in CursorLists, NEW page,
           page = CursorPage(walk.cursor, walk.limit)
    PROVE  /\ page.data \subseteq Matches /\ page.next \in Matches \cup {None}
           /\ \A r \in steady : \/ walk.seen[r] > 0 \/ r \in page.data
                                \/ page.next # None /\ RowBefore(page.next, r)
           /\ \/ MayRestart
              \/ \A r \in ListRows :
                    /\ walk.seen[r] > 0 => r \notin page.data
                    /\ page.next # None /\ (walk.seen[r] > 0 \/ r \in page.data) =>
                          ~RowBefore(page.next, r)
  <1>1. PICK S \in SUBSET Matches :
              /\ page = FirstPage(S, walk.limit)
              /\ walk.cursor = None => S = Matches
              /\ walk.cursor # None =>
                    \/ S = After(walk.cursor)
                    \/ S = Matches /\ MayRestart
    BY PageFrom
  <1>2. PICK c, seen, data, next : /\ c = walk.cursor /\ seen = walk.seen
                                   /\ data = page.data /\ next = page.next
    OBVIOUS
  <1>3. ListTypeOK /\ S \in SUBSET Rows /\ walk.limit \in Nat \ {0} /\ Matches \subseteq Rows
    BY <1>1, RowFacts DEF ListInv, ListTypeOK
  <1>4. /\ data \subseteq S /\ (next = None => data = S)
        /\ next # None => /\ next \in data
                          /\ \A s \in data : s = next \/ RowBefore(s, next)
                          /\ \A r \in S \ data : RowBefore(next, r)
    <2>1. Parts(page, S)
      BY <1>1, <1>3, PageParts
    <2> QED
      BY ONLY <1>2, <2>1 DEF Parts
  <1>5. /\ c = None => \A r \in ListRows : ~(seen[r] > 0)
        /\ c # None => /\ c \in Rows
                       /\ \A r \in steady : seen[r] > 0 \/ RowBefore(c, r)
                       /\ \/ MayRestart
                          \/ \A r \in ListRows : seen[r] > 0 => ~RowBefore(c, r)
    BY <1>2 DEF ListInv, ListTypeOK, SeenInv, CursorInv, Rows
  <1>6. data \subseteq Matches /\ next \in Matches \cup {None}
    BY <1>1, <1>4
  <1>7. ASSUME NEW r \in steady PROVE seen[r] > 0 \/ r \in data \/ (next # None /\ RowBefore(next, r))
    <2>1. SUFFICES ASSUME ~(seen[r] > 0) PROVE r \in data \/ (next # None /\ RowBefore(next, r))
      OBVIOUS
    <2>2. r \in Matches
      BY DEF ListInv, ListTypeOK
    <2>3. r \in S
      BY <1>1, <1>2, <1>5, <2>1, <2>2 DEF After
    <2> QED
      BY <1>4, <2>3
  <1>8. ASSUME ~MayRestart, NEW r \in ListRows
        PROVE  /\ seen[r] > 0 => r \notin data
               /\ next # None /\ (seen[r] > 0 \/ r \in data) => ~RowBefore(next, r)
    <2>1. c # None => S = After(c) /\ (seen[r] > 0 => ~RowBefore(c, r)) /\ c \in Rows
      BY <1>1, <1>2, <1>5, <1>8
    <2>2. seen[r] > 0 => c # None /\ r \in Rows
      BY <1>2, <1>5, <1>8 DEF ListInv, SeenInv, Rows
    <2>3. c # None => \A s \in data : RowBefore(c, s)
      BY <1>4, <2>1 DEF After
    <2>4. seen[r] > 0 => r \notin data
      BY <2>1, <2>2, <2>3
    <2>5. ASSUME next # None, r \in data PROVE ~RowBefore(next, r)
      <3>1. next \in Rows /\ r \in Rows /\ (r = next \/ RowBefore(r, next))
        BY <1>3, <1>4, <1>6, <2>5
      <3> QED
        BY <1>3, <3>1, ListOrdered
    <2>6. ASSUME next # None, seen[r] > 0 PROVE ~RowBefore(next, r)
      <3>1. next \in Rows /\ r \in Rows /\ c \in Rows /\ RowBefore(c, next) /\ ~RowBefore(c, r)
        BY <1>3, <1>4, <1>6, <2>1, <2>2, <2>3, <2>6
      <3> QED
        BY <1>3, <3>1, ListOrdered
    <2> QED
      BY <2>4, <2>5, <2>6
  <1> QED
    BY <1>2, <1>6, <1>7, <1>8

LEMMA CursorMoves ==
    ASSUME ListInv, NextByCursor
    PROVE  ListInv'
  <1>1. PICK page : page = CursorPage(walk.cursor, walk.limit)
    OBVIOUS
  <1>2. /\ Walking /\ list \in CursorLists
        /\ walk' = [walk EXCEPT !.cursor = page.next, !.seen = Saw(page.data),
                                !.pc = IF page.next = None THEN "done" ELSE "walking"]
        /\ UNCHANGED <<list, listed, deleted, steady, upset>>
    BY <1>1 DEF NextByCursor
  <1>3. /\ page.data \subseteq Matches /\ page.next \in Matches \cup {None}
        /\ \A r \in steady : \/ walk.seen[r] > 0 \/ r \in page.data
                             \/ page.next # None /\ RowBefore(page.next, r)
        /\ \/ MayRestart
           \/ \A r \in ListRows :
                 /\ walk.seen[r] > 0 => r \notin page.data
                 /\ page.next # None /\ (walk.seen[r] > 0 \/ r \in page.data) =>
                       ~RowBefore(page.next, r)
    BY <1>1, <1>2, PageShows
  <1>4. PICK seen \in [ListRows -> 0..2] :
           /\ seen = Saw(page.data)
           /\ \A r \in ListRows :
                 /\ seen[r] > 0 <=> walk.seen[r] > 0 \/ r \in page.data
                 /\ seen[r] > 1 => walk.seen[r] > 1 \/ (r \in page.data /\ walk.seen[r] > 0)
    BY SawIs DEF ListInv
  <1>5. walk \in [pc : {"idle", "walking", "done"}, cursor : ListRows \cup {None},
                  page : Nat \ {0}, limit : Nat \ {0}, seen : [ListRows -> 0..2]]
    BY DEF ListInv, ListTypeOK
  <1>6. Matches \subseteq ListRows /\ Matches \subseteq Rows /\ \A r \in Rows : listed[r] # None
    BY RowFacts DEF ListInv, Rows
  <1>7. /\ walk' \in [pc : {"idle", "walking", "done"}, cursor : ListRows \cup {None},
                      page : Nat \ {0}, limit : Nat \ {0}, seen : [ListRows -> 0..2]]
        /\ walk'.cursor = page.next /\ walk'.seen = seen
        /\ walk'.pc = IF page.next = None THEN "done" ELSE "walking"
    BY <1>2, <1>3, <1>4, <1>5, <1>6
  <1>8. Matches' = Matches /\ (Ties' <=> Ties) /\ \A r, s : RowBefore(r, s)' <=> RowBefore(r, s)
    BY <1>2, ListStays
  <1>a. MayRestart' <=> MayRestart
    BY <1>2 DEF MayRestart
  <1>b. page.next \notin deleted
    BY <1>3, ListingAssumption DEF ListInv, ListTypeOK
  <1>9. ListTypeOK'
    BY <1>2, <1>7, <1>8 DEF ListInv, ListTypeOK
  <1>10. SeenInv'
    <2>1. \A r \in ListRows : seen[r] > 0 => listed[r] # None
      BY <1>3, <1>4, <1>6 DEF ListInv, SeenInv
    <2>2. page.next # None => listed[page.next] # None
      BY <1>3, <1>6
    <2> QED
      BY <1>2, <1>7, <2>1, <2>2 DEF SeenInv
  <1>11. \A r \in steady : r \in ListRows /\ (seen[r] > 0 \/ (page.next # None /\ RowBefore(page.next, r)))
    BY <1>3, <1>4, <1>6 DEF ListInv, ListTypeOK
  <1>12. \/ MayRestart
         \/ \A r \in ListRows : page.next # None /\ seen[r] > 0 => ~RowBefore(page.next, r)
    BY <1>3, <1>4
  <1>13. CursorInv'
    BY <1>2, <1>3, <1>7, <1>8, <1>11, <1>12, <1>a, <1>b DEF CursorInv, Walking, RowBefore
  <1>14. list \notin OffsetLists
    BY <1>2 DEF CursorLists, OffsetLists
  <1>15. NumberInv'
    BY <1>2, <1>14 DEF NumberInv
  <1>16. WalkSkipsNothing'
    BY <1>2, <1>7, <1>11 DEF WalkSkipsNothing
  <1>17. WalkRepeatsNothing'
    <2>1. \A r \in ListRows : walk.seen[r] > 1 => MayRestart
      BY <1>14 DEF ListInv, WalkRepeatsNothing
    <2>2. \A r \in ListRows : seen[r] > 1 => MayRestart
      BY <1>3, <1>4, <2>1
    <2> QED
      BY <1>2, <1>7, <1>a, <2>2 DEF WalkRepeatsNothing
  <1> QED
    BY <1>9, <1>10, <1>13, <1>15, <1>16, <1>17 DEF ListInv

-----------------------------------------------------------------------------
\* By number.

\* Without ties the pages are cut by the place of a row, whatever the order of
\* ties would have been.
LEMMA PlaceIs ==
    ASSUME ListTypeOK, list \in OffsetLists, ~Ties, NEW order \in TieOrders,
           NEW page \in Nat \ {0}, NEW limit \in Nat \ {0}
    PROVE  OffsetPage(order, page, limit) =
              {r \in Matches : Rank(r) \in (page - 1) * limit..page * limit - 1}
  <1>1. OffsetPage(order, page, limit) = OffsetRows(order, page, limit)
    BY DEF OffsetLists, OffsetPage, MemoryProjectList, PostgresProjectList, MemoryTaskList,
       MemoryAuditLogList, PostgresAuditLogList
  <1> DEFINE before(r) == {s \in Matches : \/ listed[s].at < listed[r].at
                                           \/ listed[s].at = listed[r].at /\ order[s] < order[r]}
             ahead(r) == {s \in Matches : RowBefore(s, r)}
  <1>2. PICK at : \A r \in Rows : at[r] = listed[r].at /\ at[r] \in Nat
    <2>1. \A r \in Rows : [q \in Rows |-> listed[q].at][r] = listed[r].at
      OBVIOUS
    <2> QED
      BY <2>1, RowFacts
  <1>3. \A r, s \in Rows : r # s => at[r] # at[s]
    BY <1>2 DEF Ties, Rows
  <1>4. \A r \in ListRows : order[r] \in Nat
    BY ListingAssumption DEF TieOrders
  <1>5. Matches \subseteq Rows /\ Matches \subseteq ListRows
    BY RowFacts
  <1>6. \A r, s \in Matches : s \in before(r) <=> at[s] < at[r]
    <2>1. ASSUME NEW r \in Matches, NEW s \in Matches PROVE s \in before(r) <=> at[s] < at[r]
      <3>1. at[s] = at[r] => s = r
        BY <1>3, <1>5
      <3>2. ~(order[r] < order[r])
        BY <1>4, <1>5
      <3>3. at[s] = listed[s].at /\ at[r] = listed[r].at /\ at[s] \in Nat /\ at[r] \in Nat
        BY <1>2, <1>5
      <3> QED
        BY <3>1, <3>2, <3>3
    <2> QED
      BY <2>1
  <1>7. \A S \in SUBSET ListRows : IsFiniteSet(S) /\ Cardinality(S) \in Nat
    BY RowFacts
  <1>8. list \notin {"memoryCapabilities", "postgresCapabilities"}
    BY DEF OffsetLists
  <1>9. CASE list \in Ascending
    <2>1. \A r, s \in Matches : RowBefore(s, r) <=> at[s] < at[r]
      <3>1. \A r, s \in Matches : RowBefore(s, r) <=> (at[s] < at[r] \/ (at[s] = at[r] /\ s < r))
        BY <1>2, <1>5, <1>8, <1>9 DEF RowBefore
      <3>2. \A r \in Matches : r \in Nat
        BY <1>5, RowFacts
      <3> QED
        BY <1>2, <1>3, <1>5, <3>1, <3>2
    <2>2. \A r \in Matches : before(r) = ahead(r)
      BY <1>6, <2>1
    <2>3. OffsetRows(order, page, limit) =
             {r \in Matches : Cardinality(before(r)) \in (page - 1) * limit..page * limit - 1}
      BY <1>9 DEF OffsetRows
    <2>4. \A r \in Matches : Cardinality(before(r)) = Rank(r)
      BY <2>2 DEF Rank
    <2> HIDE DEF before, ahead
    <2> QED
      BY <1>1, <2>3, <2>4
  <1>10. CASE list \notin Ascending
    <2>1. \A r, s \in Matches : RowBefore(s, r) <=> at[s] > at[r]
      <3>1. \A r, s \in Matches : RowBefore(s, r) <=> (at[s] > at[r] \/ (at[s] = at[r] /\ s > r))
        BY <1>2, <1>5, <1>8, <1>10 DEF RowBefore
      <3>2. \A r \in Matches : r \in Nat
        BY <1>5, RowFacts
      <3> QED
        BY <1>2, <1>3, <1>5, <3>1, <3>2
    <2>2. ASSUME NEW r \in Matches
          PROVE  Cardinality(ahead(r)) = Cardinality(Matches) - 1 - Cardinality(before(r))
      <3>1. ahead(r) = (Matches \ {r}) \ before(r) /\ before(r) \subseteq Matches \ {r}
        BY <1>2, <1>3, <1>5, <1>6, <2>1
      <3>2. IsFiniteSet(Matches) /\ Cardinality(Matches) \in Nat
        BY <1>5, <1>7
      <3>3. IsFiniteSet(Matches \ {r}) /\ Cardinality(Matches \ {r}) = Cardinality(Matches) - 1
        BY <3>2, FS_RemoveElement
      <3> HIDE DEF before, ahead
      <3>4. (Matches \ {r}) \cap before(r) = before(r)
        BY <3>1
      <3>5. Cardinality((Matches \ {r}) \ before(r)) = Cardinality(Matches \ {r}) - Cardinality(before(r))
        BY <3>3, <3>4, FS_Difference
      <3> QED
        BY <3>1, <3>3, <3>5
    <2>3. OffsetRows(order, page, limit) =
             {r \in Matches : Cardinality(Matches) - 1 - Cardinality(before(r))
                                 \in (page - 1) * limit..page * limit - 1}
      BY <1>10 DEF OffsetRows
    <2>4. \A r \in Matches : Cardinality(Matches) - 1 - Cardinality(before(r)) = Rank(r)
      BY <2>2 DEF Rank
    <2> HIDE DEF before, ahead
    <2> QED
      BY <1>1, <2>3, <2>4
  <1> QED
    BY <1>9, <1>10

\* The place of a row on the list is below the number of rows.
LEMMA PlaceBelow ==
    ASSUME ListTypeOK, NEW r \in Matches
    PROVE  Rank(r) \in Nat /\ Cardinality(Matches) \in Nat /\ Rank(r) < Cardinality(Matches)
  <1>1. PICK S : S = {s \in Matches : RowBefore(s, r)}
    OBVIOUS
  <1>2. r \in Rows /\ Matches \subseteq ListRows
    BY RowFacts
  <1>3. S \subseteq Matches /\ r \notin S
    BY <1>1, <1>2, ListOrdered
  <1>4. /\ IsFiniteSet(S) /\ IsFiniteSet(Matches) /\ Cardinality(S) \in Nat /\ Cardinality(Matches) \in Nat
    BY <1>2, <1>3, RowFacts
  <1>5. Cardinality(S) <= Cardinality(Matches) /\ (Cardinality(Matches) = Cardinality(S) => Matches = S)
    BY <1>3, <1>4, FS_Subset
  <1>6. Rank(r) = Cardinality(S)
    BY <1>1 DEF Rank
  <1> QED
    BY <1>3, <1>4, <1>5, <1>6

\* One more page.
LEMMA NextPage ==
    ASSUME NEW p \in Nat \ {0}, NEW L \in Nat \ {0}
    PROVE  /\ (p - 1) * L \in Nat /\ p * L \in Nat /\ p * L = (p - 1) * L + L
           /\ p + 1 - 1 = p
  OBVIOUS

\* The pages are enough for the rows.
LEMMA PagesEnough ==
    ASSUME NEW n \in Nat, NEW L \in Nat \ {0}, NEW p \in Nat \ {0}, p >= (n + L - 1) \div L
    PROVE  n <= p * L
  <1>1. PICK q \in Int : q = (n + L - 1) \div L
    OBVIOUS
  <1>2. q * L <= n + L - 1 /\ n + L - 1 < q * L + L
    BY <1>1
  <1>3. q * L <= p * L
    BY <1>1
  <1> QED
    BY <1>2, <1>3

LEMMA NumberMoves ==
    ASSUME ListInv, NEW order \in TieOrders, NextByNumber(order)
    PROVE  ListInv'
  <1>1. PICK data, pages : /\ data = OffsetPage(order, walk.page, walk.limit)
                           /\ pages = (Cardinality(Matches) + walk.limit - 1) \div walk.limit
    OBVIOUS
  <1>2. /\ Walking /\ list \in OffsetLists
        /\ walk' = [walk EXCEPT !.page = @ + 1, !.seen = Saw(data),
                                !.pc = IF walk.page >= pages THEN "done" ELSE "walking"]
        /\ UNCHANGED <<list, listed, deleted, steady, upset>>
    BY <1>1 DEF NextByNumber
  <1>3. PICK seen \in [ListRows -> 0..2] :
           /\ seen = Saw(data)
           /\ \A r \in ListRows :
                 /\ seen[r] > 0 <=> walk.seen[r] > 0 \/ r \in data
                 /\ seen[r] > 1 => walk.seen[r] > 1 \/ (r \in data /\ walk.seen[r] > 0)
    BY SawIs DEF ListInv
  <1>4. walk \in [pc : {"idle", "walking", "done"}, cursor : ListRows \cup {None},
                  page : Nat \ {0}, limit : Nat \ {0}, seen : [ListRows -> 0..2]]
    BY DEF ListInv, ListTypeOK
  <1>5. PICK p \in Nat \ {0}, L \in Nat \ {0} : p = walk.page /\ L = walk.limit
    BY <1>4
  <1>6. /\ walk' \in [pc : {"idle", "walking", "done"}, cursor : ListRows \cup {None},
                      page : Nat \ {0}, limit : Nat \ {0}, seen : [ListRows -> 0..2]]
        /\ walk'.cursor = walk.cursor /\ walk'.seen = seen /\ walk'.page = p + 1 /\ walk'.limit = L
        /\ walk'.pc = IF p >= pages THEN "done" ELSE "walking"
    <2>1. PICK q \in Nat \ {0}, pc \in {"walking", "done"} :
             q = p + 1 /\ pc = IF p >= pages THEN "done" ELSE "walking"
      OBVIOUS
    <2>2. walk' = [walk EXCEPT !.page = q, !.seen = seen, !.pc = pc]
      BY <1>2, <1>3, <1>5, <2>1
    <2>3. /\ walk' \in [pc : {"idle", "walking", "done"}, cursor : ListRows \cup {None},
                         page : Nat \ {0}, limit : Nat \ {0}, seen : [ListRows -> 0..2]]
          /\ walk'.cursor = walk.cursor /\ walk'.seen = seen /\ walk'.page = q
          /\ walk'.limit = walk.limit /\ walk'.pc = pc
      BY <1>4, <2>2
    <2> QED
      BY <1>5, <2>1, <2>3
  <1>7. /\ Matches' = Matches /\ (Ties' <=> Ties)
        /\ \A r, s : RowBefore(r, s)' <=> RowBefore(r, s)
        /\ \A r : Rank(r)' = Rank(r)
    BY <1>2, ListStays
  <1>8. ListTypeOK'
    BY <1>2, <1>6, <1>7 DEF ListInv, ListTypeOK
  <1>9. data \subseteq Matches /\ Matches \subseteq ListRows /\ \A r \in Matches : listed[r] # None
    BY <1>1, <1>2 DEF Matches, OffsetLists, OffsetPage, OffsetRows, MemoryProjectList,
       PostgresProjectList, MemoryTaskList, MemoryAuditLogList, PostgresAuditLogList
  <1>10. SeenInv'
    <2>1. \A r \in ListRows : seen[r] > 0 => listed[r] # None
      BY <1>3, <1>9 DEF ListInv, SeenInv
    <2> QED
      BY <1>2, <1>6, <2>1 DEF ListInv, SeenInv
  <1>11. CursorInv'
    BY <1>2 DEF CursorInv, CursorLists, OffsetLists
  <1>12. PICK low \in Nat, high \in Nat : /\ low = (p - 1) * L /\ high = p * L /\ high = low + L
                                          /\ (p + 1 - 1) * L = high
    BY NextPage
  <1>13. ASSUME ~Ties PROVE data = {r \in Matches : Rank(r) \in low..high - 1}
    BY <1>1, <1>2, <1>5, <1>12, <1>13, PlaceIs DEF ListInv
  <1>14. \A r \in Matches : Rank(r) \in Nat /\ Rank(r) < Cardinality(Matches) /\ Cardinality(Matches) \in Nat
    BY PlaceBelow DEF ListInv
  <1>15. steady \subseteq Matches
    BY DEF ListInv, ListTypeOK
  \* Rows that stayed are seen, or come after this page.
  <1>16. ASSUME ~Ties, "left" \notin upset, NEW r \in steady PROVE seen[r] > 0 \/ Rank(r) >= high
    <2>1. r \in Matches /\ r \in ListRows /\ Rank(r) \in Nat
      BY <1>9, <1>14, <1>15
    <2>2. walk.seen[r] > 0 \/ Rank(r) >= low
      BY <1>2, <1>5, <1>12, <1>16 DEF ListInv, NumberInv
    <2>3. CASE walk.seen[r] > 0
      BY <1>3, <2>1, <2>3
    <2>4. CASE Rank(r) >= low /\ Rank(r) < high
      <3>1. r \in data
        BY <1>13, <1>16, <2>1, <2>4
      <3> QED
        BY <1>3, <2>1, <3>1
    <2> QED
      BY <2>1, <2>2, <2>3, <2>4
  \* The rows of this page were not seen, and all those seen are before the next.
  <1>17. ASSUME ~Ties, "came" \notin upset, NEW r \in Matches
         PROVE  /\ r \in data => ~(walk.seen[r] > 0)
                /\ seen[r] > 0 => Rank(r) < high
    <2>1. r \in ListRows /\ Rank(r) \in Nat
      BY <1>9, <1>14
    <2>2. walk.seen[r] > 0 => Rank(r) < low
      BY <1>2, <1>5, <1>12, <1>17 DEF ListInv, NumberInv
    <2>3. r \in data => Rank(r) \in low..high - 1
      BY <1>13, <1>17
    <2> QED
      BY <1>3, <1>12, <2>1, <2>2, <2>3
  <1>18. NumberInv'
    BY <1>2, <1>6, <1>7, <1>12, <1>16, <1>17 DEF NumberInv
  <1>19. WalkSkipsNothing'
    <2>1. ASSUME p >= pages, ~Ties, "left" \notin upset, NEW r \in steady PROVE seen[r] > 0
      <3>1. PICK n \in Nat : n = Cardinality(Matches) /\ Rank(r) < n /\ Rank(r) \in Nat
        BY <1>14, <1>15
      <3>2. n <= high
        BY <1>1, <1>5, <1>12, <2>1, <3>1, PagesEnough
      <3> QED
        BY <1>16, <2>1, <3>1, <3>2
    <2> QED
      BY <1>2, <1>6, <1>7, <2>1 DEF WalkSkipsNothing
  <1>20. WalkRepeatsNothing'
    <2>1. ASSUME ~Ties, "came" \notin upset, NEW r \in ListRows PROVE ~(seen[r] > 1)
      <3>1. ~(walk.seen[r] > 1)
        BY <1>2, <2>1 DEF ListInv, WalkRepeatsNothing, MayRestart, Cascaded, OffsetLists
      <3> QED
        BY <1>3, <1>9, <1>17, <2>1, <3>1
    <2> QED
      BY <1>2, <1>6, <1>7, <2>1 DEF WalkRepeatsNothing
  <1> QED
    BY <1>8, <1>10, <1>11, <1>18, <1>19, <1>20 DEF ListInv

-----------------------------------------------------------------------------
\* An empty list and a client that has not begun.
LEMMA ListInitially == ListInit => ListInv
  <1> SUFFICES ASSUME ListInit PROVE ListInv
    OBVIOUS
  <1>1. /\ list \in CursorLists \cup OffsetLists /\ listed = [r \in ListRows |-> None]
        /\ walk = [pc |-> "idle", cursor |-> None, page |-> 1, limit |-> 1,
                   seen |-> [r \in ListRows |-> 0]]
        /\ steady = {} /\ upset = {} /\ deleted = {}
    BY DEF ListInit
  <1>2. ListTypeOK
    BY <1>1 DEF ListTypeOK
  <1>3. SeenInv /\ CursorInv /\ NumberInv /\ WalkSkipsNothing /\ WalkRepeatsNothing
    BY <1>1 DEF SeenInv, CursorInv, NumberInv, WalkSkipsNothing, WalkRepeatsNothing, Walking
  <1> QED
    BY <1>2, <1>3 DEF ListInv

LEMMA ListStepInv ==
    ASSUME ListInv, [ListNext]_listVars
    PROVE  ListInv'
  <1>1. CASE ListNext
    BY <1>1, RowsChange, WalkStarts, CursorMoves, NumberMoves DEF ListNext
  <1>2. CASE UNCHANGED listVars
    <2>1. UNCHANGED <<list, listed, deleted, walk, steady, upset>>
      BY <1>2 DEF listVars
    <2> QED
      BY <2>1 DEF ListInv, ListTypeOK, SeenInv, CursorInv, NumberInv, WalkSkipsNothing,
         WalkRepeatsNothing, MayRestart, Matches, Walking, Rank, RowBefore, Ties
  <1> QED
    BY <1>1, <1>2

\* The walk of a paged list keeps its invariant, for every list, any rows, any
\* limits and any changes between the pages.
THEOREM ListInvariant == ListSpec => []ListInv
<1>1. ListInv /\ [ListNext]_listVars => ListInv'
  BY ListStepInv
<1> QED
  BY <1>1, ListInitially, PTL DEF ListSpec

\* A complete walk shows every row that was on the list all the time.
THEOREM NothingSkipped == ListSpec => []WalkSkipsNothing
<1>1. ListInv => WalkSkipsNothing
  BY DEF ListInv
<1> QED
  BY <1>1, ListInvariant, PTL

\* A walk shows no row twice, but in the cases that the property names.
THEOREM NothingRepeated == ListSpec => []WalkRepeatsNothing
<1>1. ListInv => WalkRepeatsNothing
  BY DEF ListInv
<1> QED
  BY <1>1, ListInvariant, PTL
=============================================================================
