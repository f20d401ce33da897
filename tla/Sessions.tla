------------------------------ MODULE Sessions ------------------------------
(***************************************************************************)
(* Login, refresh and logout: handler/auth.go, service/auth.go and the     *)
(* token part of store/memory.go (the postgres store keeps tokens in the   *)
(* same memory store).  A refresh token is a signed record of the user and *)
(* of the second it was issued in, so two of them issued to one user in    *)
(* one second are the same string; the store keeps the hashes of the ones  *)
(* that are good.  The memory store ignores the ttl, the signature check   *)
(* applies it.                                                             *)
(***************************************************************************)
EXTENDS Naturals, FiniteSets, Records

CONSTANTS
    Browsers,           \* cookie jars; the tabs of a browser share one
    RefreshCalls,       \* refreshes in flight, of whichever browser
    Users,              \* accounts
    RefreshTTL,         \* seconds a refresh token is good for (7 days)
    MaxSecond,          \* bound: the clock
    MaxSessionCrashes   \* bound: restarts of the server

VARIABLES
    second,     \* the wall clock
    tokens,     \* m.tokens: the refresh tokens that are good
    cookie,     \* per browser its refresh_token cookie, or None
    leaving,    \* browsers whose logout is under way; bound: one of each
    refresh,    \* per call the refresh in progress, or None
    crashes,    \* restarts so far
    minted,     \* history: tokens issued, and those issued again
    spent,      \* history: <<old, new>> of the refreshes that issued a token
    excused     \* history: tokens presented twice at once, and those a browser may
                \* hold stale: logged out, or an answer was lost with its successor

sessionVars == <<second, tokens, cookie, leaving, refresh, crashes, minted, spent, excused>>

RefreshTokens == [user : Users, iat : 0..MaxSecond]

\* A refresh: whose cookie it presents, the token that it replaces, the new one
\* and how far it has come.
Refreshes == [jar : Browsers, old : RefreshTokens, new : RefreshTokens,
              stage : {"validated", "stored", "deleted"}]

\* None is neither a token nor a refresh.
ASSUME SessionsAssumption ==
    /\ RefreshTTL \in Nat \ {0} /\ MaxSecond \in Nat /\ MaxSessionCrashes \in Nat
    /\ \A tk \in RefreshTokens : None # tk
    /\ \A x \in Refreshes : None # x

SessionsInit ==
    /\ second = 0
    /\ tokens = {}
    /\ cookie = [b \in Browsers |-> None]
    /\ leaving = {}
    /\ refresh = [r \in RefreshCalls |-> None]
    /\ crashes = 0
    /\ minted = [once |-> {}, again |-> {}]
    /\ spent = {}
    /\ excused = [twice |-> {}, stale |-> {}]

\* generateRefreshToken
generateRefreshToken(u) == [user |-> u, iat |-> second]

Mint(tk) == minted' = [once |-> minted.once \cup {tk},
                       again |-> minted.again \cup ({tk} \cap minted.once)]

\* The token store.
TokensSet(tk) == tokens' = tokens \cup {tk}
TokensDelete(tk) == tokens' = tokens \ {tk}

\* ValidateRefreshToken: signature and audience hold of every token issued here.
ValidateRefreshToken(tk) == second < tk.iat + RefreshTTL /\ tk \in tokens

Refreshing(tk) == {r \in RefreshCalls : refresh[r] # None /\ refresh[r].old = tk}

-----------------------------------------------------------------------------
Tick ==
    /\ second < MaxSecond
    /\ second' = second + 1
    /\ UNCHANGED <<tokens, cookie, leaving, refresh, crashes, minted, spent, excused>>

\* Login with the right password.
Login(tk) == TokensSet(tk) /\ Mint(tk)

\* Refresh, up to the new token ...
RefreshValidate(r, b) ==
    LET old == cookie[b]
        new == generateRefreshToken(old.user)
    IN  /\ ValidateRefreshToken(old)
        /\ refresh' = [refresh EXCEPT ![r] =
                          [jar |-> b, old |-> old, new |-> new, stage |-> "validated"]]
        /\ Mint(new)
        /\ excused' = IF Refreshing(old) = {} THEN excused
                      ELSE [excused EXCEPT !.twice = @ \cup {old}]
        /\ UNCHANGED <<second, tokens, cookie, leaving, crashes, spent>>

RefreshAt(r, stage) == refresh[r] # None /\ refresh[r].stage = stage

\* Mistake: the new token is filed under the old one.
RefreshSetOld(r) ==
    /\ RefreshAt(r, "validated")
    /\ TokensSet(refresh[r].old)
    /\ refresh' = [refresh EXCEPT ![r].stage = "stored"]
    /\ spent' = spent \cup {<<refresh[r].old, refresh[r].new>>}
    /\ UNCHANGED <<second, cookie, leaving, crashes, minted, excused>>

\* ... which is stored ...
RefreshSet(r) ==
    /\ RefreshAt(r, "validated")
    /\ TokensSet(refresh[r].new)
    /\ refresh' = [refresh EXCEPT ![r].stage = "stored"]
    /\ spent' = spent \cup {<<refresh[r].old, refresh[r].new>>}
    /\ UNCHANGED <<second, cookie, leaving, crashes, minted, excused>>

\* Mistake: the old token stays good.
RefreshDeleteNothing(r) ==
    /\ RefreshAt(r, "stored")
    /\ refresh' = [refresh EXCEPT ![r].stage = "deleted"]
    /\ UNCHANGED <<second, tokens, cookie, leaving, crashes, minted, spent, excused>>

\* ... before the old one is deleted.
RefreshDelete(r) ==
    /\ RefreshAt(r, "stored")
    /\ TokensDelete(refresh[r].old)
    /\ refresh' = [refresh EXCEPT ![r].stage = "deleted"]
    /\ UNCHANGED <<second, cookie, leaving, crashes, minted, spent, excused>>

\* Logout revokes the token.
Logout(tk) == TokensDelete(tk)

\* The process restarts: m.tokens and the requests are gone, the cookies are not.
SessionCrash ==
    /\ crashes < MaxSessionCrashes
    /\ crashes' = crashes + 1
    /\ excused' = [excused EXCEPT !.stale = @ \cup tokens \cup
                      {tk \in RefreshTokens : Refreshing(tk) # {}}]
    /\ tokens' = {} /\ leaving' = {}
    /\ refresh' = [r \in RefreshCalls |-> None]
    /\ UNCHANGED <<second, cookie, minted, spent>>

\* The handlers.  Every tab of a browser refreshes when it is opened, so that
\* one cookie may be presented again while a refresh with it is under way.
LoginHandler(b, u) ==
    /\ Login(generateRefreshToken(u))
    /\ cookie' = [cookie EXCEPT ![b] = generateRefreshToken(u)]
    /\ UNCHANGED <<second, leaving, refresh, crashes, spent, excused>>

RefreshHandler(r, b) == refresh[r] = None /\ cookie[b] # None /\ RefreshValidate(r, b)

\* The answer of a refresh sets the cookie, unless it does not arrive.
RefreshAnswer(r, arrives) ==
    /\ RefreshAt(r, "deleted")
    /\ cookie' = IF arrives THEN [cookie EXCEPT ![refresh[r].jar] = refresh[r].new] ELSE cookie
    /\ refresh' = [refresh EXCEPT ![r] = None]
    /\ excused' = IF arrives THEN excused
                  ELSE [excused EXCEPT !.stale = @ \cup {refresh[r].old}]
    /\ UNCHANGED <<second, tokens, leaving, crashes, minted, spent>>

\* Logout has revoked the token by the time that its answer is sent ...
LogoutHandler(b) ==
    /\ cookie[b] # None /\ b \notin leaving
    /\ Logout(cookie[b])
    /\ leaving' = leaving \cup {b}
    /\ excused' = [excused EXCEPT !.stale = @ \cup {cookie[b]}]
    /\ UNCHANGED <<second, cookie, refresh, crashes, minted, spent>>

\* ... which clears the cookie of that time, unless it does not arrive.
LogoutAnswer(b, arrives) ==
    /\ b \in leaving
    /\ cookie' = IF arrives THEN [cookie EXCEPT ![b] = None] ELSE cookie
    /\ leaving' = leaving \ {b}
    /\ UNCHANGED <<second, tokens, refresh, crashes, minted, spent, excused>>

SessionsNext ==
    \/ Tick \/ SessionCrash
    \/ \E b \in Browsers :
          \/ \E u \in Users : LoginHandler(b, u)
          \/ \E r \in RefreshCalls : RefreshHandler(r, b)
          \/ LogoutHandler(b)
          \/ \E arrives \in BOOLEAN : LogoutAnswer(b, arrives)
    \/ \E r \in RefreshCalls :
          \/ RefreshSet(r) \/ RefreshDelete(r)
          \/ \E arrives \in BOOLEAN : RefreshAnswer(r, arrives)

SessionsSpec == SessionsInit /\ [][SessionsNext]_sessionVars

-----------------------------------------------------------------------------
\* Properties.

SessionsTypeOK ==
    /\ second \in 0..MaxSecond
    /\ tokens \subseteq RefreshTokens
    /\ cookie \in [Browsers -> RefreshTokens \cup {None}]
    /\ leaving \subseteq Browsers
    /\ refresh \in [RefreshCalls -> Refreshes \cup {None}]
    /\ minted \in [once : SUBSET RefreshTokens, again : SUBSET RefreshTokens]
    /\ spent \subseteq RefreshTokens \X RefreshTokens
    /\ excused \in [twice : SUBSET RefreshTokens, stale : SUBSET RefreshTokens]

\* Rotation: a refresh token is exchanged for one successor, and is dead by the
\* time that the refresh is answered.  The exceptions are exactly two: refreshes
\* that both found it good before either deleted it, and a token issued twice
\* in its second.
TokenSpentOnce ==
    \A p, q \in spent :
        (p[1] = q[1] /\ p[1] \notin excused.twice \cup minted.again) =>
            p = q /\ (p[1] \in tokens => Refreshing(p[1]) # {})

\* Nobody is logged out by chance, however many tabs refresh at once: the
\* cookie of a browser is good until it expires, its successor is on the way or
\* a logout has revoked it (the browser keeps it until that answer arrives, and
\* for good when it is lost), unless the answer of a refresh was lost, the server
\* restarted, or it was issued twice.
UndisturbedCookieWorks ==
    \A b \in Browsers :
        ( /\ cookie[b] # None
          /\ cookie[b] \notin excused.stale \cup minted.again
          /\ second < cookie[b].iat + RefreshTTL
          /\ ~\E r \in Refreshing(cookie[b]) : refresh[r].jar = b /\ RefreshAt(r, "deleted") )
            => ValidateRefreshToken(cookie[b])

\* What makes the two inductive.  Everything that is somewhere was issued.
Issued ==
    /\ tokens \subseteq minted.once
    /\ \A b \in Browsers : cookie[b] # None => cookie[b] \in minted.once
    /\ \A r \in RefreshCalls :
          refresh[r] # None => refresh[r].old \in minted.once /\ refresh[r].new \in minted.once
    /\ \A p \in spent : p[1] \in minted.once

\* A token that a refresh has issued once is known to nobody else, and good
\* from the moment it is stored.
OnlyHere(r) ==
    LET new == refresh[r].new IN
    refresh[r] # None /\ new \notin minted.again =>
        /\ \A b \in Browsers : cookie[b] # new
        /\ Refreshing(new) = {}
        /\ \A q \in RefreshCalls \ {r} : refresh[q] # None => refresh[q].new # new
        /\ \A p \in spent : p[1] # new
        /\ refresh[r].stage # "validated" => new \in tokens \cup excused.stale

\* A token issued once is in one jar.
OneJar ==
    /\ \A b, d \in Browsers :
          b # d /\ cookie[b] # None /\ cookie[b] = cookie[d] => cookie[b] \in minted.again
    /\ \A r \in RefreshCalls, d \in Browsers :
          refresh[r] # None /\ d # refresh[r].jar /\ cookie[d] = refresh[r].old =>
              refresh[r].old \in minted.again

\* What a refresh has done to the token it replaces.
Rotation(r) ==
    LET x == refresh[r] IN
    x # None /\ x.old \notin excused.twice \cup minted.again =>
        /\ Refreshing(x.old) = {r}
        /\ \A p \in spent : p[1] = x.old => x.stage # "validated" /\ p = <<x.old, x.new>>

DeadOnceDeleted ==
    \A r \in RefreshCalls :
        RefreshAt(r, "deleted") /\ refresh[r].old \notin minted.again => refresh[r].old \notin tokens

CookieGood ==
    \A b \in Browsers :
        cookie[b] # None /\ cookie[b] \notin excused.stale \cup minted.again =>
            \/ cookie[b] \in tokens
            \/ \E r \in Refreshing(cookie[b]) : refresh[r].jar = b /\ RefreshAt(r, "deleted")

SessionsInv ==
    /\ SessionsTypeOK /\ Issued /\ OneJar /\ DeadOnceDeleted /\ CookieGood /\ TokenSpentOnce
    /\ \A r \in RefreshCalls : OnlyHere(r) /\ Rotation(r)
=============================================================================
